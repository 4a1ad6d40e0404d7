----------------------------- MODULE TriggerInstall -----------------------------
(***************************************************************************)
(* Scheduler.installTrigger: list the project's triggers, delete those of  *)
(* runDailyAlert one by one, create one per weekday, count what is there   *)
(* and throw if the count is wrong.  No lock is taken, so installs that    *)
(* overlap (Run pressed twice, clasp and the editor) work on the same      *)
(* triggers, and each step of one can fall between two of another.         *)
(***************************************************************************)
EXTENDS Naturals, FiniteSets

CONSTANTS
    Install,     \* executions of installTrigger; each happens once
    Days,        \* how many weekdays, `weekdays.length`
    Initial,     \* the sets of triggers the project may start with
    FirstId,     \* the platform's next id at that time
    MaxTriggers  \* bound on the triggers ever created

(* A trigger runs the alert on a day, or it is somebody else's (day 0).     *)
Trigger == [id : 1..MaxTriggers, day : 0..Days]

ASSUME InstallAssumption == /\ Days \in Nat \ {0}
                            /\ MaxTriggers \in Nat /\ FirstId \in Nat \ {0}
                            /\ Initial \subseteq SUBSET Trigger
                            /\ \A S \in Initial : \A t \in S : t.id < FirstId
                            /\ \A S \in Initial : \A s, t \in S : s.id = t.id => s = t

VARIABLES
    triggers, \* the project's triggers
    nextId,   \* the id the platform gives to the next one
    pc,       \* where each install is
    existing, \* those of its snapshot it has still to delete
    made,     \* how many days it has created
    latest,   \* how the last install to end has ended (history)
    solo      \* the install has had the project to itself so far (history)

vars == <<triggers, nextId, pc, existing, made, latest, solo>>

Working == {"list", "delete", "create", "verify"}
Over == {"ok", "threw", "dead"}

Init == /\ triggers \in Initial
        /\ nextId = FirstId
        /\ pc = [x \in Install |-> "idle"]
        /\ existing = [x \in Install |-> {}]
        /\ made = [x \in Install |-> 0]
        /\ latest = "none"
        /\ solo = [x \in Install |-> FALSE]

-----------------------------------------------------------------------------
At(x, l) == pc[x] = l
Goto(x, l) == pc' = [pc EXCEPT ![x] = l]
Busy == {x \in Install : pc[x] \in Working}

(* getHandlerFunction() === 'runDailyAlert' *)
IsAlert(t) == t.day # 0
Alerts == {t \in triggers : IsAlert(t)}

EndAs(x, how) == /\ Goto(x, how)
                 /\ latest' = how

(* Somebody runs createTrigger. *)
Run(x) == /\ At(x, "idle")
          /\ Goto(x, "list")
          /\ solo' = [y \in Install |-> IF y = x THEN Busy = {} ELSE FALSE]
          /\ UNCHANGED <<triggers, nextId, existing, made, latest>>

(* getProjectTriggers, and which of them are the alert's. *)
List(x) == /\ At(x, "list")
           /\ existing' = [existing EXCEPT ![x] = Alerts]
           /\ Goto(x, "delete")
           /\ UNCHANGED <<triggers, nextId, made, latest, solo>>

(* deleteTrigger.  On one that another install has deleted already it does  *)
(* nothing, or it throws: then the install ends here, which is a Die.       *)
Delete(x) == /\ At(x, "delete")
             /\ \E t \in existing[x] :
                   /\ triggers' = triggers \ {t}
                   /\ existing' = [existing EXCEPT ![x] = @ \ {t}]
             /\ UNCHANGED <<nextId, pc, made, latest, solo>>

DeletedAll(x) == /\ At(x, "delete")
                 /\ existing[x] = {}
                 /\ Goto(x, "create")
                 /\ UNCHANGED <<triggers, nextId, existing, made, latest, solo>>

(* A slip: the days are numbered from the one before. *)
CreateOffByOne(x) == /\ At(x, "create")
                     /\ made[x] < Days
                     /\ nextId <= MaxTriggers
                     /\ triggers' = triggers \cup
                          {[id |-> nextId, day |-> IF made[x] = 0 THEN 1 ELSE made[x]]}
                     /\ nextId' = nextId + 1
                     /\ made' = [made EXCEPT ![x] = @ + 1]
                     /\ UNCHANGED <<pc, existing, latest, solo>>

(* newTrigger(...).create() for the next day. *)
Create(x) == /\ At(x, "create")
             /\ made[x] < Days
             /\ nextId <= MaxTriggers
             /\ triggers' = triggers \cup {[id |-> nextId, day |-> made[x] + 1]}
             /\ nextId' = nextId + 1
             /\ made' = [made EXCEPT ![x] = @ + 1]
             /\ UNCHANGED <<pc, existing, latest, solo>>

CreatedAll(x) == /\ At(x, "create")
                 /\ made[x] = Days
                 /\ Goto(x, "verify")
                 /\ UNCHANGED <<triggers, nextId, existing, made, latest, solo>>

(* Slips: too many triggers are as good as enough; the check waits until    *)
(* the count is right.                                                      *)
VerifyAtLeast(x) == /\ At(x, "verify")
                    /\ EndAs(x, IF Cardinality(Alerts) >= Days THEN "ok" ELSE "threw")
                    /\ UNCHANGED <<triggers, nextId, existing, made, solo>>
(* The count at the end, and the throw the operator sees. *)
Verify(x) == /\ At(x, "verify")
             /\ EndAs(x, IF Cardinality(Alerts) = Days THEN "ok" ELSE "threw")
             /\ UNCHANGED <<triggers, nextId, existing, made, solo>>

(* A platform call throws (the quota of triggers; a trigger that another    *)
(* install has deleted), or the execution is stopped.                       *)
Die(x) == /\ pc[x] \in Working
          /\ EndAs(x, "dead")
          /\ UNCHANGED <<triggers, nextId, existing, made, solo>>

Step(x) == \/ List(x) \/ Delete(x) \/ DeletedAll(x) \/ Create(x) \/ CreatedAll(x) \/ Verify(x)

Next == \E x \in Install : Run(x) \/ Step(x) \/ Die(x)

Spec == Init /\ [][Next]_vars
===============================================================================
