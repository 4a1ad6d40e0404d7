---------------------------------- MODULE Gate ----------------------------------
(***************************************************************************)
(* SecurityGate in front of CommandHandler, and the state SecurityVault    *)
(* keeps for it: the ids of texts already accepted, the count of failures, *)
(* the seal and the audit ring.                                            *)
(*                                                                         *)
(* Twilio delivers a text, sometimes more than once; each delivery is an   *)
(* execution of its own and overlaps others.  A delivery reads the seal,   *)
(* checks who sent the text, and then goes through up to three sections    *)
(* under the script lock, each of which may instead give up as busy.       *)
(* Inside a section every write of a property is a step, because an        *)
(* execution may die between two of them: hashSender throws without its    *)
(* key, and the platform may stop.  `finally` frees the lock either way.   *)
(***************************************************************************)
EXTENDS Naturals, Sequences, FiniteSets

CONSTANTS
    Delivery,     \* POSTs from Twilio; each is one execution
    MaxOverlap,   \* bound on the executions in progress at the same time
    Text,         \* what Twilio delivers; a text is its MessageSid
    KindOf,       \* who sent it and what it says
    Blank,        \* texts without a usable MessageSid
    NoText,       \* the text of a delivery that has not arrived
    NoOne,        \* the script lock is free
    Other,        \* the daily run or a command's write holds the script lock
    MaxFailures,  \* SecurityVault.MAX_FAILURES
    MaxSids,      \* SecurityVault.MAX_SIDS
    Ttl,          \* SecurityVault.SID_TTL_MS
    MaxAudit,     \* SecurityVault.MAX_AUDIT_ENTRIES
    MaxNow,       \* bound on the clock
    MaxEdits      \* bound on edits of the stored ids by hand

(* "junk" lacks the URL's token; a "stranger" has it and is not the         *)
(* recipient; an "unlock" is the recipient's, with the right word, and a    *)
(* "mistyped" one with another.                                             *)
Kinds == {"junk", "stranger", "command", "log", "unlock", "mistyped"}

ASSUME GateAssumption ==
    /\ NoOne \notin Delivery /\ Other \notin Delivery /\ NoOne # Other
    /\ NoText \notin Text
    /\ KindOf \in [Text -> Kinds]
    /\ Blank \subseteq Text
    /\ MaxOverlap \in Nat /\ MaxFailures \in Nat \ {0}
    /\ MaxSids \in Nat \ {0} /\ Ttl \in Nat \ {0} /\ MaxAudit \in Nat \ {0}
    /\ MaxNow \in Nat /\ MaxEdits \in Nat

VARIABLES
    now,      \* Date.now()
    granted,  \* every id ever recorded, with its moment and delivery (history)
    seen,     \* Script Property SEC_SEEN_SIDS, as places in `granted`
    failures, \* Script Property SEC_FAILURES
    sealed,   \* Script Property SEC_SEALED is "true"
    audit,    \* Script Property SEC_AUDIT, the kinds only
    lock,     \* the script lock
    pc,       \* where each delivery is
    then,     \* where it goes when it has released the lock
    text,     \* what it delivers
    route,    \* what it read of the seal
    fresh,    \* `fresh` in checkAndRecordSid
    stamp,    \* `now` in checkAndRecordSid
    count,    \* `failures` in registerFailure
    answer,   \* the text it sends
    tally,    \* failures written since the count was last cleared (history)
    streak,   \* failures written since a text was last let through (history)
    seals,    \* how often the bot has sealed itself (history)
    sealsAt,  \* `seals` when the delivery arrived (history)
    cut,      \* sections a dying execution has left half done (history)
    lost,     \* `granted` up to here was forgotten by an edit (history)
    edits     \* how many edits there have been (bounded)

memory == <<now, granted, seen, lost, edits>>
guard == <<failures, sealed, audit, tally, streak, seals, cut>>
local == <<text, route, fresh, stamp, count, answer, sealsAt>>
vars == <<memory, guard, lock, pc, then, local>>

Waiting == {"sid_lock", "count_lock", "replay_lock", "reset_lock", "unseal_lock"}
Inside == {"sid_check", "sid_write", "count_read", "count_write", "count_audit", "seal_test",
           "seal", "seal_audit", "replay_audit", "reset", "unseal", "unseal_zero",
           "unseal_audit", "release"}
Over == {"over", "dead"}
Locations == {"idle", "gate", "reset_read", "serve", "notice", "send"}
                \cup Waiting \cup Inside \cup Over

Answers == {"none", "notice", "served", "log", "unlocked"}
Grants == [sid : Text, at : Nat, by : Delivery]
Events == {"rejected", "sealed", "replay", "unsealed"}

TypeOK == /\ now \in 0..MaxNow
          /\ granted \in Seq(Grants)
          /\ seen \in SUBSET (1..Len(granted))
          /\ failures \in Nat
          /\ sealed \in BOOLEAN
          /\ audit \in Seq(Events) /\ Len(audit) <= MaxAudit
          /\ lock \in Delivery \cup {NoOne, Other}
          /\ pc \in [Delivery -> Locations]
          /\ then \in [Delivery -> Locations]
          /\ text \in [Delivery -> Text \cup {NoText}]
          /\ route \in [Delivery -> {"none", "open", "closed"}]
          /\ fresh \in [Delivery -> SUBSET (1..Len(granted))]
          /\ stamp \in [Delivery -> Nat]
          /\ count \in [Delivery -> Nat]
          /\ answer \in [Delivery -> Answers]
          /\ tally \in Nat
          /\ streak \in Nat
          /\ seals \in Nat
          /\ sealsAt \in [Delivery -> Nat]
          /\ cut \in SUBSET Inside
          /\ lost \in 0..Len(granted)
          /\ edits \in 0..MaxEdits

Init == /\ now = 0
        /\ granted = <<>>
        /\ seen = {}
        /\ failures = 0
        /\ sealed = FALSE
        /\ audit = <<>>
        /\ lock = NoOne
        /\ pc = [x \in Delivery |-> "idle"]
        /\ then = [x \in Delivery |-> "over"]
        /\ text = [x \in Delivery |-> NoText]
        /\ route = [x \in Delivery |-> "none"]
        /\ fresh = [x \in Delivery |-> {}]
        /\ stamp = [x \in Delivery |-> 0]
        /\ count = [x \in Delivery |-> 0]
        /\ answer = [x \in Delivery |-> "none"]
        /\ tally = 0
        /\ streak = 0
        /\ seals = 0
        /\ sealsAt = [x \in Delivery |-> 0]
        /\ cut = {}
        /\ lost = 0
        /\ edits = 0

-----------------------------------------------------------------------------
At(x, l) == pc[x] = l
Goto(x, l) == pc' = [pc EXCEPT ![x] = l]

(* Leave the section by its release, and go on to l. *)
ReleaseTo(x, l) == /\ Goto(x, "release")
                   /\ then' = [then EXCEPT ![x] = l]

(* SecurityVault._appendAudit; a slip forgets to cut the ring. *)
NotedUnbounded(k) == Append(audit, k)
Noted(k) == LET longer == Append(audit, k) IN
            IF Len(longer) > MaxAudit THEN Tail(longer) ELSE longer

Overlapping == {x \in Delivery : pc[x] \notin Over \cup {"idle"}}

(* Twilio posts a text: a new one, or one it has posted before. *)
Arrive(x, t) == /\ At(x, "idle")
                /\ Cardinality(Overlapping) < MaxOverlap
                /\ text' = [text EXCEPT ![x] = t]
                /\ sealsAt' = [sealsAt EXCEPT ![x] = seals]
                /\ Goto(x, "gate")
                /\ UNCHANGED <<memory, guard, lock, then, route, fresh, stamp, count, answer>>

(* What a text that passed for the recipient's meets next.  One without an  *)
(* id counts as repeated, and so never gets to the lock.                    *)
Identify(x, way) ==
    Goto(x, CASE text[x] \notin Blank -> "sid_lock"
              [] text[x] \in Blank /\ way = "open" -> "replay_lock"
              [] text[x] \in Blank /\ way = "closed" -> "over")

(* A slip: the seal keeps strangers out, and lets the recipient's texts by. *)
AuthorizeFamiliar(x) ==
    /\ At(x, "gate")
    /\ route' = [route EXCEPT ![x] = IF sealed THEN "closed" ELSE "open"]
    /\ LET kind == KindOf[text[x]] IN
       \/ sealed /\ kind = "unlock" /\ Identify(x, "closed")
       \/ sealed /\ kind \in {"junk", "stranger"} /\ Goto(x, "over")
       \/ ~sealed /\ kind = "junk" /\ Goto(x, "over")
       \/ ~sealed /\ kind = "stranger" /\ Goto(x, "count_lock")
       \/ kind \in {"command", "log"} /\ Goto(x, "serve")
    /\ UNCHANGED <<memory, guard, lock, then, text, fresh, stamp, count, answer, sealsAt>>

(* The seal is read first, and once.  A sealed bot listens to an unlock and *)
(* to nothing else; an open one tells the three kinds of sender apart.      *)
Authorize(x) ==
    /\ At(x, "gate")
    /\ route' = [route EXCEPT ![x] = IF sealed THEN "closed" ELSE "open"]
    /\ LET kind == KindOf[text[x]] IN
       \/ sealed /\ kind = "unlock" /\ Identify(x, "closed")
       \/ sealed /\ kind # "unlock" /\ Goto(x, "over")
       \/ ~sealed /\ kind = "junk" /\ Goto(x, "over")
       \/ ~sealed /\ kind = "stranger" /\ Goto(x, "count_lock")
       \/ ~sealed /\ kind \notin {"junk", "stranger"} /\ Identify(x, "open")
    /\ UNCHANGED <<memory, guard, lock, then, text, fresh, stamp, count, answer, sealsAt>>

-----------------------------------------------------------------------------
(* Locks.withScriptLock, for the five sections.                             *)
Entered == [l \in Waiting |-> CASE l = "sid_lock" -> "sid_check"
                                [] l = "count_lock" -> "count_read"
                                [] l = "replay_lock" -> "replay_audit"
                                [] l = "reset_lock" -> "reset"
                                [] l = "unseal_lock" -> "unseal"]

(* A slip: the section is entered whether or not the lock was obtained. *)
AcquireAnyway(x) == /\ pc[x] \in Waiting
                    /\ lock' = x
                    /\ Goto(x, Entered[pc[x]])
                    /\ UNCHANGED <<memory, guard, then, local>>

Acquire(x) == /\ pc[x] \in Waiting
              /\ lock = NoOne
              /\ lock' = x
              /\ Goto(x, Entered[pc[x]])
              /\ UNCHANGED <<memory, guard, then, local>>

(* Slips: a busy lock is waited for again; a busy unseal passes for one     *)
(* that happened; an id that cannot be checked counts as new.               *)
BusyRetry(x) == /\ pc[x] \in Waiting
                /\ lock # NoOne
                /\ UNCHANGED vars
BusyUnsealed(x) == /\ pc[x] \in Waiting
                   /\ lock # NoOne
                   /\ Goto(x, CASE pc[x] = "sid_lock" /\ route[x] = "open" -> "replay_lock"
                                [] pc[x] \in {"reset_lock", "unseal_lock"} -> "serve"
                                [] OTHER -> "over")
                   /\ UNCHANGED <<memory, guard, lock, then, local>>

BusyTrusting(x) == /\ pc[x] \in Waiting
                   /\ lock # NoOne
                   /\ Goto(x, CASE pc[x] = "sid_lock" -> IF route[x] = "open" THEN "reset_read" ELSE "unseal_lock"
                                [] pc[x] = "reset_lock" -> "serve"
                                [] OTHER -> "over")
                   /\ UNCHANGED <<memory, guard, lock, then, local>>

(* onBusy: an id that cannot be checked counts as repeated, a failure is    *)
(* not counted, an event is not noted, the count is not cleared, and an     *)
(* unlock is refused.                                                       *)
Busy(x) == /\ pc[x] \in Waiting
           /\ lock # NoOne
           /\ Goto(x, CASE pc[x] = "sid_lock" /\ route[x] = "open" -> "replay_lock"
                        [] pc[x] = "reset_lock" -> "serve"
                        [] OTHER -> "over")
           /\ UNCHANGED <<memory, guard, lock, then, local>>

Release(x) == /\ At(x, "release")
              /\ lock' = NoOne
              /\ Goto(x, then[x])
              /\ UNCHANGED <<memory, guard, then, local>>

-----------------------------------------------------------------------------
(* SecurityVault.checkAndRecordSid: what is still remembered, and whether   *)
(* this text is among it.  A slip lets a sealed bot take a repeated unlock. *)
SidCheckOnce(x) ==
    /\ At(x, "sid_check")
    /\ stamp' = [stamp EXCEPT ![x] = now]
    /\ fresh' = [fresh EXCEPT ![x] = {i \in seen : now - granted[i].at < Ttl}]
    /\ IF \E i \in fresh'[x] : granted[i].sid = text[x]
       THEN ReleaseTo(x, IF route[x] = "open" THEN "replay_lock" ELSE "unseal_lock")
       ELSE Goto(x, "sid_write") /\ UNCHANGED then
    /\ UNCHANGED <<memory, guard, lock, text, route, count, answer, sealsAt>>

SidCheck(x) ==
    /\ At(x, "sid_check")
    /\ stamp' = [stamp EXCEPT ![x] = now]
    /\ fresh' = [fresh EXCEPT ![x] = {i \in seen : now - granted[i].at < Ttl}]
    /\ IF \E i \in fresh'[x] : granted[i].sid = text[x]
       THEN ReleaseTo(x, IF route[x] = "open" THEN "replay_lock" ELSE "over")
       ELSE Goto(x, "sid_write") /\ UNCHANGED then
    /\ UNCHANGED <<memory, guard, lock, text, route, count, answer, sealsAt>>

(* `slice(-MAX_SIDS)`; a slip keeps the other end. *)
OldestOf(S) == {i \in S : Cardinality({j \in S : j < i}) < MaxSids}
NewestOf(S) == {i \in S : Cardinality({j \in S : j > i}) < MaxSids}

(* The id is stored, and from here on the text cannot be delivered again    *)
(* for some time, whatever becomes of this execution.                       *)
SidWrite(x) ==
    /\ At(x, "sid_write")
    /\ granted' = Append(granted, [sid |-> text[x], at |-> stamp[x], by |-> x])
    /\ seen' = NewestOf(fresh[x] \cup {Len(granted) + 1})
    /\ ReleaseTo(x, IF route[x] = "open" THEN "reset_read" ELSE "unseal_lock")
    /\ UNCHANGED <<now, lost, edits, guard, lock, local>>

(* SecurityVault.recordAudit('replay'). *)
ReplayAudit(x) == /\ At(x, "replay_audit")
                  /\ audit' = Noted("replay")
                  /\ ReleaseTo(x, "over")
                  /\ UNCHANGED <<memory, failures, sealed, tally, streak, seals, cut, lock, local>>

-----------------------------------------------------------------------------
(* SecurityVault.registerFailure. *)
CountRead(x) == /\ At(x, "count_read")
                /\ count' = [count EXCEPT ![x] = failures + 1]
                /\ Goto(x, "count_write")
                /\ UNCHANGED <<memory, guard, lock, then, text, route, fresh, stamp, answer, sealsAt>>

CountWrite(x) == /\ At(x, "count_write")
                 /\ failures' = count[x]
                 /\ tally' = tally + 1
                 /\ streak' = streak + 1
                 /\ Goto(x, "count_audit")
                 /\ UNCHANGED <<memory, sealed, audit, seals, cut, lock, then, local>>

CountAudit(x) == /\ At(x, "count_audit")
                 /\ audit' = Noted("rejected")
                 /\ Goto(x, "seal_test")
                 /\ UNCHANGED <<memory, failures, sealed, tally, streak, seals, cut, lock, then, local>>

(* Slips: one failure more than MAX_FAILURES is allowed; a bot that is      *)
(* sealed already is taken for one that just sealed itself.                 *)
SealTestLate(x) == /\ At(x, "seal_test")
                   /\ IF count[x] > MaxFailures /\ ~sealed
                      THEN Goto(x, "seal") /\ UNCHANGED then
                      ELSE ReleaseTo(x, "over")
                   /\ UNCHANGED <<memory, guard, lock, local>>
SealTestAgain(x) == /\ At(x, "seal_test")
                    /\ IF count[x] >= MaxFailures
                       THEN Goto(x, "seal") /\ UNCHANGED then
                       ELSE ReleaseTo(x, "over")
                    /\ UNCHANGED <<memory, guard, lock, local>>

SealTest(x) == /\ At(x, "seal_test")
               /\ IF count[x] >= MaxFailures /\ ~sealed
                  THEN Goto(x, "seal") /\ UNCHANGED then
                  ELSE ReleaseTo(x, "over")
               /\ UNCHANGED <<memory, guard, lock, local>>

Seal(x) == /\ At(x, "seal")
           /\ sealed' = TRUE
           /\ seals' = IF sealed THEN seals ELSE seals + 1
           /\ cut' = cut \ {"count_audit", "seal_test", "seal"}
           /\ Goto(x, "seal_audit")
           /\ UNCHANGED <<memory, failures, audit, tally, streak, lock, then, local>>

SealAudit(x) == /\ At(x, "seal_audit")
                /\ audit' = Noted("sealed")
                /\ cut' = cut \ {"seal_audit", "unseal_zero", "unseal_audit"}
                /\ ReleaseTo(x, "notice")
                /\ UNCHANGED <<memory, failures, sealed, tally, streak, seals, lock, local>>

-----------------------------------------------------------------------------
(* SecurityVault.resetFailures looks before it takes the lock. *)
ResetRead(x) == /\ At(x, "reset_read")
                /\ Goto(x, IF failures = 0 THEN "serve" ELSE "reset_lock")
                /\ UNCHANGED <<memory, guard, lock, then, local>>

Cleared == /\ failures' = 0
           /\ tally' = 0

Reset(x) == /\ At(x, "reset")
            /\ Cleared
            /\ cut' = cut \ {"count_audit", "seal_test", "seal"}
            /\ ReleaseTo(x, "serve")
            /\ UNCHANGED <<memory, sealed, audit, streak, seals, lock, local>>

(* SecurityVault.unseal; a slip forgets to note it. *)
Unseal(x) == /\ At(x, "unseal")
             /\ sealed' = FALSE
             /\ Goto(x, "unseal_zero")
             /\ UNCHANGED <<memory, failures, audit, tally, streak, seals, cut, lock, then, local>>

UnsealZeroOnly(x) == /\ At(x, "unseal_zero")
                     /\ Cleared
                     /\ ReleaseTo(x, "reset_read")
                     /\ UNCHANGED <<memory, sealed, audit, streak, seals, cut, lock, local>>
UnsealZero(x) == /\ At(x, "unseal_zero")
                 /\ Cleared
                 /\ cut' = cut \ {"count_audit", "seal_test", "seal"}
                 /\ Goto(x, "unseal_audit")
                 /\ UNCHANGED <<memory, sealed, audit, streak, seals, lock, then, local>>

UnsealAudit(x) == /\ At(x, "unseal_audit")
                  /\ audit' = Noted("unsealed")
                  /\ cut' = cut \ {"seal_audit", "unseal_zero", "unseal_audit"}
                  /\ ReleaseTo(x, "reset_read")
                  /\ UNCHANGED <<memory, failures, sealed, tally, streak, seals, lock, local>>

-----------------------------------------------------------------------------
(* CommandHandler.doPost, past the gate: the command is carried out (see    *)
(* Watchlist), LOG reads the ring, UNLOCK has nothing left to do.           *)
Serve(x) == /\ At(x, "serve")
            /\ answer' = [answer EXCEPT ![x] = CASE KindOf[text[x]] \in {"unlock", "mistyped"} -> "unlocked"
                                                 [] KindOf[text[x]] = "log" -> "log"
                                                 [] KindOf[text[x]] \notin {"unlock", "mistyped", "log"} -> "served"]
            /\ streak' = 0
            /\ Goto(x, "send")
            /\ UNCHANGED <<memory, failures, sealed, audit, tally, seals, cut, lock, then,
                           text, route, fresh, stamp, count, sealsAt>>

(* The one text the bot sends of itself: it has just sealed itself. *)
Notice(x) == /\ At(x, "notice")
             /\ answer' = [answer EXCEPT ![x] = "notice"]
             /\ Goto(x, "send")
             /\ UNCHANGED <<memory, guard, lock, then, text, route, fresh, stamp, count, sealsAt>>

Send(x) == /\ At(x, "send")
           /\ Goto(x, "over")
           /\ UNCHANGED <<memory, guard, lock, then, local>>

(* A slip: no `finally`. *)
DieHolding(x) == /\ x \in Overlapping
                 /\ Goto(x, "dead")
                 /\ UNCHANGED <<memory, guard, lock, then, local>>

(* An exception that doPost swallows (a missing setting among them), or the *)
(* platform: the execution is over without an answer.                       *)
Die(x) == /\ x \in Overlapping
          /\ Goto(x, "dead")
          /\ lock' = IF lock = x THEN NoOne ELSE lock
          /\ cut' = cut \cup ({pc[x]} \cap Inside)
          /\ UNCHANGED <<memory, failures, sealed, audit, tally, streak, seals, then, local>>

(* The same past the gate, in a command's own section: the lock that is     *)
(* Other's here is freed with it.                                           *)
DieInCommand(x) == /\ At(x, "send")
                   /\ lock = Other /\ lock' = NoOne
                   /\ Goto(x, "dead")
                   /\ UNCHANGED <<memory, guard, then, local>>

(* What the gate does of a delivery, up to its decision. *)
Guard(x) == \/ Authorize(x) \/ Acquire(x) \/ Busy(x) \/ Release(x)
            \/ SidCheck(x) \/ SidWrite(x) \/ ReplayAudit(x)
            \/ CountRead(x) \/ CountWrite(x) \/ CountAudit(x)
            \/ SealTest(x) \/ Seal(x) \/ SealAudit(x)
            \/ ResetRead(x) \/ Reset(x)
            \/ Unseal(x) \/ UnsealZero(x) \/ UnsealAudit(x)
            \/ Notice(x)

Step(x) == Guard(x) \/ Serve(x) \/ Send(x)

(* Time passes. *)
Tick == /\ now < MaxNow
        /\ now' = now + 1
        /\ UNCHANGED <<granted, seen, lost, edits, guard, lock, pc, then, local>>

(* The daily run, or a command past the gate, takes the lock and frees it. *)
OtherLock == /\ \/ lock = NoOne /\ lock' = Other
                \/ lock = Other /\ lock' = NoOne
             /\ UNCHANGED <<memory, guard, pc, then, local>>

(* SEC_SEEN_SIDS is blanked or garbled by hand: _readJson starts it fresh. *)
Forget == /\ edits < MaxEdits
          /\ edits' = edits + 1
          /\ seen' = {}
          /\ lost' = Len(granted)
          /\ UNCHANGED <<now, granted, guard, lock, pc, then, local>>

Next == \/ \E x \in Delivery : \/ \E t \in Text : Arrive(x, t)
                               \/ Step(x)
                               \/ Die(x) \/ DieInCommand(x)
        \/ Tick
        \/ OtherLock
        \/ Forget

(* Fairness: an execution in progress keeps running.  Deliveries, deaths,   *)
(* time, edits and the other users of the lock are left alone.              *)
Fairness == \A x \in Delivery : WF_vars(Step(x))

Spec == Init /\ [][Next]_vars /\ Fairness
===============================================================================
