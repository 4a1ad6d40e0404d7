------------------------- MODULE TriggerInstall_proofs -------------------------
(***************************************************************************)
(* What installTrigger leaves behind, for every number of installs and of  *)
(* days and whatever triggers the project starts with.                     *)
(***************************************************************************)
EXTENDS TriggerInstallProps, FiniteSetTheorems, TLAPS

Types == /\ triggers \subseteq Trigger
         /\ nextId \in Nat \ {0}
         /\ pc \in [Install -> {"idle"} \cup Working \cup Over]
         /\ existing \in [Install -> SUBSET Trigger]
         /\ made \in [Install -> 0..Days]
         /\ latest \in {"none"} \cup Over
         /\ solo \in [Install -> BOOLEAN]

(* The platform has given every id it has seen. *)
Ids == /\ \A t \in triggers : t.id < nextId
       /\ \A x \in Install : \A t \in existing[x] : t.id < nextId

Of(d) == {t \in triggers : t.day = d}

(* The first k days have one trigger each, the rest none. *)
UpTo(k) == \A d \in 1..Days : /\ d <= k => \E t : Of(d) = {t}
                              /\ d > k => Of(d) = {}

(* What an install that has had the project to itself has made of it. *)
Alone == \A x \in Install : solo[x] =>
            /\ \A y \in Install \ {x} : pc[y] \notin Working
            /\ pc[x] = "delete" => existing[x] = Alerts
            /\ pc[x] = "create" => UpTo(made[x])
            /\ pc[x] \in {"verify", "ok"} => UpTo(Days)

Counted == \A x \in Install :
              /\ pc[x] \in {"idle", "list", "delete"} => made[x] = 0
              /\ pc[x] \in {"verify", "ok", "threw"} => made[x] = Days

(* Every trigger that y has created has a fellow of its day that no install *)
(* is going to delete.                                                      *)
Kept(y) == \A d \in 1..made[y] : \E t \in Of(d) : \A x \in Install : t \notin existing[x]

Listed == {x \in Install : pc[x] \in {"delete", "create", "verify", "ok", "threw"}}

(* While no install has stopped half way, somebody's triggers stay: those   *)
(* of the install that took its snapshot last.                              *)
Survivor == (\A x \in Install : pc[x] # "dead") /\ Listed # {} => \E y \in Listed : Kept(y)

(* When nobody is at work, the last word is about the triggers there are.   *)
LastCount == Busy = {} /\ latest = "ok" => Cardinality(Alerts) = Days /\ Listed # {}

IInv == Types /\ Ids /\ Alone /\ Counted /\ Survivor /\ LastCount

-----------------------------------------------------------------------------
LEMMA TriggersFinite == /\ IsFiniteSet(Trigger)
                        /\ \A S \in SUBSET Trigger : IsFiniteSet(S)
<1> DEFINE Pairs == (1..MaxTriggers) \X (0..Days)
           f == [p \in Pairs |-> [id |-> p[1], day |-> p[2]]]
<1>1. IsFiniteSet(1..MaxTriggers) /\ IsFiniteSet(0..Days)
  BY FS_Interval, InstallAssumption
<1>2. IsFiniteSet(Pairs)
  BY <1>1, FS_Product
<1>3. f \in [Pairs -> Trigger]
  BY DEF Trigger
<1>4. ASSUME NEW t \in Trigger PROVE \E p \in Pairs : f[p] = t
  <2>1. <<t.id, t.day>> \in Pairs /\ f[<<t.id, t.day>>] = t
    BY <1>4 DEF Trigger
  <2> QED
    BY <2>1
<1>5. f \in Surjection(Pairs, Trigger)
  BY <1>3, <1>4 DEF Surjection
<1>6. IsFiniteSet(Trigger)
  BY <1>2, <1>5, FS_Surjection
<1> QED
  BY <1>6, FS_Subset

LEMMA InitInv == Init => IInv
<1> SUFFICES ASSUME Init PROVE IInv
  OBVIOUS
<1> USE InstallAssumption DEF Init
<1>1. Types
  BY DEF Types, Working, Over
<1>2. Ids
  BY DEF Ids
<1>3. Listed = {} /\ \A x \in Install : ~solo[x]
  BY DEF Listed
<1> QED
  BY <1>1, <1>2, <1>3 DEF IInv, Alone, Counted, Survivor, LastCount

-----------------------------------------------------------------------------
LEMMA TypesNext == ASSUME IInv, [Next]_vars PROVE Types' /\ Ids'
<1> USE InstallAssumption DEF Types, At, Goto, EndAs, Working, Over
<1>0. Types /\ Ids
  BY DEF IInv
<1>1. ASSUME NEW x \in Install, Run(x) PROVE Types' /\ Ids'
  BY <1>0, <1>1 DEF Run, Ids
<1>2. ASSUME NEW x \in Install, List(x) PROVE Types' /\ Ids'
  BY <1>0, <1>2 DEF List, Ids, Alerts
<1>3. ASSUME NEW x \in Install, Delete(x) PROVE Types' /\ Ids'
  BY <1>0, <1>3 DEF Delete, Ids
<1>4. ASSUME NEW x \in Install, DeletedAll(x) \/ CreatedAll(x) \/ Verify(x) \/ Die(x)
      PROVE  Types' /\ Ids'
  BY <1>0, <1>4 DEF DeletedAll, CreatedAll, Verify, Die, Ids
<1>5. ASSUME NEW x \in Install, Create(x) PROVE Types' /\ Ids'
  <2> DEFINE new == [id |-> nextId, day |-> made[x] + 1]
  <2>1. new \in Trigger /\ new.id = nextId
    BY <1>0, <1>5 DEF Create, Trigger
  <2>2. /\ triggers' = triggers \cup {new} /\ nextId' = nextId + 1
        /\ made' = [made EXCEPT ![x] = made[x] + 1] /\ made[x] + 1 \in 0..Days
        /\ UNCHANGED <<pc, existing, latest, solo>>
    BY <1>0, <1>5 DEF Create
  <2> HIDE DEF new
  <2>3. Types'
    BY <1>0, <2>1, <2>2
  <2>4. \A t \in Trigger : t.id \in Nat
    BY DEF Trigger
  <2>5. \A t \in triggers' : t.id < nextId'
    BY <1>0, <2>1, <2>2, <2>4 DEF Ids
  <2>6. \A y \in Install : \A t \in existing'[y] : t.id < nextId'
    BY <1>0, <2>2, <2>4 DEF Ids
  <2> QED
    BY <2>3, <2>5, <2>6 DEF Ids
<1>6. CASE UNCHANGED vars
  BY <1>0, <1>6 DEF vars, Ids
<1> QED
  BY <1>1, <1>2, <1>3, <1>4, <1>5, <1>6 DEF Next, Step

LEMMA CountedNext == ASSUME IInv, [Next]_vars PROVE Counted'
<1> USE InstallAssumption DEF Types, At, Goto, EndAs, Working, Over, Counted
<1>0. Types /\ Counted
  BY DEF IInv
<1>1. ASSUME NEW x \in Install,
             Run(x) \/ List(x) \/ DeletedAll(x) \/ Delete(x) \/ CreatedAll(x) \/ Verify(x) \/ Die(x)
      PROVE  Counted'
  BY <1>0, <1>1 DEF Run, List, DeletedAll, Delete, CreatedAll, Verify, Die
<1>2. ASSUME NEW x \in Install, Create(x) PROVE Counted'
  BY <1>0, <1>2 DEF Create
<1>3. CASE UNCHANGED vars
  BY <1>0, <1>3 DEF vars
<1> QED
  BY <1>1, <1>2, <1>3 DEF Next, Step

(* An install that is alone deletes all there was and creates the days one  *)
(* by one: nobody else touches the triggers.                                *)
LEMMA AloneNext == ASSUME IInv, [Next]_vars PROVE Alone'
<1> USE InstallAssumption DEF Types, At, Goto, EndAs, Working, Over
<1>0. Types /\ Alone /\ Counted
  BY DEF IInv
<1>1. ASSUME NEW x \in Install, Run(x) PROVE Alone'
  BY <1>0, <1>1 DEF Run, Alone, Busy
<1>2. ASSUME NEW x \in Install, List(x) PROVE Alone'
  BY <1>0, <1>2 DEF List, Alone, Alerts, UpTo, Of
<1>3. ASSUME NEW x \in Install, Delete(x) PROVE Alone'
  <2>1. PICK t \in existing[x] : /\ triggers' = triggers \ {t}
                                 /\ existing' = [existing EXCEPT ![x] = @ \ {t}]
    BY <1>3 DEF Delete
  <2>2. pc[x] = "delete" /\ UNCHANGED <<pc, made, solo>>
    BY <1>3 DEF Delete
  <2>3. Alerts' = Alerts \ {t}
    BY <2>1 DEF Alerts
  <2>4. ASSUME NEW y \in Install, solo[y] PROVE y = x
    BY <1>0, <2>2, <2>4 DEF Alone
  <2> QED
    BY <1>0, <2>1, <2>2, <2>3, <2>4 DEF Alone
<1>4. ASSUME NEW x \in Install, DeletedAll(x) PROVE Alone'
  <2>1. /\ pc[x] = "delete" /\ existing[x] = {} /\ pc' = [pc EXCEPT ![x] = "create"]
        /\ UNCHANGED <<triggers, nextId, existing, made, latest, solo>>
    BY <1>4 DEF DeletedAll
  <2>2. ASSUME NEW y \in Install, solo[y] PROVE y = x
    BY <1>0, <2>1, <2>2 DEF Alone
  <2>3. ASSUME solo[x] PROVE UpTo(made[x])
    <3>1. Alerts = {} /\ made[x] = 0
      BY <1>0, <2>1, <2>3 DEF Alone, Counted
    <3> QED
      BY <3>1 DEF UpTo, Of, Alerts, IsAlert
  <2>4. UpTo(made[x])' = UpTo(made[x])
    BY <2>1 DEF UpTo, Of
  <2> QED
    BY <1>0, <2>1, <2>2, <2>3, <2>4 DEF Alone
<1>5. ASSUME NEW x \in Install, Create(x) PROVE Alone'
  <2> DEFINE new == [id |-> nextId, day |-> made[x] + 1]
  <2>1. /\ triggers' = triggers \cup {new} /\ made' = [made EXCEPT ![x] = made[x] + 1]
        /\ pc[x] = "create" /\ UNCHANGED <<pc, existing, latest, solo>>
        /\ new.day = made[x] + 1 /\ made'[x] = made[x] + 1
    BY <1>0, <1>5 DEF Create
  <2> HIDE DEF new
  <2>2. ASSUME NEW y \in Install, solo[y] PROVE y = x
    BY <1>0, <2>1, <2>2 DEF Alone
  <2>3. ASSUME solo[x] PROVE UpTo(made[x])'
    <3>1. UpTo(made[x])
      BY <1>0, <2>1, <2>3 DEF Alone
    <3>2. ASSUME NEW d \in 1..Days, d = made[x] + 1 PROVE Of(d)' = {new}
      BY <1>0, <2>1, <3>1, <3>2 DEF UpTo, Of
    <3>3. ASSUME NEW d \in 1..Days, d # made[x] + 1 PROVE Of(d)' = Of(d)
      BY <1>0, <2>1, <3>3 DEF Of
    <3>4. made[x] \in 0..Days /\ made'[x] = made[x] + 1
      BY <1>0, <2>1
    <3>5. ASSUME NEW d \in 1..Days
          PROVE  /\ d <= made'[x] => \E t : Of(d)' = {t}
                 /\ d > made'[x] => Of(d)' = {}
      <4>1. CASE d = made[x] + 1
        <5>1. ~(d > made'[x])
          BY <3>4, <4>1
        <5> QED
          BY <3>2, <4>1, <5>1
      <4>2. CASE d # made[x] + 1
        <5>1. (d <= made'[x] => d <= made[x]) /\ (d > made'[x] => d > made[x])
          BY <3>4, <4>2
        <5> QED
          BY <3>1, <3>3, <4>2, <5>1 DEF UpTo
      <4> QED
        BY <4>1, <4>2
    <3> QED
      BY <3>5 DEF UpTo
  <2> QED
    BY <1>0, <2>1, <2>2, <2>3 DEF Alone
<1>6. ASSUME NEW x \in Install, CreatedAll(x) \/ Verify(x) \/ Die(x) PROVE Alone'
  <2>1. \A d : Of(d)' = Of(d)
    BY <1>6 DEF CreatedAll, Verify, Die, Of
  <2>2. \A k : UpTo(k)' = UpTo(k)
    BY <2>1 DEF UpTo
  <2>3. pc[x] = "create" /\ pc'[x] = "verify" => made[x] = Days
    BY <1>0, <1>6 DEF CreatedAll, Verify, Die
  <2> QED
    BY <1>0, <1>6, <2>2, <2>3 DEF Alone, CreatedAll, Verify, Die, Alerts
<1>7. CASE UNCHANGED vars
  <2>1. Alerts' = Alerts /\ \A d : Of(d)' = Of(d)
    BY <1>7 DEF vars, Alerts, Of
  <2>2. \A k : UpTo(k)' = UpTo(k)
    BY <2>1 DEF UpTo
  <2> QED
    BY <1>0, <1>7, <2>1, <2>2 DEF vars, Alone
<1> QED
  BY <1>1, <1>2, <1>3, <1>4, <1>5, <1>6, <1>7 DEF Next, Step

(* The install that takes its snapshot last creates all its triggers after  *)
(* it, so they are in nobody's; a snapshot taken later is a later survivor. *)
LEMMA SurvivorNext == ASSUME IInv, [Next]_vars PROVE Survivor'
<1> USE InstallAssumption DEF Types, At, Goto, EndAs, Working, Over
<1>0. Types /\ Ids /\ Counted /\ Survivor
  BY DEF IInv
<1>1. ASSUME NEW x \in Install, List(x) PROVE Survivor'
  <2>1. x \in Listed' /\ made'[x] = 0
    BY <1>0, <1>1 DEF List, Listed, Counted
  <2>2. Kept(x)'
    BY <2>1 DEF Kept
  <2> QED
    BY <2>1, <2>2 DEF Survivor
<1>2. ASSUME NEW x \in Install, Delete(x) PROVE Survivor'
  <2>1. /\ UNCHANGED <<pc, made>>
        /\ \E t \in existing[x] : /\ triggers' = triggers \ {t}
                                  /\ existing' = [existing EXCEPT ![x] = @ \ {t}]
    BY <1>2 DEF Delete
  <2>2. Listed' = Listed
    BY <2>1 DEF Listed
  <2>3. ASSUME NEW y \in Install, Kept(y) PROVE Kept(y)'
    BY <1>0, <2>1, <2>3 DEF Kept, Of
  <2> QED
    BY <1>0, <2>1, <2>2, <2>3 DEF Survivor, Listed
<1>3. ASSUME NEW x \in Install, Create(x) PROVE Survivor'
  <2> DEFINE new == [id |-> nextId, day |-> made[x] + 1]
  <2>1. /\ triggers' = triggers \cup {new} /\ made' = [made EXCEPT ![x] = made[x] + 1]
        /\ pc[x] = "create" /\ UNCHANGED <<pc, existing, latest, solo>>
        /\ new.id = nextId /\ new.day = made[x] + 1
    BY <1>3 DEF Create
  <2> HIDE DEF new
  <2>2. Listed' = Listed
    BY <2>1 DEF Listed
  <2>3. \A y \in Install : new \notin existing'[y]
    BY <1>0, <2>1 DEF Ids
  <2>4. ASSUME NEW y \in Install, Kept(y) PROVE Kept(y)'
    <3>1. ASSUME NEW d \in 1..made'[y]
          PROVE  \E t \in Of(d)' : \A z \in Install : t \notin existing'[z]
      <4>1. CASE y = x /\ d = made[x] + 1
        <5>1. new \in Of(d)'
          BY <2>1, <4>1 DEF Of
        <5> QED
          BY <2>3, <5>1
      <4>2. CASE ~(y = x /\ d = made[x] + 1)
        <5>1. d \in 1..made[y]
          BY <1>0, <2>1, <4>2
        <5>2. PICK t \in Of(d) : \A z \in Install : t \notin existing[z]
          BY <2>4, <5>1 DEF Kept
        <5>3. t \in Of(d)'
          BY <2>1, <5>2 DEF Of
        <5> QED
          BY <2>1, <5>2, <5>3
      <4> QED
        BY <4>1, <4>2
    <3> QED
      BY <3>1 DEF Kept
  <2> QED
    BY <1>0, <2>1, <2>2, <2>4 DEF Survivor, Listed
<1>4. ASSUME NEW x \in Install, Run(x) \/ DeletedAll(x) \/ CreatedAll(x) \/ Verify(x) PROVE Survivor'
  <2>1. /\ UNCHANGED <<triggers, existing, made>> /\ pc[x] # "dead"
        /\ \/ pc[x] = "idle" /\ Goto(x, "list")
           \/ x \in Listed /\ \E l \in {"create", "verify", "ok", "threw"} : Goto(x, l)
    BY <1>0, <1>4 DEF Run, DeletedAll, CreatedAll, Verify, Listed
  <2>2. Listed' = Listed /\ \A y \in Install : pc[y] = "dead" <=> pc'[y] = "dead"
    BY <1>0, <2>1 DEF Listed
  <2>3. \A y \in Install : Kept(y)' = Kept(y)
    BY <2>1 DEF Kept, Of
  <2> QED
    BY <1>0, <2>2, <2>3 DEF Survivor, Listed
<1>5. ASSUME NEW x \in Install, Die(x) PROVE Survivor'
  BY <1>0, <1>5 DEF Die, Survivor
<1>6. CASE UNCHANGED vars
  BY <1>0, <1>6 DEF vars, Survivor, Listed, Kept, Of
<1> QED
  BY <1>1, <1>2, <1>3, <1>4, <1>5, <1>6 DEF Next, Step

LEMMA LastCountNext == ASSUME IInv, [Next]_vars PROVE LastCount'
<1> USE InstallAssumption DEF Types, At, Goto, EndAs, Working, Over
<1>0. Types /\ LastCount
  BY DEF IInv
<1>1. ASSUME NEW x \in Install, Run(x) \/ List(x) \/ Delete(x) \/ DeletedAll(x) \/ Create(x) \/ CreatedAll(x)
      PROVE  LastCount'
  <2>1. pc'[x] \in {"list", "delete", "create", "verify"}
    <3>1. CASE Run(x) \/ List(x) \/ DeletedAll(x) \/ CreatedAll(x)
      <4>1. \E l \in {"list", "delete", "create", "verify"} : pc' = [pc EXCEPT ![x] = l]
        BY <3>1 DEF Run, List, DeletedAll, CreatedAll
      <4>2. x \in DOMAIN pc
        BY <1>0
      <4> QED
        BY <4>1, <4>2
    <3>2. CASE Delete(x) \/ Create(x)
      <4>1. pc' = pc /\ pc[x] \in {"delete", "create"}
        BY <3>2 DEF Delete, Create
      <4> QED
        BY <4>1
    <3> QED
      BY <1>1, <3>1, <3>2
  <2>2. Busy' # {}
    BY <2>1 DEF Busy
  <2> QED
    BY <2>2 DEF LastCount
<1>2. ASSUME NEW x \in Install, Verify(x) PROVE LastCount'
  <2>1. Alerts' = Alerts /\ x \in Listed'
    BY <1>0, <1>2 DEF Verify, Alerts, Listed
  <2>2. latest' = "ok" => Cardinality(Alerts) = Days
    BY <1>2 DEF Verify
  <2> QED
    BY <2>1, <2>2 DEF LastCount
<1>3. ASSUME NEW x \in Install, Die(x) PROVE LastCount'
  BY <1>3 DEF Die, LastCount
<1>4. CASE UNCHANGED vars
  BY <1>0, <1>4 DEF vars, LastCount, Busy, Alerts, Listed
<1> QED
  BY <1>1, <1>2, <1>3, <1>4 DEF Next, Step

LEMMA Invariance == Spec => []IInv
<1>1. IInv /\ [Next]_vars => IInv'
  BY TypesNext, CountedNext, AloneNext, SurvivorNext, LastCountNext DEF IInv
<1> QED
  BY InitInv, <1>1, PTL DEF Spec

-----------------------------------------------------------------------------
(* "It is safe to re-run" (Scheduler.installTrigger): an install that has   *)
(* the project to itself and ends well leaves one trigger for each day,     *)
(* whatever it finds.                                                       *)
THEOREM SoloInstall == Spec => []SoloInstallHeals
<1>1. IInv => SoloInstallHeals
  <2> SUFFICES ASSUME IInv, NEW x \in Install, solo[x], pc[x] = "ok", NEW d \in 1..Days
               PROVE  Cardinality({t \in triggers : t.day = d}) = 1
    BY DEF SoloInstallHeals, OnePerDay
  <2>1. UpTo(Days)
    BY DEF IInv, Alone
  <2>2. d <= Days
    BY InstallAssumption
  <2>3. PICK t : Of(d) = {t}
    BY <2>1, <2>2 DEF UpTo
  <2> QED
    BY <2>3, FS_Singleton DEF Of
<1> QED
  BY <1>1, Invariance, PTL

(* As many triggers as days, and one for each at least: one for each.       *)
LEMMA OneEach ==
    ASSUME Types, Cardinality(Alerts) = Days, \A d \in 1..Days : Of(d) # {}
    PROVE  OnePerDay
<1> DEFINE f == [t \in Alerts |-> t.day]
<1>1. IsFiniteSet(Alerts)
  BY TriggersFinite DEF Types, Alerts
<1>2. f \in [Alerts -> 1..Days]
  BY InstallAssumption DEF Types, Alerts, IsAlert, Trigger
<1>3. ASSUME NEW d \in 1..Days PROVE \E t \in Alerts : f[t] = d
  <2>1. PICK t \in Of(d) : TRUE
    OBVIOUS
  <2>2. t \in Alerts /\ t.day = d
    BY <1>3, <2>1, InstallAssumption DEF Of, Alerts, IsAlert
  <2> QED
    BY <2>2
<1>4. f \in Surjection(Alerts, 1..Days)
  BY <1>2, <1>3 DEF Surjection
<1>5. Cardinality(1..Days) = Days
  BY FS_Interval, InstallAssumption
<1>6. f \in Injection(Alerts, 1..Days)
  BY <1>1, <1>4, <1>5, FS_SurjSameCardinalityImpliesInj
<1>7. ASSUME NEW d \in 1..Days PROVE \E t : Of(d) = {t}
  <2>1. PICK t \in Of(d) : TRUE
    BY <1>7
  <2>2. ASSUME NEW s \in Of(d) PROVE s = t
    <3>1. s \in Alerts /\ t \in Alerts /\ f[s] = f[t]
      BY <1>7, <2>1, InstallAssumption DEF Of, Alerts, IsAlert
    <3> QED
      BY <1>6, <3>1 DEF Injection, IsInjective
  <2> QED
    BY <2>1, <2>2
<1> QED
  BY <1>7, FS_Singleton DEF OnePerDay, Of

(* "A half-installed set must not pass silently": when nobody is at work    *)
(* any more, no install having stopped half way, and the last one to end    *)
(* was content, each day has its one trigger, however they overlapped.      *)
THEOREM LastWord == Spec => []LastWordIsTrue
<1>1. IInv => LastWordIsTrue
  <2> SUFFICES ASSUME IInv, Busy = {}, latest = "ok", \A x \in Install : pc[x] # "dead"
               PROVE  OnePerDay
    BY DEF LastWordIsTrue
  <2>1. Cardinality(Alerts) = Days /\ Listed # {}
    BY DEF IInv, LastCount
  <2>2. PICK y \in Listed : Kept(y)
    BY <2>1 DEF IInv, Survivor
  <2>3. made[y] = Days
    BY <2>2 DEF IInv, Counted, Listed, Busy, Working
  <2>4. \A d \in 1..Days : Of(d) # {}
    BY <2>2, <2>3 DEF Kept
  <2> QED
    BY <2>1, <2>4, OneEach DEF IInv
<1> QED
  BY <1>1, Invariance, PTL
===============================================================================
