------------------------------- MODULE Gate_proofs -------------------------------
(***************************************************************************)
(* The gate, for any number of overlapping deliveries, any MAX_FAILURES,   *)
(* MAX_SIDS and SID_TTL_MS, and any history of deaths and edits.           *)
(*                                                                         *)
(* The parts of the invariant come in the order in which they are needed:  *)
(* types; who is in a section; what the section that counts failures and   *)
(* seals knows; what the replay memory still knows of each recorded id.    *)
(***************************************************************************)
EXTENDS GateProps, SequenceTheorems, FiniteSetTheorems, TLAPS

MemoryTypes == /\ now \in 0..MaxNow
               /\ granted \in Seq(Grants)
               /\ seen \in SUBSET (1..Len(granted))
               /\ fresh \in [Delivery -> SUBSET (1..Len(granted))]
               /\ stamp \in [Delivery -> Nat]
               /\ lost \in 0..Len(granted)
               /\ edits \in 0..MaxEdits

GuardTypes == /\ failures \in Nat
              /\ sealed \in BOOLEAN
              /\ audit \in Seq(Events) /\ Len(audit) <= MaxAudit
              /\ count \in [Delivery -> Nat]
              /\ tally \in Nat
              /\ streak \in Nat
              /\ seals \in Nat
              /\ sealsAt \in [Delivery -> Nat]
              /\ cut \in SUBSET Inside

(* Where a section may be left for. *)
Exits == {"over", "reset_read", "serve", "replay_lock", "unseal_lock", "notice"}

PlaceTypes == /\ lock \in Delivery \cup {NoOne, Other}
              /\ pc \in [Delivery -> Locations]
              /\ then \in [Delivery -> Exits]
              /\ text \in [Delivery -> Text \cup {NoText}]
              /\ route \in [Delivery -> {"none", "open", "closed"}]
              /\ answer \in [Delivery -> Answers]

(* A delivery on its way has a text. *)
HasText == \A x \in Delivery : pc[x] \notin {"idle", "over", "dead"} => text[x] \in Text

Types == MemoryTypes /\ GuardTypes /\ PlaceTypes /\ HasText

-----------------------------------------------------------------------------
LEMMA NotedTypes ==
    ASSUME GuardTypes, NEW k \in Events
    PROVE  Noted(k) \in Seq(Events) /\ Len(Noted(k)) <= MaxAudit
<1> DEFINE longer == Append(audit, k)
<1>1. longer \in Seq(Events) /\ Len(longer) = Len(audit) + 1 /\ Len(audit) \in Nat
  BY AppendProperties DEF GuardTypes
<1>2. Tail(longer) \in Seq(Events) /\ Len(Tail(longer)) = Len(audit)
  <2>1. longer # <<>>
    BY <1>1
  <2>. QED
    BY <1>1, <2>1, HeadTailProperties
<1>. HIDE DEF longer
<1>3. Noted(k) = IF Len(longer) > MaxAudit THEN Tail(longer) ELSE longer
  BY DEF Noted, longer
<1>. QED
  BY <1>1, <1>2, <1>3, GateAssumption DEF GuardTypes

LEMMA TypesInit == Init => Types
<1> SUFFICES ASSUME Init PROVE Types
  OBVIOUS
<1>1. MemoryTypes
  BY GateAssumption DEF Init, MemoryTypes
<1>2. GuardTypes
  <2>1. audit \in Seq(Events) /\ Len(audit) = 0
    BY DEF Init
  <2>2. failures \in Nat /\ tally \in Nat /\ streak \in Nat /\ seals \in Nat /\ sealed \in BOOLEAN
    BY DEF Init
  <2>3. count \in [Delivery -> Nat] /\ sealsAt \in [Delivery -> Nat] /\ cut \in SUBSET Inside
    BY DEF Init
  <2>. QED
    BY <2>1, <2>2, <2>3, GateAssumption DEF GuardTypes
<1>3. PlaceTypes /\ HasText
  BY GateAssumption DEF Init, PlaceTypes, HasText, Locations, Exits, Answers
<1>. QED
  BY <1>1, <1>2, <1>3 DEF Types

LEMMA PlaceTypesStep ==
    ASSUME Types, [Next]_vars
    PROVE  PlaceTypes' /\ HasText'
<1> USE GateAssumption DEF Types, PlaceTypes, HasText, At, Goto, ReleaseTo, memory, guard, local,
                           Locations, Waiting, Inside, Over, Exits, Answers
<1>1. ASSUME NEW x \in Delivery, NEW t \in Text, Arrive(x, t) PROVE PlaceTypes' /\ HasText'
  BY <1>1 DEF Arrive
<1>2. ASSUME NEW x \in Delivery, Authorize(x) PROVE PlaceTypes' /\ HasText'
  BY <1>2 DEF Authorize, Identify
<1>3. ASSUME NEW x \in Delivery, Acquire(x) PROVE PlaceTypes' /\ HasText'
  BY <1>3 DEF Acquire, Entered
<1>4. ASSUME NEW x \in Delivery, Busy(x) PROVE PlaceTypes' /\ HasText'
  BY <1>4 DEF Busy
<1>5. ASSUME NEW x \in Delivery, Release(x) PROVE PlaceTypes' /\ HasText'
  BY <1>5 DEF Release
<1>6. ASSUME NEW x \in Delivery, SidCheck(x) \/ SidWrite(x) \/ ReplayAudit(x)
      PROVE  PlaceTypes' /\ HasText'
  BY <1>6 DEF SidCheck, SidWrite, ReplayAudit
<1>7. ASSUME NEW x \in Delivery, CountRead(x) \/ CountWrite(x) \/ CountAudit(x)
      PROVE  PlaceTypes' /\ HasText'
  BY <1>7 DEF CountRead, CountWrite, CountAudit
<1>8. ASSUME NEW x \in Delivery, SealTest(x) \/ Seal(x) \/ SealAudit(x)
      PROVE  PlaceTypes' /\ HasText'
  BY <1>8 DEF SealTest, Seal, SealAudit
<1>9. ASSUME NEW x \in Delivery, ResetRead(x) \/ Reset(x)
      PROVE  PlaceTypes' /\ HasText'
  BY <1>9 DEF ResetRead, Reset
<1>10. ASSUME NEW x \in Delivery, Unseal(x) \/ UnsealZero(x) \/ UnsealAudit(x)
      PROVE  PlaceTypes' /\ HasText'
  BY <1>10 DEF Unseal, UnsealZero, UnsealAudit
<1>11. ASSUME NEW x \in Delivery, Serve(x) \/ Notice(x) \/ Send(x)
      PROVE  PlaceTypes' /\ HasText'
  BY <1>11 DEF Serve, Notice, Send
<1>12. ASSUME NEW x \in Delivery, Die(x) \/ DieInCommand(x) PROVE PlaceTypes' /\ HasText'
  BY <1>12 DEF Die, DieInCommand
<1>13. CASE Tick \/ OtherLock \/ Forget \/ UNCHANGED vars
  BY <1>13 DEF Tick, OtherLock, Forget, vars
<1>. QED
  BY <1>1, <1>2, <1>3, <1>4, <1>5, <1>6, <1>7, <1>8, <1>9, <1>10, <1>11, <1>12, <1>13
     DEF Next, Step, Guard

LEMMA GuardTypesStep ==
    ASSUME Types, [Next]_vars
    PROVE  GuardTypes'
<1> USE GateAssumption DEF Types, At, Goto, ReleaseTo, memory, guard, local
<1>1. \A k \in Events : Noted(k) \in Seq(Events) /\ Len(Noted(k)) <= MaxAudit
  BY NotedTypes
<1>2. ASSUME NEW x \in Delivery, NEW t \in Text, Arrive(x, t) PROVE GuardTypes'
  BY <1>2 DEF Arrive, GuardTypes
<1>3. ASSUME NEW x \in Delivery,
             \/ Authorize(x) \/ Acquire(x) \/ Busy(x) \/ Release(x)
             \/ SidCheck(x) \/ SidWrite(x) \/ SealTest(x) \/ ResetRead(x) \/ Notice(x) \/ Send(x)
      PROVE  GuardTypes'
  <2>1. UNCHANGED <<failures, sealed, audit, tally, streak, seals, cut, count, sealsAt>>
    BY <1>3 DEF Authorize, Acquire, Busy, Release, SidCheck, SidWrite, SealTest, ResetRead, Notice, Send
  <2>. QED
    BY <2>1 DEF GuardTypes
<1>4. ASSUME NEW x \in Delivery, CountRead(x) \/ CountWrite(x)
      PROVE  GuardTypes'
  BY <1>4 DEF CountRead, CountWrite, GuardTypes
<1>5. ASSUME NEW x \in Delivery,
             ReplayAudit(x) \/ CountAudit(x) \/ SealAudit(x) \/ UnsealAudit(x)
      PROVE  GuardTypes'
  <2>1. audit' \in Seq(Events) /\ Len(audit') <= MaxAudit
    BY <1>1, <1>5 DEF ReplayAudit, CountAudit, SealAudit, UnsealAudit, Events
  <2>2. /\ UNCHANGED <<failures, sealed, tally, streak, seals, count, sealsAt>>
        /\ cut' \in SUBSET Inside
    BY <1>5 DEF ReplayAudit, CountAudit, SealAudit, UnsealAudit, GuardTypes
  <2>. QED
    BY <2>1, <2>2 DEF GuardTypes
<1>6. ASSUME NEW x \in Delivery, Seal(x) \/ Reset(x) \/ Unseal(x) \/ UnsealZero(x) \/ Serve(x)
      PROVE  GuardTypes'
  <2>1. CASE Seal(x)
    BY <1>6, <2>1 DEF Seal, GuardTypes
  <2>2. CASE Reset(x) \/ UnsealZero(x)
    BY <1>6, <2>2 DEF Reset, UnsealZero, Cleared, GuardTypes
  <2>3. CASE Unseal(x)
    BY <1>6, <2>3 DEF Unseal, GuardTypes
  <2>4. CASE Serve(x)
    BY <1>6, <2>4 DEF Serve, GuardTypes
  <2>. QED
    BY <1>6, <2>1, <2>2, <2>3, <2>4
<1>7. ASSUME NEW x \in Delivery, Die(x) \/ DieInCommand(x) PROVE GuardTypes'
  BY <1>7 DEF Die, DieInCommand, GuardTypes
<1>8. CASE Tick \/ OtherLock \/ Forget \/ UNCHANGED vars
  BY <1>8 DEF Tick, OtherLock, Forget, vars, GuardTypes
<1>. QED
  BY <1>2, <1>3, <1>4, <1>5, <1>6, <1>7, <1>8 DEF Next, Step, Guard

(* The section's copy of the ids only changes when it is taken.             *)
LEMMA MemoryTypesStep ==
    ASSUME Types, [Next]_vars
    PROVE  MemoryTypes'
<1> USE GateAssumption DEF Types, At, Goto, ReleaseTo, memory, guard, local
<1>0. Len(granted) \in Nat
  BY DEF MemoryTypes
<1>1. ASSUME NEW x \in Delivery, SidCheck(x) PROVE MemoryTypes'
  <2>1. {i \in seen : now - granted[i].at < Ttl} \in SUBSET (1..Len(granted)) /\ now \in Nat
    <3>1. seen \in SUBSET (1..Len(granted)) /\ now \in Nat
      BY DEF MemoryTypes
    <3>. QED
      BY <3>1, Zenon
  <2>2. fresh' \in [Delivery -> SUBSET (1..Len(granted))] /\ stamp' \in [Delivery -> Nat]
    BY <1>1, <2>1 DEF SidCheck, MemoryTypes
  <2>. QED
    BY <1>1, <2>2 DEF SidCheck, MemoryTypes
<1>2. ASSUME NEW x \in Delivery, SidWrite(x) PROVE MemoryTypes'
  <2>1. [sid |-> text[x], at |-> stamp[x], by |-> x] \in Grants
    BY <1>2 DEF SidWrite, Grants, HasText, MemoryTypes
  <2>2. granted' \in Seq(Grants) /\ Len(granted') = Len(granted) + 1
    BY <1>2, <2>1, AppendProperties DEF SidWrite, MemoryTypes
  <2>3. \A S \in SUBSET (1..Len(granted)) : S \in SUBSET (1..Len(granted'))
    BY <1>0, <2>2
  <2>4. fresh[x] \cup {Len(granted) + 1} \in SUBSET (1..Len(granted'))
    BY <1>0, <2>2 DEF MemoryTypes
  <2>5. seen' \in SUBSET (1..Len(granted'))
    BY <1>2, <2>4 DEF SidWrite, NewestOf
  <2>6. fresh' \in [Delivery -> SUBSET (1..Len(granted'))]
    BY <1>2, <2>3 DEF SidWrite, MemoryTypes
  <2>. QED
    <3>1. lost' \in 0..Len(granted')
      BY <1>0, <1>2, <2>2 DEF SidWrite, MemoryTypes
    <3>2. UNCHANGED <<now, stamp, edits>>
      BY <1>2 DEF SidWrite
    <3>. QED
      BY <2>2, <2>5, <2>6, <3>1, <3>2 DEF MemoryTypes
<1>3. CASE Forget
  BY <1>0, <1>3 DEF Forget, MemoryTypes
<1>5. CASE Tick
  BY <1>5 DEF Tick, MemoryTypes
<1>6. CASE OtherLock \/ UNCHANGED vars
  BY <1>6 DEF OtherLock, vars, MemoryTypes
<1>4. ASSUME NEW x \in Delivery,
             \/ \E t \in Text : Arrive(x, t)
             \/ Authorize(x) \/ Acquire(x) \/ Busy(x) \/ Release(x) \/ ReplayAudit(x)
             \/ CountRead(x) \/ CountWrite(x) \/ CountAudit(x)
             \/ SealTest(x) \/ Seal(x) \/ SealAudit(x) \/ ResetRead(x) \/ Reset(x)
             \/ Unseal(x) \/ UnsealZero(x) \/ UnsealAudit(x)
             \/ Notice(x) \/ Serve(x) \/ Send(x) \/ Die(x) \/ DieInCommand(x)
      PROVE  MemoryTypes'
  <2>1. UNCHANGED <<now, granted, seen, fresh, stamp, lost, edits>>
    BY <1>4 DEF Arrive, Authorize, Acquire, Busy, Release, ReplayAudit, CountRead, CountWrite,
                CountAudit, SealTest, Seal, SealAudit, ResetRead, Reset, Unseal, UnsealZero,
                UnsealAudit, Notice, Serve, Send, Die, DieInCommand
  <2>. QED
    BY <2>1 DEF MemoryTypes
<1>. QED
  BY <1>1, <1>2, <1>3, <1>4, <1>5, <1>6 DEF Next, Step, Guard

(* Nothing here needs the fairness, and a program that implements the gate   *)
(* step by step has all of it too.                                          *)
Safety == Init /\ [][Next]_vars

LEMMA SpecIsSafe == Spec => Safety
BY DEF Spec, Safety

LEMMA TypesAlways == Safety => []Types
<1>1. Types /\ [Next]_vars => Types'
  BY PlaceTypesStep, GuardTypesStep, MemoryTypesStep DEF Types
<1>. QED
  BY TypesInit, <1>1, PTL DEF Safety

(* The gate's state is of the stated shape.                                 *)
THEOREM GateTypes == Spec => []TypeOK
<1>1. Types => TypeOK
  BY DEF Types, MemoryTypes, GuardTypes, PlaceTypes, TypeOK, Exits, Locations, Waiting, Inside, Over
<1>. QED
  BY TypesAlways, SpecIsSafe, <1>1, PTL

-----------------------------------------------------------------------------
(* Who holds the lock: the sections exclude each other, and `release` leads *)
(* out of them.                                                             *)
LEMMA OwnershipStep ==
    ASSUME Types, GateLockOwnership, [Next]_vars
    PROVE  GateLockOwnership'
<1> USE GateAssumption DEF Types, PlaceTypes, GateLockOwnership, At, Goto, ReleaseTo,
                           memory, guard, local, Waiting, Inside, Over, Exits
<1>1. ASSUME NEW x \in Delivery, NEW t \in Text, Arrive(x, t) PROVE GateLockOwnership'
  BY <1>1 DEF Arrive
<1>2. ASSUME NEW x \in Delivery, Authorize(x) PROVE GateLockOwnership'
  BY <1>2 DEF Authorize, Identify
<1>3. ASSUME NEW x \in Delivery, Acquire(x) PROVE GateLockOwnership'
  BY <1>3 DEF Acquire, Entered
<1>4. ASSUME NEW x \in Delivery, Busy(x) \/ Release(x) \/ Die(x) \/ DieInCommand(x)
      PROVE  GateLockOwnership'
  BY <1>4 DEF Busy, Release, Die, DieInCommand
<1>5. ASSUME NEW x \in Delivery, SidCheck(x) \/ SidWrite(x) \/ ReplayAudit(x)
      PROVE  GateLockOwnership'
  BY <1>5 DEF SidCheck, SidWrite, ReplayAudit
<1>6. ASSUME NEW x \in Delivery, CountRead(x) \/ CountWrite(x) \/ CountAudit(x)
      PROVE  GateLockOwnership'
  BY <1>6 DEF CountRead, CountWrite, CountAudit
<1>7. ASSUME NEW x \in Delivery, SealTest(x) \/ Seal(x) \/ SealAudit(x)
      PROVE  GateLockOwnership'
  BY <1>7 DEF SealTest, Seal, SealAudit
<1>8. ASSUME NEW x \in Delivery, ResetRead(x) \/ Reset(x) \/ Serve(x) \/ Notice(x) \/ Send(x)
      PROVE  GateLockOwnership'
  BY <1>8 DEF ResetRead, Reset, Serve, Notice, Send
<1>9. ASSUME NEW x \in Delivery, Unseal(x) \/ UnsealZero(x) \/ UnsealAudit(x)
      PROVE  GateLockOwnership'
  BY <1>9 DEF Unseal, UnsealZero, UnsealAudit
<1>10. CASE Tick \/ OtherLock \/ Forget \/ UNCHANGED vars
  BY <1>10 DEF Tick, OtherLock, Forget, vars
<1>. QED
  BY <1>1, <1>2, <1>3, <1>4, <1>5, <1>6, <1>7, <1>8, <1>9, <1>10 DEF Next, Step, Guard

LEMMA OwnershipAlways == Safety => [](Types /\ GateLockOwnership)
<1>1. Init => GateLockOwnership
  BY GateAssumption DEF Init, GateLockOwnership, Inside
<1>. QED
  BY TypesAlways, <1>1, OwnershipStep, PTL DEF Safety

(* One delivery at a time is in the vault, and the lock always comes back   *)
(* from one that dies (Locks.withScriptLock: finally).                      *)
THEOREM GateLockOwnershipHolds == Spec => []GateLockOwnership
BY OwnershipAlways, SpecIsSafe, PTL

-----------------------------------------------------------------------------
(* The sections that count, seal and unseal: what each knows of the stored  *)
(* values between two of its writes.                                        *)
Hot == {"count_write", "count_audit", "seal_test", "seal", "seal_audit", "unseal_zero", "unseal_audit"}

Counting == \A x \in Delivery :
    /\ pc[x] = "count_write" => count[x] = failures + 1
    /\ pc[x] \in {"count_audit", "seal_test", "seal"} => count[x] = failures
    /\ pc[x] \in {"seal", "unseal_zero"} => ~sealed
    /\ pc[x] = "seal_audit" => sealed
    /\ pc[x] = "unseal_audit" => failures = 0

SealInv == Counting /\ NoFailureLost /\ SealOnTime

(* A step outside those places.                                             *)
LEMMA Quiet ==
    ASSUME Types, SealInv,
           UNCHANGED <<failures, sealed, tally, cut, count>>,
           \A x \in Delivery : pc'[x] \in Hot => pc[x] = pc'[x],
           lock \in Delivery /\ pc[lock] \in Hot => lock' = lock /\ pc'[lock] = pc[lock]
    PROVE  SealInv'
<1>1. Counting'
  BY DEF SealInv, Counting, Hot
<1>2. NoFailureLost'
  BY DEF SealInv, NoFailureLost
<1>3. SealOnTime'
  BY DEF SealInv, SealOnTime, Hot
<1>. QED
  BY <1>1, <1>2, <1>3 DEF SealInv

LEMMA SealStep ==
    ASSUME Types, GateLockOwnership, SealInv, [Next]_vars
    PROVE  SealInv'
<1> USE GateAssumption DEF At, Goto, ReleaseTo, memory, guard, local
<1>0. /\ pc \in [Delivery -> Locations] /\ failures \in Nat /\ MaxFailures \in Nat \ {0}
      /\ count \in [Delivery -> Nat] /\ tally \in Nat /\ sealed \in BOOLEAN
  BY DEF Types, PlaceTypes, GuardTypes
<1>1. ASSUME NEW x \in Delivery,
             \/ \E t \in Text : Arrive(x, t)
             \/ Authorize(x) \/ Busy(x) \/ ResetRead(x) \/ Notice(x) \/ Serve(x) \/ Send(x)
      PROVE  SealInv'
  <2>1. /\ UNCHANGED <<failures, sealed, tally, cut, count, lock>>
        /\ \E l \in Locations \ Hot : pc' = [pc EXCEPT ![x] = l]
        /\ pc[x] \notin Hot
    BY <1>1 DEF Arrive, Authorize, Identify, Busy, ResetRead, Notice, Serve, Send,
                Locations, Waiting, Inside, Over, Hot
  <2>. QED
    BY <1>0, <2>1, Quiet
<1>2. ASSUME NEW x \in Delivery, Acquire(x) PROVE SealInv'
  <2>1. /\ UNCHANGED <<failures, sealed, tally, cut, count>>
        /\ pc' = [pc EXCEPT ![x] = Entered[pc[x]]] /\ Entered[pc[x]] \notin Hot
        /\ lock = NoOne
    BY <1>2 DEF Acquire, Entered, Waiting, Hot
  <2>. QED
    BY <1>0, <2>1, Quiet
<1>3. ASSUME NEW x \in Delivery, Release(x) \/ SidCheck(x) \/ SidWrite(x) \/ ReplayAudit(x)
      PROVE  SealInv'
  <2>1. /\ UNCHANGED <<failures, sealed, tally, cut, count>>
        /\ \E l \in Exits \cup {"sid_write", "release"} : pc' = [pc EXCEPT ![x] = l]
        /\ pc[x] \in Inside \ Hot
    BY <1>3 DEF Release, SidCheck, SidWrite, ReplayAudit, Types, PlaceTypes, Inside, Hot, Exits
  <2>2. lock = x
    BY <2>1 DEF GateLockOwnership
  <2>. QED
    BY <1>0, <2>1, <2>2, Quiet DEF Exits, Hot
<1>4. ASSUME NEW x \in Delivery, CountRead(x) PROVE SealInv'
  BY <1>0, <1>4 DEF CountRead, SealInv, Counting, NoFailureLost, SealOnTime, GateLockOwnership, Inside
<1>5. ASSUME NEW x \in Delivery, CountWrite(x) PROVE SealInv'
  BY <1>0, <1>5 DEF CountWrite, SealInv, Counting, NoFailureLost, SealOnTime, GateLockOwnership, Inside
<1>6. ASSUME NEW x \in Delivery, CountAudit(x) \/ SealTest(x) PROVE SealInv'
  BY <1>0, <1>6 DEF CountAudit, SealTest, SealInv, Counting, NoFailureLost, SealOnTime,
                    GateLockOwnership, Inside
<1>7. ASSUME NEW x \in Delivery, Seal(x) \/ SealAudit(x) PROVE SealInv'
  BY <1>0, <1>7 DEF Seal, SealAudit, SealInv, Counting, NoFailureLost, SealOnTime,
                    GateLockOwnership, Inside
<1>8. ASSUME NEW x \in Delivery, Reset(x) PROVE SealInv'
  BY <1>0, <1>8 DEF Reset, Cleared, SealInv, Counting, NoFailureLost, SealOnTime,
                    GateLockOwnership, Inside
<1>9. ASSUME NEW x \in Delivery, Unseal(x) PROVE SealInv'
  BY <1>0, <1>9 DEF Unseal, SealInv, Counting, NoFailureLost, SealOnTime,
                    GateLockOwnership, Inside
<1>10. ASSUME NEW x \in Delivery, UnsealZero(x) \/ UnsealAudit(x) PROVE SealInv'
  BY <1>0, <1>10 DEF UnsealZero, UnsealAudit, Cleared, SealInv, Counting, NoFailureLost,
                     SealOnTime, GateLockOwnership, Inside
<1>11. ASSUME NEW x \in Delivery, Die(x) PROVE SealInv'
  BY <1>0, <1>11 DEF Die, SealInv, Counting, NoFailureLost, SealOnTime, GateLockOwnership, Inside
<1>12. ASSUME NEW x \in Delivery, DieInCommand(x) PROVE SealInv'
  <2>1. /\ UNCHANGED <<failures, sealed, tally, cut, count>> /\ lock = Other
        /\ pc' = [pc EXCEPT ![x] = "dead"]
    BY <1>12 DEF DieInCommand
  <2>. QED
    BY <1>0, <2>1, Quiet DEF Hot
<1>13. CASE Tick \/ OtherLock \/ Forget \/ UNCHANGED vars
  BY <1>0, <1>13, Quiet DEF Tick, OtherLock, Forget, vars
<1>. QED
  BY <1>1, <1>2, <1>3, <1>4, <1>5, <1>6, <1>7, <1>8, <1>9, <1>10, <1>11, <1>12, <1>13 DEF Next, Step, Guard

LEMMA SealInvAlways == Safety => [](Types /\ GateLockOwnership /\ SealInv)
<1>1. Init => SealInv
  BY GateAssumption DEF Init, SealInv, Counting, NoFailureLost, SealOnTime
<1>. QED
  BY OwnershipAlways, <1>1, SealStep, PTL DEF Safety

(* Failures that arrive together are all counted.                           *)
THEOREM NoFailureLostHolds == Spec => []NoFailureLost
<1>1. SealInv => NoFailureLost
  BY DEF SealInv
<1>. QED
  BY SealInvAlways, SpecIsSafe, <1>1, PTL

(* MAX_FAILURES failures seal the bot, but for a death between two writes.  *)
THEOREM SealOnTimeHolds == Spec => []SealOnTime
<1>1. SealInv => SealOnTime
  BY DEF SealInv
<1>. QED
  BY SealInvAlways, SpecIsSafe, <1>1, PTL

-----------------------------------------------------------------------------
(* The notice: everyone who is on the way to it, or has sent it, sealed the *)
(* bot when it was open, so there are at most as many as sealings.          *)
Announcing(x) == \/ pc[x] \in {"seal_audit", "notice"}
                 \/ pc[x] = "release" /\ then[x] = "notice"
                 \/ answer[x] = "notice"
Announcers == {x \in Delivery : Announcing(x)}
AnnounceInv == IsFiniteSet(Announcers) /\ Cardinality(Announcers) <= seals

LEMMA AnnounceStep ==
    ASSUME Types, SealInv, AnnounceInv, [Next]_vars
    PROVE  AnnounceInv'
<1> USE DEF At, Goto, ReleaseTo, memory, guard, local
<1>0. /\ pc \in [Delivery -> Locations] /\ then \in [Delivery -> Exits]
      /\ answer \in [Delivery -> Answers] /\ seals \in Nat
  BY DEF Types, PlaceTypes, GuardTypes
<1>1. ASSUME NEW x \in Delivery, Seal(x) PROVE AnnounceInv'
  <2>1. seals' = seals + 1
    BY <1>1 DEF Seal, SealInv, Counting
  <2>2. Announcers' \subseteq Announcers \cup {x}
    BY <1>0, <1>1 DEF Seal, Announcers, Announcing
  <2>3. /\ IsFiniteSet(Announcers \cup {x})
        /\ Cardinality(Announcers \cup {x}) <= Cardinality(Announcers) + 1
        /\ Cardinality(Announcers) \in Nat /\ Cardinality(Announcers \cup {x}) \in Nat
    <3> DEFINE A == Announcers
    <3>1. IsFiniteSet(A)
      BY DEF AnnounceInv
    <3> HIDE DEF A
    <3>2. /\ IsFiniteSet(A \cup {x})
          /\ Cardinality(A \cup {x}) = IF x \in A THEN Cardinality(A) ELSE Cardinality(A) + 1
      BY <3>1, FS_AddElement
    <3>3. Cardinality(A) \in Nat /\ Cardinality(A \cup {x}) \in Nat
      BY <3>1, <3>2, FS_CardinalityType
    <3>. QED
      BY <3>2, <3>3 DEF A
  <2>4. IsFiniteSet(Announcers') /\ Cardinality(Announcers') <= Cardinality(Announcers \cup {x})
        /\ Cardinality(Announcers') \in Nat
    BY <2>2, <2>3, FS_Subset, FS_CardinalityType
  <2>. QED
    BY <1>0, <2>1, <2>3, <2>4 DEF AnnounceInv
<1>2. ASSUME Announcers' \subseteq Announcers, seals' = seals PROVE AnnounceInv'
  <2>1. IsFiniteSet(Announcers') /\ Cardinality(Announcers') <= Cardinality(Announcers)
    BY <1>2, FS_Subset DEF AnnounceInv
  <2>2. Cardinality(Announcers') \in Nat /\ Cardinality(Announcers) \in Nat
    BY <2>1, FS_CardinalityType DEF AnnounceInv
  <2>. QED
    BY <1>0, <1>2, <2>1, <2>2 DEF AnnounceInv
<1>3. ASSUME NEW x \in Delivery,
             \/ \E t \in Text : Arrive(x, t)
             \/ Authorize(x) \/ Acquire(x) \/ Busy(x) \/ Release(x)
      PROVE  Announcers' \subseteq Announcers /\ seals' = seals
  <2>1. CASE Acquire(x)
    <3>1. /\ pc' = [pc EXCEPT ![x] = Entered[pc[x]]] /\ pc[x] \in Waiting
          /\ UNCHANGED <<then, answer, seals>>
      BY <2>1 DEF Acquire
    <3>2. Entered[pc[x]] \in {"sid_check", "count_read", "replay_audit", "reset", "unseal"}
      BY <3>1 DEF Entered, Waiting
    <3>. QED
      BY <1>0, <3>1, <3>2 DEF Announcers, Announcing
  <2>2. CASE (\E t \in Text : Arrive(x, t)) \/ Authorize(x) \/ Busy(x)
    <3>1. /\ UNCHANGED <<then, answer, seals>>
          /\ \E l \in {"gate", "sid_lock", "replay_lock", "over", "count_lock", "serve"} :
                pc' = [pc EXCEPT ![x] = l]
      BY <2>2 DEF Arrive, Authorize, Identify, Busy
    <3>. QED
      BY <1>0, <3>1 DEF Announcers, Announcing
  <2>3. CASE Release(x)
    <3>1. /\ UNCHANGED <<then, answer, seals>> /\ pc[x] = "release"
          /\ pc' = [pc EXCEPT ![x] = then[x]] /\ then[x] \in Exits
      BY <1>0, <2>3 DEF Release
    <3>. QED
      BY <1>0, <3>1 DEF Announcers, Announcing, Exits
  <2>. QED
    BY <1>3, <2>1, <2>2, <2>3
<1>4. ASSUME NEW x \in Delivery,
             \/ SidCheck(x) \/ SidWrite(x) \/ ReplayAudit(x)
             \/ CountRead(x) \/ CountWrite(x) \/ CountAudit(x) \/ SealTest(x) \/ SealAudit(x)
      PROVE  Announcers' \subseteq Announcers /\ seals' = seals
  <2>1. CASE SidCheck(x) \/ SidWrite(x) \/ ReplayAudit(x)
    <3>1. /\ UNCHANGED <<answer, seals>>
          /\ \A y \in Delivery \ {x} : pc'[y] = pc[y] /\ then'[y] = then[y]
          /\ pc'[x] = "sid_write" \/ (then'[x] # "notice" /\ pc'[x] = "release")
      <4>1. CASE SidCheck(x)
        <5>1. UNCHANGED <<answer, seals>>
          BY <4>1 DEF SidCheck
        <5>2. \/ pc' = [pc EXCEPT ![x] = "sid_write"] /\ then' = then
              \/ /\ pc' = [pc EXCEPT ![x] = "release"]
                 /\ then' = [then EXCEPT ![x] = IF route[x] = "open" THEN "replay_lock" ELSE "over"]
          BY <4>1 DEF SidCheck
        <5>. QED
          BY <1>0, <5>1, <5>2
      <4>2. CASE SidWrite(x)
        BY <1>0, <4>2 DEF SidWrite
      <4>3. CASE ReplayAudit(x)
        BY <1>0, <4>3 DEF ReplayAudit
      <4>. QED
        BY <2>1, <4>1, <4>2, <4>3
    <3>. QED
      BY <3>1 DEF Announcers, Announcing
  <2>2. CASE CountRead(x) \/ CountWrite(x) \/ CountAudit(x)
    BY <1>0, <2>2 DEF CountRead, CountWrite, CountAudit, Announcers, Announcing
  <2>3. CASE SealTest(x) \/ SealAudit(x)
    BY <1>0, <2>3 DEF SealTest, SealAudit, Announcers, Announcing
  <2>. QED
    BY <1>4, <2>1, <2>2, <2>3
<1>5. ASSUME NEW x \in Delivery,
             \/ ResetRead(x) \/ Reset(x) \/ Unseal(x) \/ UnsealZero(x) \/ UnsealAudit(x)
             \/ Notice(x) \/ Serve(x) \/ Send(x) \/ Die(x) \/ DieInCommand(x)
      PROVE  Announcers' \subseteq Announcers /\ seals' = seals
  BY <1>0, <1>5 DEF ResetRead, Reset, Unseal, UnsealZero, UnsealAudit, Notice, Serve, Send, Die,
                    DieInCommand, Announcers, Announcing
<1>6. CASE Tick \/ OtherLock \/ Forget \/ UNCHANGED vars
  <2>1. Announcers' \subseteq Announcers /\ seals' = seals
    BY <1>6 DEF Tick, OtherLock, Forget, vars, Announcers, Announcing
  <2>. QED
    BY <2>1, <1>2
<1>. QED
  BY <1>1, <1>2, <1>3, <1>4, <1>5, <1>6 DEF Next, Step, Guard

LEMMA NoticeAlways == Safety => []NoticePerSeal
<1>1. Init => AnnounceInv
  <2> SUFFICES ASSUME Init PROVE AnnounceInv
    OBVIOUS
  <2>1. Announcers = {} /\ seals = 0
    BY DEF Init, Announcers, Announcing
  <2>. QED
    BY <2>1, FS_EmptySet DEF AnnounceInv
<1>2. Types /\ AnnounceInv => NoticePerSeal
  <2> SUFFICES ASSUME Types, AnnounceInv PROVE NoticePerSeal
    OBVIOUS
  <2> DEFINE N == {x \in Delivery : pc[x] = "notice" \/ answer[x] = "notice"}
  <2>1. N \subseteq Announcers
    BY DEF Announcers, Announcing
  <2>2. /\ Cardinality(N) <= Cardinality(Announcers) /\ IsFiniteSet(N)
    BY <2>1, FS_Subset DEF AnnounceInv
  <2>3. Cardinality(N) \in Nat /\ Cardinality(Announcers) \in Nat /\ seals \in Nat
    BY <2>2, FS_CardinalityType DEF AnnounceInv, Types, GuardTypes
  <2>. QED
    BY <2>2, <2>3 DEF AnnounceInv, NoticePerSeal
<1>. QED
  BY SealInvAlways, <1>1, <1>2, AnnounceStep, PTL DEF Safety

(* Several failures on their way when the bot seals itself, and one notice. *)
THEOREM NoticePerSealHolds == Spec => []NoticePerSeal
BY NoticeAlways, SpecIsSafe, PTL

-----------------------------------------------------------------------------
(* The confirmation: a delivery gets as far as "Unlocked and running" only  *)
(* past a moment at which the bot was open, when it read the seal or when   *)
(* it took the seal away itself.                                            *)
SeenOpen(x) == ~sealed \/ seals > sealsAt[x]
Reached(x) == \/ route[x] = "open"
              \/ pc[x] \in {"reset_read", "reset_lock", "reset", "serve", "unseal_zero", "unseal_audit"}
              \/ pc[x] = "release" /\ then[x] \in {"reset_read", "serve"}
              \/ answer[x] = "unlocked"

OpenInv == \A x \in Delivery :
    /\ sealsAt[x] <= seals
    /\ pc[x] = "idle" => route[x] = "none" /\ answer[x] = "none"
    /\ Reached(x) => SeenOpen(x)

LEMMA OpenStep ==
    ASSUME Types, OpenInv, [Next]_vars
    PROVE  OpenInv'
<1> USE DEF At, Goto, ReleaseTo, memory, guard, local
<1>0. /\ pc \in [Delivery -> Locations] /\ then \in [Delivery -> Exits]
      /\ answer \in [Delivery -> Answers] /\ route \in [Delivery -> {"none", "open", "closed"}]
      /\ seals \in Nat /\ sealsAt \in [Delivery -> Nat] /\ sealed \in BOOLEAN
  BY DEF Types, PlaceTypes, GuardTypes
<1>1. ASSUME NEW x \in Delivery, NEW t \in Text, Arrive(x, t) PROVE OpenInv'
  BY <1>0, <1>1 DEF Arrive, OpenInv, Reached, SeenOpen
<1>2. ASSUME NEW x \in Delivery, Authorize(x) PROVE OpenInv'
  <2>1. /\ route' = [route EXCEPT ![x] = IF sealed THEN "closed" ELSE "open"]
        /\ \E l \in {"sid_lock", "replay_lock", "over", "count_lock"} : pc' = [pc EXCEPT ![x] = l]
        /\ UNCHANGED <<then, answer, seals, sealsAt, sealed>>
    BY <1>2 DEF Authorize, Identify
  <2>. QED
    BY <1>0, <2>1 DEF OpenInv, Reached, SeenOpen
<1>3. ASSUME NEW x \in Delivery, Acquire(x) \/ Busy(x) \/ Release(x) PROVE OpenInv'
  <2>1. /\ UNCHANGED <<then, answer, route, seals, sealsAt, sealed>>
        /\ pc[x] # "idle"
        /\ \A y \in Delivery \ {x} : pc'[y] = pc[y]
        /\ pc'[x] \in Locations \ {"idle", "release", "unseal_zero", "unseal_audit", "reset_lock"}
        /\ pc'[x] = "reset" => pc[x] = "reset_lock"
        /\ pc'[x] = "serve" => pc[x] = "reset_lock" \/ (pc[x] = "release" /\ then[x] = "serve")
        /\ pc'[x] = "reset_read" => pc[x] = "release" /\ then[x] = "reset_read"
    <3>1. CASE Acquire(x)
      <4>1. /\ pc' = [pc EXCEPT ![x] = Entered[pc[x]]] /\ pc[x] \in Waiting
            /\ UNCHANGED <<then, answer, route, seals, sealsAt, sealed>>
        BY <3>1 DEF Acquire
      <4>2. /\ Entered[pc[x]] \in {"sid_check", "count_read", "replay_audit", "reset", "unseal"}
            /\ Entered[pc[x]] = "reset" => pc[x] = "reset_lock"
        BY <4>1 DEF Entered, Waiting
      <4>. QED
        BY <1>0, <4>1, <4>2 DEF Waiting, Locations, Inside, Over
    <3>2. CASE Busy(x)
      BY <1>0, <3>2 DEF Busy, Waiting, Locations, Inside, Over
    <3>3. CASE Release(x)
      <4>1. /\ UNCHANGED <<then, answer, route, seals, sealsAt, sealed>>
            /\ pc[x] = "release" /\ pc' = [pc EXCEPT ![x] = then[x]] /\ then[x] \in Exits
        BY <1>0, <3>3 DEF Release
      <4>. QED
        BY <1>0, <4>1 DEF Waiting, Locations, Inside, Over, Exits
    <3>. QED
      BY <1>3, <3>1, <3>2, <3>3
  <2>. QED
    BY <1>0, <2>1 DEF OpenInv, Reached, SeenOpen
<1>4. ASSUME NEW x \in Delivery,
             \/ SidCheck(x) \/ SidWrite(x) \/ ReplayAudit(x)
             \/ CountRead(x) \/ CountWrite(x) \/ CountAudit(x) \/ SealTest(x) \/ SealAudit(x)
      PROVE  OpenInv'
  BY <1>0, <1>4 DEF SidCheck, SidWrite, ReplayAudit, CountRead, CountWrite, CountAudit, SealTest,
                    SealAudit, OpenInv, Reached, SeenOpen
<1>5. ASSUME NEW x \in Delivery, Seal(x) PROVE OpenInv'
  BY <1>0, <1>5 DEF Seal, OpenInv, Reached, SeenOpen
<1>6. ASSUME NEW x \in Delivery,
             ResetRead(x) \/ Reset(x) \/ Unseal(x) \/ UnsealZero(x) \/ UnsealAudit(x)
      PROVE  OpenInv'
  BY <1>0, <1>6 DEF ResetRead, Reset, Cleared, Unseal, UnsealZero, UnsealAudit,
                    OpenInv, Reached, SeenOpen
<1>7. ASSUME NEW x \in Delivery,
             Notice(x) \/ Serve(x) \/ Send(x) \/ Die(x) \/ DieInCommand(x)
      PROVE  OpenInv'
  BY <1>0, <1>7 DEF Notice, Serve, Send, Die, DieInCommand, Overlapping, Over,
                    OpenInv, Reached, SeenOpen
<1>8. CASE Tick \/ OtherLock \/ Forget \/ UNCHANGED vars
  BY <1>8 DEF Tick, OtherLock, Forget, vars, OpenInv, Reached, SeenOpen
<1>. QED
  BY <1>1, <1>2, <1>3, <1>4, <1>5, <1>6, <1>7, <1>8 DEF Next, Step, Guard

LEMMA ConfirmationsAlways == Safety => []ConfirmationsAreTrue
<1>1. Init => OpenInv
  BY DEF Init, OpenInv, Reached, SeenOpen
<1>2. OpenInv => ConfirmationsAreTrue
  BY DEF OpenInv, Reached, SeenOpen, ConfirmationsAreTrue
<1>. QED
  BY TypesAlways, <1>1, <1>2, OpenStep, PTL DEF Safety

(* "Unlocked and running" is never said of a bot that stayed sealed.        *)
THEOREM ConfirmationsAreTrueHolds == Spec => []ConfirmationsAreTrue
BY ConfirmationsAlways, SpecIsSafe, PTL

-----------------------------------------------------------------------------
(* The replay memory.  A recorded id is remembered until it is too old, too *)
(* far back, or wiped.  A delivery that has been past the check has its id  *)
(* on record, and two records of one id are therefore far apart.            *)
Faded(i) == i <= lost \/ now - granted[i].at >= Ttl \/ Len(granted) - i >= MaxSids
Remembered == \A i \in 1..Len(granted) : i \in seen \/ Faded(i)

(* Between the check and the write the section relies on its own copy.      *)
CopyIsGood == \A x \in Delivery :
    /\ stamp[x] <= now
    /\ pc[x] = "sid_write" =>
          /\ \A i \in fresh[x] : granted[i].sid # text[x]
          /\ \A i \in 1..Len(granted) :
                \/ i \in fresh[x] \/ i <= lost
                \/ stamp[x] - granted[i].at >= Ttl
                \/ Len(granted) - i >= MaxSids

Apart == \A i, j \in 1..Len(granted) :
    i < j /\ granted[i].sid = granted[j].sid =>
       i <= lost \/ granted[j].at - granted[i].at >= Ttl \/ j - i > MaxSids

Granted(x) == \E i \in 1..Len(granted) : granted[i].by = x /\ granted[i].sid = text[x]

(* Past the check. *)
Passed(x) == \/ pc[x] \in {"reset_read", "reset_lock", "reset", "serve",
                            "unseal_lock", "unseal", "unseal_zero", "unseal_audit"}
             \/ pc[x] = "release" /\ then[x] \in {"reset_read", "serve", "unseal_lock"}
             \/ answer[x] \in {"served", "log", "unlocked"}

(* On the way to opening a sealed bot. *)
Unsealing(x) == \/ pc[x] \in {"unseal_lock", "unseal"}
                \/ pc[x] = "release" /\ then[x] = "unseal_lock"

PassInv == \A x \in Delivery :
    /\ pc[x] = "idle" => route[x] = "none" /\ answer[x] = "none"
    /\ pc[x] \notin {"idle", "gate"} \cup Over => route[x] # "none"
    /\ route[x] = "closed" /\ pc[x] \notin Over => KindOf[text[x]] = "unlock"
    /\ Unsealing(x) => route[x] = "closed"
    /\ Passed(x) => Granted(x)

MemoryInv == Remembered /\ CopyIsGood /\ Apart /\ PassInv

LEMMA GrantedFacts ==
    ASSUME Types
    PROVE  /\ Len(granted) \in Nat /\ now \in Nat /\ Ttl \in Nat /\ MaxSids \in Nat /\ lost \in Nat
           /\ \A i \in 1..Len(granted) : granted[i] \in Grants /\ granted[i].at \in Nat
<1>1. \A i \in 1..Len(granted) : granted[i] \in Grants
  BY ElementOfSeq DEF Types, MemoryTypes
<1>2. \A g \in Grants : g.at \in Nat
  BY DEF Grants
<1>3. lost \in Nat /\ now \in Nat /\ Len(granted) \in Nat
  BY DEF Types, MemoryTypes
<1>. QED
  BY <1>1, <1>2, <1>3, GateAssumption

(* `slice(-MAX_SIDS)` drops an id only when MAX_SIDS newer ones are kept.   *)
LEMMA NewestKept ==
    ASSUME NEW L \in Nat, NEW S \in SUBSET (1..L), NEW i \in S, MaxSids \in Nat
    PROVE  i \in NewestOf(S) \/ L - i >= MaxSids
<1> DEFINE later == {j \in S : j > i}
<1>1. later \subseteq (i + 1)..L /\ i \in Nat /\ i <= L
  <2>1. i \in 1..L /\ \A j \in later : j \in 1..L /\ j > i
    OBVIOUS
  <2> HIDE DEF later
  <2>. QED
    BY <2>1
<1>2. IsFiniteSet((i + 1)..L) /\ Cardinality((i + 1)..L) = L - i
  BY <1>1, FS_Interval
<1>3. Cardinality(later) <= L - i /\ Cardinality(later) \in Nat
  BY <1>1, <1>2, FS_Subset, FS_CardinalityType
<1>4. i \in NewestOf(S) <=> Cardinality(later) < MaxSids
  BY DEF NewestOf
<1> HIDE DEF later
<1>. QED
  BY <1>1, <1>3, <1>4

(* A step that records, forgets and ages nothing.                           *)
LEMMA MemoryIdle ==
    ASSUME Remembered, CopyIsGood, Apart,
           UNCHANGED <<now, granted, seen, lost, fresh, stamp>>,
           \A x \in Delivery : pc'[x] = "sid_write" => pc[x] = "sid_write" /\ text'[x] = text[x]
    PROVE  Remembered' /\ CopyIsGood' /\ Apart'
<1>1. Remembered' /\ Apart'
  BY DEF Remembered, Faded, Apart
<1>2. CopyIsGood'
  BY DEF CopyIsGood
<1>. QED
  BY <1>1, <1>2

LEMMA MemoryStep ==
    ASSUME Types, GateLockOwnership, Remembered, CopyIsGood, Apart, [Next]_vars
    PROVE  Remembered' /\ CopyIsGood' /\ Apart'
<1> USE DEF At, Goto, ReleaseTo, memory, guard, local
<1>0. /\ pc \in [Delivery -> Locations] /\ text \in [Delivery -> Text \cup {NoText}]
      /\ stamp \in [Delivery -> Nat]
      /\ fresh \in [Delivery -> SUBSET (1..Len(granted))]
      /\ seen \in SUBSET (1..Len(granted))
      /\ granted \in Seq(Grants)
  BY DEF Types, PlaceTypes, MemoryTypes
<1>a. /\ Len(granted) \in Nat /\ now \in Nat /\ Ttl \in Nat /\ MaxSids \in Nat /\ lost \in Nat
      /\ \A i \in 1..Len(granted) : granted[i].at \in Nat
  BY GrantedFacts
<1>b. \A x \in Delivery : stamp[x] \in Nat
  BY <1>0
<1>1. ASSUME NEW x \in Delivery,
             \/ \E t \in Text : Arrive(x, t)
             \/ Authorize(x) \/ Busy(x) \/ SealTest(x) \/ ResetRead(x)
             \/ Notice(x) \/ Serve(x) \/ Send(x) \/ Die(x) \/ DieInCommand(x)
      PROVE  Remembered' /\ CopyIsGood' /\ Apart'
  <2>1. /\ UNCHANGED <<now, granted, seen, lost, fresh, stamp>>
        /\ \E l \in Locations \ {"sid_write"} : pc' = [pc EXCEPT ![x] = l]
        /\ \A y \in Delivery \ {x} : text'[y] = text[y]
    BY <1>0, <1>1 DEF Arrive, Authorize, Identify, Busy, SealTest, ResetRead, Notice, Serve, Send, Die,
                      DieInCommand, Locations, Waiting, Inside, Over
  <2>. QED
    BY <1>0, <2>1, MemoryIdle
<1>2. ASSUME NEW x \in Delivery,
             \/ ReplayAudit(x) \/ CountRead(x) \/ CountWrite(x) \/ CountAudit(x)
             \/ Seal(x) \/ SealAudit(x) \/ Reset(x)
             \/ Unseal(x) \/ UnsealZero(x) \/ UnsealAudit(x)
      PROVE  Remembered' /\ CopyIsGood' /\ Apart'
  <2>1. /\ UNCHANGED <<now, granted, seen, lost, fresh, stamp, text>>
        /\ \E l \in Inside \ {"sid_write"} : pc' = [pc EXCEPT ![x] = l]
    BY <1>0, <1>2 DEF ReplayAudit, CountRead, CountWrite, CountAudit, Seal, SealAudit, Reset,
                      Unseal, UnsealZero, UnsealAudit, Inside
  <2>. QED
    BY <1>0, <2>1, MemoryIdle DEF Locations
<1>3. ASSUME NEW x \in Delivery, Acquire(x) PROVE Remembered' /\ CopyIsGood' /\ Apart'
  <2>1. /\ UNCHANGED <<now, granted, seen, lost, fresh, stamp, text>>
        /\ pc' = [pc EXCEPT ![x] = Entered[pc[x]]] /\ Entered[pc[x]] # "sid_write"
    BY <1>3 DEF Acquire, Entered, Waiting
  <2>. QED
    BY <1>0, <2>1, MemoryIdle
<1>4. ASSUME NEW x \in Delivery, Release(x) PROVE Remembered' /\ CopyIsGood' /\ Apart'
  <2>1. /\ UNCHANGED <<now, granted, seen, lost, fresh, stamp, text>>
        /\ pc' = [pc EXCEPT ![x] = then[x]] /\ then[x] # "sid_write"
    BY <1>4 DEF Release, Types, PlaceTypes, Exits
  <2>. QED
    BY <1>0, <2>1, MemoryIdle
<1>5. ASSUME NEW x \in Delivery, SidCheck(x) PROVE Remembered' /\ CopyIsGood' /\ Apart'
  <2> DEFINE F == {i \in seen : now - granted[i].at < Ttl}
  <2>1. /\ UNCHANGED <<now, granted, seen, lost, text>>
        /\ stamp' = [stamp EXCEPT ![x] = now] /\ fresh' = [fresh EXCEPT ![x] = F]
    BY <1>5 DEF SidCheck
  <2>2. Remembered' /\ Apart'
    BY <2>1 DEF Remembered, Faded, Apart
  <2>3. F \in SUBSET (1..Len(granted)) /\ fresh'[x] = F /\ stamp'[x] = now
    BY <1>0, <2>1
  <2>4. /\ pc'[x] = "sid_write" => \A i \in F : granted[i].sid # text[x]
        /\ \A y \in Delivery \ {x} : pc'[y] = pc[y]
    <3>1. \/ /\ \E i \in fresh'[x] : granted[i].sid = text[x]
             /\ pc' = [pc EXCEPT ![x] = "release"]
          \/ /\ ~\E i \in fresh'[x] : granted[i].sid = text[x]
             /\ pc' = [pc EXCEPT ![x] = "sid_write"]
      BY <1>5 DEF SidCheck
    <3>. QED
      BY <1>0, <2>3, <3>1
  <2>5. \A i \in 1..Len(granted) : i \in F \/ Faded(i)
    BY <1>a DEF Remembered, Faded
  <2>6. \A y \in Delivery \ {x} : fresh'[y] = fresh[y] /\ stamp'[y] = stamp[y]
    BY <1>0, <2>1
  <2> HIDE DEF F
  <2>7. CopyIsGood'
    <3> DEFINE Good(y) ==
           /\ stamp[y] <= now
           /\ pc[y] = "sid_write" =>
                 /\ \A i \in fresh[y] : granted[i].sid # text[y]
                 /\ \A i \in 1..Len(granted) :
                       \/ i \in fresh[y] \/ i <= lost
                       \/ stamp[y] - granted[i].at >= Ttl
                       \/ Len(granted) - i >= MaxSids
    <3>1. ASSUME NEW y \in Delivery \ {x} PROVE Good(y)'
      BY <2>1, <2>4, <2>6 DEF CopyIsGood
    <3>2. Good(x)'
      <4>1. stamp'[x] <= now'
        BY <1>a, <2>1, <2>3
      <4>2. pc'[x] = "sid_write" => \A i \in fresh'[x] : granted'[i].sid # text'[x]
        BY <2>1, <2>3, <2>4
      <4>3. \A i \in 1..Len(granted') :
               \/ i \in fresh'[x] \/ i <= lost'
               \/ stamp'[x] - granted'[i].at >= Ttl
               \/ Len(granted') - i >= MaxSids
        BY <2>1, <2>3, <2>5 DEF Faded
      <4>. QED
        BY <4>1, <4>2, <4>3
    <3>. QED
      BY <3>1, <3>2 DEF CopyIsGood
  <2>. QED
    BY <2>2, <2>7
<1>6. ASSUME NEW x \in Delivery, SidWrite(x) PROVE Remembered' /\ CopyIsGood' /\ Apart'
  <2> DEFINE L == Len(granted)
             g == [sid |-> text[x], at |-> stamp[x], by |-> x]
             S == fresh[x] \cup {L + 1}
  <2>1. /\ pc[x] = "sid_write" /\ granted' = Append(granted, g) /\ seen' = NewestOf(S)
        /\ pc' = [pc EXCEPT ![x] = "release"]
        /\ UNCHANGED <<now, lost, fresh, stamp, text>>
    BY <1>6 DEF SidWrite
  <2>2. g \in Grants /\ g.sid = text[x] /\ g.at = stamp[x]
    BY <2>1, <1>0 DEF Types, HasText, Grants
  <2> HIDE DEF g
  <2>3. /\ Len(granted') = L + 1 /\ granted'[L + 1] = g
        /\ \A i \in 1..L : granted'[i] = granted[i]
    BY <1>0, <2>1, <2>2, AppendProperties
  <2>4. S \in SUBSET (1..(L + 1)) /\ L \in Nat
    BY <1>0, <1>a
  <2>5. \A i \in S : i \in seen' \/ (L + 1) - i >= MaxSids
    <3>1. L + 1 \in Nat
      BY <2>4
    <3> HIDE DEF S
    <3>2. ASSUME NEW i \in S PROVE i \in NewestOf(S) \/ (L + 1) - i >= MaxSids
      BY <1>a, <2>4, <3>1, NewestKept
    <3>. QED
      BY <2>1, <3>2
  <2>6. /\ stamp[x] <= now
        /\ \A i \in fresh[x] : granted[i].sid # text[x]
        /\ \A i \in 1..L : \/ i \in fresh[x] \/ i <= lost
                           \/ stamp[x] - granted[i].at >= Ttl
                           \/ L - i >= MaxSids
    BY <2>1 DEF CopyIsGood
  <2> HIDE DEF S
  <2>7. fresh[x] \subseteq S /\ L + 1 \in S
    BY DEF S
  <2>8. Remembered'
    <3>1. ASSUME NEW i \in 1..L PROVE i \in seen' \/ Faded(i)'
      <4>1. CASE i \in fresh[x]
        BY <1>a, <2>1, <2>3, <2>5, <2>7, <4>1 DEF Faded
      <4>2. CASE i \notin fresh[x]
        BY <1>a, <1>b, <2>1, <2>3, <2>6, <4>2 DEF Faded
      <4>. QED
        BY <4>1, <4>2
    <3>2. ASSUME NEW k, k = L + 1 PROVE k \in seen' \/ Faded(k)'
      BY <1>a, <2>1, <2>3, <2>5, <2>7, <3>2 DEF Faded
    <3>3. \A i \in 1..Len(granted') : i \in 1..L \/ i = L + 1
      BY <1>a, <2>3
    <3>. QED
      BY <3>1, <3>2, <3>3 DEF Remembered
  <2>9. Apart'
    <3>1. ASSUME NEW i \in 1..L, granted[i].sid = text[x]
          PROVE  i <= lost \/ stamp[x] - granted[i].at >= Ttl \/ (L + 1) - i > MaxSids
      BY <1>a, <2>6, <3>1
    <3>2. ASSUME NEW i \in 1..(L + 1), NEW j \in 1..(L + 1), i < j,
                 granted'[i].sid = granted'[j].sid
          PROVE  i <= lost \/ granted'[j].at - granted'[i].at >= Ttl \/ j - i > MaxSids
      <4>1. CASE j = L + 1
        <5>1. i \in 1..L /\ granted'[i] = granted[i] /\ granted'[j] = g
          BY <1>a, <2>3, <3>2, <4>1
        <5>2. granted[i].sid = text[x]
          BY <2>2, <3>2, <5>1
        <5>. QED
          <6>1. i <= lost \/ stamp[x] - granted[i].at >= Ttl \/ (L + 1) - i > MaxSids
            BY <3>1, <5>1, <5>2
          <6>. QED
            BY <2>2, <4>1, <5>1, <6>1
      <4>2. CASE j \in 1..L
        <5>1. i \in 1..L /\ granted'[i] = granted[i] /\ granted'[j] = granted[j]
          BY <1>a, <2>3, <3>2, <4>2
        <5>2. i <= lost \/ granted[j].at - granted[i].at >= Ttl \/ j - i > MaxSids
          BY <3>2, <4>2, <5>1 DEF Apart
        <5>. QED
          BY <5>1, <5>2
      <4>. QED
        BY <1>a, <4>1, <4>2
    <3>. QED
      BY <2>1, <2>3, <3>2 DEF Apart
  <2>10. CopyIsGood'
    <3>1. \A y \in Delivery : pc'[y] # "sid_write"
      BY <1>0, <2>1 DEF GateLockOwnership, Inside
    <3>. QED
      BY <2>1, <3>1 DEF CopyIsGood
  <2>. QED
    BY <2>8, <2>9, <2>10
<1>7. CASE Tick
  <2>1. now' = now + 1 /\ UNCHANGED <<granted, seen, lost, fresh, stamp, pc, text>>
    BY <1>7 DEF Tick
  <2>. QED
    BY <1>a, <1>b, <2>1 DEF Remembered, Faded, CopyIsGood, Apart
<1>8. CASE Forget
  <2>1. /\ lost' = Len(granted) /\ UNCHANGED <<now, granted, fresh, stamp, pc, text>>
        /\ lost <= lost'
    BY <1>8 DEF Forget, Types, MemoryTypes
  <2>. QED
    BY <1>a, <1>b, <2>1 DEF Remembered, Faded, CopyIsGood, Apart
<1>9. CASE OtherLock \/ UNCHANGED vars
  BY <1>9, MemoryIdle DEF OtherLock, vars
<1>. QED
  BY <1>1, <1>2, <1>3, <1>4, <1>5, <1>6, <1>7, <1>8, <1>9 DEF Next, Step, Guard

LEMMA PassStep ==
    ASSUME Types, PassInv, [Next]_vars
    PROVE  PassInv'
<1> USE DEF At, Goto, ReleaseTo, memory, guard, local
<1> DEFINE Good(y) ==
       /\ pc[y] = "idle" => route[y] = "none" /\ answer[y] = "none"
       /\ pc[y] \notin {"idle", "gate"} \cup Over => route[y] # "none"
       /\ route[y] = "closed" /\ pc[y] \notin Over => KindOf[text[y]] = "unlock"
       /\ Unsealing(y) => route[y] = "closed"
       /\ Passed(y) => Granted(y)
<1>a. \A y \in Delivery : Good(y)
  BY DEF PassInv
<1>0. /\ pc \in [Delivery -> Locations] /\ then \in [Delivery -> Exits]
      /\ route \in [Delivery -> {"none", "open", "closed"}]
      /\ answer \in [Delivery -> Answers] /\ text \in [Delivery -> Text \cup {NoText}]
  BY DEF Types, PlaceTypes
<1>b. SUFFICES ASSUME NEW y \in Delivery PROVE Good(y)'
  BY DEF PassInv
<1>1. ASSUME NEW x \in Delivery, x # y, UNCHANGED granted,
             pc'[y] = pc[y], then'[y] = then[y], route'[y] = route[y],
             answer'[y] = answer[y], text'[y] = text[y]
      PROVE  Good(y)'
  BY <1>a, <1>1 DEF Unsealing, Passed, Granted
<1>2. ASSUME NEW x \in Delivery, NEW t \in Text, Arrive(x, t) PROVE Good(y)'
  <2>1. CASE x # y
    BY <1>0, <1>1, <1>2, <2>1 DEF Arrive
  <2>2. CASE x = y
    BY <1>0, <1>a, <1>2, <2>2 DEF Arrive, Unsealing, Passed, Over
  <2>. QED
    BY <2>1, <2>2
<1>3. ASSUME NEW x \in Delivery, Authorize(x) PROVE Good(y)'
  <2>1. CASE x # y
    <3>1. /\ UNCHANGED <<granted, then, answer, text>>
          /\ route' = [route EXCEPT ![x] = IF sealed THEN "closed" ELSE "open"]
          /\ \E l \in {"sid_lock", "replay_lock", "over", "count_lock"} : pc' = [pc EXCEPT ![x] = l]
      BY <1>3 DEF Authorize, Identify
    <3>. QED
      BY <1>0, <1>1, <2>1, <3>1
  <2>2. CASE x = y
    <3>1. /\ pc[y] = "gate" /\ UNCHANGED <<granted, then, answer, text>>
          /\ route'[y] = IF sealed THEN "closed" ELSE "open"
          /\ pc'[y] \in {"sid_lock", "replay_lock", "over", "count_lock"}
          /\ sealed /\ pc'[y] # "over" => KindOf[text[y]] = "unlock"
      BY <1>0, <1>3, <2>2 DEF Authorize, Identify
    <3>. QED
      BY <1>0, <1>a, <3>1 DEF Unsealing, Passed, Granted, Over
  <2>. QED
    BY <2>1, <2>2
<1>4. ASSUME NEW x \in Delivery, Acquire(x) \/ Busy(x) \/ Release(x) PROVE Good(y)'
  <2>0. /\ UNCHANGED <<granted, then, answer, text, route>>
        /\ \A z \in Delivery \ {x} : pc'[z] = pc[z]
    <3>1. CASE Acquire(x)
      BY <1>0, <3>1 DEF Acquire
    <3>2. CASE Busy(x)
      BY <1>0, <3>2 DEF Busy
    <3>3. CASE Release(x)
      BY <1>0, <3>3 DEF Release
    <3>. QED
      BY <1>4, <3>1, <3>2, <3>3
  <2>1. CASE x # y
    BY <1>1, <2>0, <2>1
  <2>2. CASE x = y /\ Acquire(x)
    <3>1. pc[y] \in Waiting /\ pc'[y] = Entered[pc[y]]
      BY <1>0, <2>2 DEF Acquire
    <3>. QED
      BY <1>a, <2>0, <3>1 DEF Entered, Waiting, Unsealing, Passed, Granted, Over
  <2>3. CASE x = y /\ Busy(x)
    <3>1. /\ pc[y] \in Waiting /\ pc'[y] \in {"replay_lock", "serve", "over"}
          /\ pc'[y] = "serve" => pc[y] = "reset_lock"
      BY <1>0, <2>3 DEF Busy
    <3>. QED
      BY <1>a, <2>0, <3>1 DEF Waiting, Unsealing, Passed, Granted, Over
  <2>4. CASE x = y /\ Release(x)
    <3>1. pc[y] = "release" /\ pc'[y] = then[y] /\ then[y] \in Exits
      BY <1>0, <2>4 DEF Release
    <3>. QED
      BY <1>a, <2>0, <3>1 DEF Exits, Unsealing, Passed, Granted, Over
  <2>. QED
    BY <1>4, <2>1, <2>2, <2>3, <2>4
<1>5. ASSUME NEW x \in Delivery, SidCheck(x) PROVE Good(y)'
  <2>0. /\ UNCHANGED <<granted, answer, text, route>> /\ pc[x] = "sid_check"
        /\ \/ pc' = [pc EXCEPT ![x] = "sid_write"] /\ then' = then
           \/ /\ pc' = [pc EXCEPT ![x] = "release"]
              /\ then' = [then EXCEPT ![x] = IF route[x] = "open" THEN "replay_lock" ELSE "over"]
    <3>1. UNCHANGED <<granted, answer, text, route>>
      BY <1>5 DEF SidCheck
    <3>. QED
      BY <1>5, <3>1 DEF SidCheck
  <2>1. CASE x # y
    BY <1>0, <1>1, <2>0, <2>1
  <2>2. CASE x = y
    BY <1>0, <1>a, <2>0, <2>2 DEF Unsealing, Passed, Granted, Over
  <2>. QED
    BY <2>1, <2>2
<1>6. ASSUME NEW x \in Delivery, SidWrite(x) PROVE Good(y)'
  <2> DEFINE g == [sid |-> text[x], at |-> stamp[x], by |-> x]
  <2>0. /\ granted' = Append(granted, g) /\ UNCHANGED <<answer, text, route>>
        /\ pc[x] = "sid_write" /\ pc' = [pc EXCEPT ![x] = "release"]
        /\ then' = [then EXCEPT ![x] = IF route[x] = "open" THEN "reset_read" ELSE "unseal_lock"]
    BY <1>6 DEF SidWrite
  <2>1. g \in Grants /\ g.sid = text[x] /\ g.by = x /\ granted \in Seq(Grants)
    BY <2>0 DEF Types, HasText, MemoryTypes, Grants
  <2> HIDE DEF g
  <2>2. /\ Len(granted) \in Nat /\ Len(granted') = Len(granted) + 1
        /\ granted'[Len(granted) + 1] = g
        /\ \A i \in 1..Len(granted) : granted'[i] = granted[i]
    BY <2>0, <2>1, AppendProperties
  <2>3. Granted(y) => Granted(y)'
    BY <2>0, <2>2 DEF Granted
  <2>4. CASE x # y
    <3>1. pc'[y] = pc[y] /\ then'[y] = then[y]
      BY <1>0, <2>0, <2>4
    <3>. QED
      BY <1>a, <2>0, <2>3, <3>1 DEF Unsealing, Passed
  <2>5. CASE x = y
    <3>1. Granted(y)'
      <4>1. Len(granted) + 1 \in 1..Len(granted')
        BY <2>2
      <4>. QED
        BY <2>0, <2>1, <2>2, <2>5, <4>1 DEF Granted
    <3>2. pc[y] = "sid_write" /\ pc'[y] = "release" /\ then'[y] # "replay_lock"
          /\ (then'[y] = "unseal_lock" => route[y] # "open")
      BY <1>0, <2>0, <2>5
    <3>3. route[y] \in {"none", "open", "closed"} /\ route[y] # "none"
      BY <1>0, <1>a, <3>2 DEF Over
    <3>. QED
      BY <1>a, <2>0, <3>1, <3>2, <3>3 DEF Unsealing, Over
  <2>. QED
    BY <2>4, <2>5
<1>7. ASSUME NEW x \in Delivery,
             \/ ReplayAudit(x) \/ CountRead(x) \/ CountWrite(x) \/ CountAudit(x)
             \/ SealTest(x) \/ Seal(x) \/ SealAudit(x)
      PROVE  Good(y)'
  <2>0. /\ UNCHANGED <<granted, answer, text, route>>
        /\ pc[x] \in Inside
        /\ \A z \in Delivery \ {x} : pc'[z] = pc[z] /\ then'[z] = then[z]
        /\ \/ pc'[x] \in {"count_write", "count_audit", "seal_test", "seal", "seal_audit"}
           \/ (pc'[x] = "release" /\ then'[x] \in {"over", "notice"})
    BY <1>0, <1>7 DEF ReplayAudit, CountRead, CountWrite, CountAudit, SealTest, Seal, SealAudit, Inside
  <2>1. CASE x # y
    BY <1>1, <2>0, <2>1
  <2>2. CASE x = y
    BY <1>a, <2>0, <2>2 DEF Unsealing, Passed, Granted, Over, Inside
  <2>. QED
    BY <2>1, <2>2
<1>8. ASSUME NEW x \in Delivery,
             ResetRead(x) \/ Reset(x) \/ Unseal(x) \/ UnsealZero(x) \/ UnsealAudit(x)
      PROVE  Good(y)'
  <2>0. /\ UNCHANGED <<granted, answer, text, route>>
        /\ pc[x] \in {"reset_read", "reset", "unseal", "unseal_zero", "unseal_audit"}
        /\ \A z \in Delivery \ {x} : pc'[z] = pc[z] /\ then'[z] = then[z]
        /\ \/ pc'[x] \in {"serve", "reset_lock", "unseal_zero", "unseal_audit"}
           \/ (pc'[x] = "release" /\ then'[x] \in {"serve", "reset_read"})
    BY <1>0, <1>8 DEF ResetRead, Reset, Unseal, UnsealZero, UnsealAudit
  <2>1. CASE x # y
    BY <1>1, <2>0, <2>1
  <2>2. CASE x = y
    BY <1>a, <2>0, <2>2 DEF Unsealing, Passed, Granted, Over
  <2>. QED
    BY <2>1, <2>2
<1>9. ASSUME NEW x \in Delivery,
             Serve(x) \/ Notice(x) \/ Send(x) \/ Die(x) \/ DieInCommand(x)
      PROVE  Good(y)'
  <2>0. /\ UNCHANGED <<granted, then, text, route>>
        /\ \A z \in Delivery \ {x} : pc'[z] = pc[z] /\ answer'[z] = answer[z]
        /\ pc[x] # "idle" /\ pc'[x] \in {"send", "over", "dead"}
        /\ answer'[x] # answer[x] /\ answer'[x] # "notice" => pc[x] = "serve"
        /\ pc'[x] = "send" => pc[x] \in {"serve", "notice"}
    <3>1. CASE Serve(x) \/ Notice(x)
      BY <1>0, <3>1 DEF Serve, Notice
    <3>2. CASE Send(x) \/ Die(x) \/ DieInCommand(x)
      BY <1>0, <3>2 DEF Send, Die, DieInCommand, Overlapping, Over
    <3>. QED
      BY <1>9, <3>1, <3>2
  <2>1. CASE x # y
    BY <1>1, <2>0, <2>1
  <2>2. CASE x = y
    BY <1>a, <2>0, <2>2 DEF Unsealing, Passed, Granted, Over
  <2>. QED
    BY <2>1, <2>2
<1>10. CASE Tick \/ OtherLock \/ Forget \/ UNCHANGED vars
  <2>1. UNCHANGED <<granted, pc, then, answer, text, route>>
    BY <1>10 DEF Tick, OtherLock, Forget, vars
  <2>. QED
    BY <1>a, <2>1 DEF Unsealing, Passed, Granted
<1>. QED
  BY <1>2, <1>3, <1>4, <1>5, <1>6, <1>7, <1>8, <1>9, <1>10 DEF Next, Step, Guard

LEMMA MemoryAlways == Safety => [](Types /\ GateLockOwnership /\ MemoryInv)
<1>1. Init => MemoryInv
  <2> SUFFICES ASSUME Init PROVE MemoryInv
    OBVIOUS
  <2>1. Len(granted) = 0 /\ now = 0 /\ stamp = [x \in Delivery |-> 0]
    BY DEF Init
  <2>2. Remembered /\ Apart
    BY <2>1 DEF Remembered, Apart
  <2>3. CopyIsGood
    BY <2>1 DEF Init, CopyIsGood
  <2>4. PassInv
    BY DEF Init, PassInv, Unsealing, Passed, Over
  <2>. QED
    BY <2>2, <2>3, <2>4 DEF MemoryInv
<1>2. Types /\ GateLockOwnership /\ MemoryInv /\ [Next]_vars => MemoryInv'
  BY MemoryStep, PassStep DEF MemoryInv
<1>. QED
  BY OwnershipAlways, <1>1, <1>2, PTL DEF Safety

LEMMA RepeatsAlways == Safety => []RepeatsAreOld
<1>1. Types /\ MemoryInv => RepeatsAreOld
  <2> SUFFICES ASSUME Types, MemoryInv, NEW x \in Delivery, NEW y \in Delivery, x # y,
                      text[x] = text[y], LetThrough(x), LetThrough(y)
               PROVE  \E i, j \in 1..Len(granted) :
                         /\ {granted[i].by, granted[j].by} = {x, y}
                         /\ granted[i].sid = text[x] /\ granted[j].sid = text[x]
                         /\ i < j
                         /\ \/ granted[j].at - granted[i].at >= Ttl
                            \/ j - i > MaxSids
                            \/ i <= lost
    BY DEF RepeatsAreOld
  <2>1. Granted(x) /\ Granted(y)
    BY DEF LetThrough, MemoryInv, PassInv, Passed
  <2>2. PICK i \in 1..Len(granted) : granted[i].by = x /\ granted[i].sid = text[x]
    BY <2>1 DEF Granted
  <2>3. PICK j \in 1..Len(granted) : granted[j].by = y /\ granted[j].sid = text[x]
    BY <2>1 DEF Granted
  <2>4. i < j \/ j < i
    <3>1. i # j
      BY <2>2, <2>3
    <3>. QED
      BY <3>1
  <2>5. CASE i < j
    <3>1. i <= lost \/ granted[j].at - granted[i].at >= Ttl \/ j - i > MaxSids
      BY <2>2, <2>3, <2>5 DEF MemoryInv, Apart
    <3>2. {granted[i].by, granted[j].by} = {x, y}
      BY <2>2, <2>3
    <3>. WITNESS i \in 1..Len(granted), j \in 1..Len(granted)
    <3>. QED
      BY <2>2, <2>3, <2>5, <3>1, <3>2
  <2>6. CASE j < i
    <3>1. j <= lost \/ granted[i].at - granted[j].at >= Ttl \/ i - j > MaxSids
      BY <2>2, <2>3, <2>6 DEF MemoryInv, Apart
    <3>2. {granted[j].by, granted[i].by} = {x, y}
      BY <2>2, <2>3
    <3>. WITNESS j \in 1..Len(granted), i \in 1..Len(granted)
    <3>. QED
      BY <2>2, <2>3, <2>6, <3>1, <3>2
  <2>. QED
    BY <2>4, <2>5, <2>6
<1>. QED
  BY MemoryAlways, <1>1, PTL

(* At most once: a text is carried out twice only when the replay memory    *)
(* had to forget it in between (SecurityVault.checkAndRecordSid).           *)
THEOREM RepeatsAreOldHolds == Spec => []RepeatsAreOld
BY RepeatsAlways, SpecIsSafe, PTL

(* A sealed bot is opened by a fresh, rightly worded text of the recipient, *)
(* and by nothing else (SecurityGate._tryUnseal).                           *)
THEOREM OnlyFreshUnlockOpensHolds == Spec => OnlyFreshUnlockOpens
<1> DEFINE Opening == sealed /\ ~sealed' =>
              \E x \in Delivery : /\ lock = x
                                  /\ KindOf[text[x]] = "unlock"
                                  /\ \E i \in 1..Len(granted) : /\ granted[i].by = x
                                                                /\ granted[i].sid = text[x]
<1>1. ASSUME Types, GateLockOwnership, MemoryInv, [Next]_vars PROVE [Opening]_sealed
  <2> SUFFICES ASSUME sealed, ~sealed' PROVE Opening
    OBVIOUS
  <2>1. PICK x \in Delivery : Unseal(x)
    <3>1. ASSUME NEW x \in Delivery,
                 \/ \E t \in Text : Arrive(x, t)
                 \/ Authorize(x) \/ Acquire(x) \/ Busy(x) \/ Release(x)
                 \/ SidCheck(x) \/ SidWrite(x) \/ ReplayAudit(x)
                 \/ CountRead(x) \/ CountWrite(x) \/ CountAudit(x)
                 \/ SealTest(x) \/ Seal(x) \/ SealAudit(x)
                 \/ ResetRead(x) \/ Reset(x) \/ UnsealZero(x) \/ UnsealAudit(x)
                 \/ Notice(x) \/ Serve(x) \/ Send(x) \/ Die(x) \/ DieInCommand(x)
          PROVE  FALSE
      BY <3>1 DEF Arrive, Authorize, Acquire, Busy, Release, SidCheck, SidWrite, ReplayAudit,
                  CountRead, CountWrite, CountAudit, SealTest, Seal, SealAudit, ResetRead, Reset,
                  UnsealZero, UnsealAudit, Notice, Serve, Send, Die, DieInCommand, guard
    <3>2. ~(Tick \/ OtherLock \/ Forget \/ UNCHANGED vars)
      BY DEF Tick, OtherLock, Forget, vars, guard
    <3>. QED
      BY <1>1, <3>1, <3>2 DEF Next, Step, Guard
  <2>2. pc[x] = "unseal" /\ lock = x
    BY <1>1, <2>1 DEF Unseal, At, GateLockOwnership, Inside
  <2>3. KindOf[text[x]] = "unlock" /\ Granted(x)
    BY <1>1, <2>2 DEF MemoryInv, PassInv, Unsealing, Passed, Over
  <2>. QED
    BY <2>2, <2>3 DEF Granted
<1>. QED
  BY MemoryAlways, SpecIsSafe, <1>1, PTL DEF Safety, OnlyFreshUnlockOpens

-----------------------------------------------------------------------------
(* The ring and the seal.  Nobody notes anything on a sealed bot but those  *)
(* who came in while it was open, once each, so a ring with room for an     *)
(* entry of every delivery in progress still holds the "sealed" entry.      *)
Pending == {"seal_audit", "unseal_zero", "unseal_audit"}

(* A change of the seal still lacks its entry, or will never have it.       *)
Halfway == (\E x \in Delivery : pc[x] \in Pending) \/ cut \cap Pending # {}

(* Those who may yet note a failure or a repeated text.                     *)
Noting(x) == \/ pc[x] \in {"count_lock", "count_read", "count_write", "count_audit",
                           "replay_lock", "replay_audit"}
             \/ pc[x] \in {"sid_lock", "sid_check"} /\ route[x] = "open"
             \/ pc[x] = "release" /\ then[x] = "replay_lock"
Noters == {x \in Delivery : Noting(x)}

(* Place i of the ring says that the bot is sealed, and nothing after it    *)
(* says otherwise.                                                          *)
StandsAt(i) == /\ audit[i] = "sealed"
               /\ \A j \in 1..Len(audit) : j > i => audit[j] \notin {"sealed", "unsealed"}

OverlapInv == IsFiniteSet(Overlapping) /\ Cardinality(Overlapping) <= MaxOverlap

RingInv ==
    /\ \A x \in Delivery : pc[x] = "unseal_audit" => ~sealed
    /\ ~Halfway /\ ~sealed =>
          \A i \in 1..Len(audit) : audit[i] = "sealed" =>
             \E j \in 1..Len(audit) : j > i /\ audit[j] = "unsealed"
    /\ ~Halfway /\ sealed =>
          \E i \in 1..Len(audit) : /\ StandsAt(i)
                                   /\ (Len(audit) - i) + Cardinality(Noters) < MaxOverlap

(* The bound on the deliveries in progress.                                 *)
LEMMA OverlapStep ==
    ASSUME Types, OverlapInv, [Next]_vars
    PROVE  OverlapInv'
<1> USE GateAssumption DEF At, Goto, ReleaseTo, memory, guard, local
<1>0. pc \in [Delivery -> Locations] /\ then \in [Delivery -> Exits] /\ MaxOverlap \in Nat
  BY DEF Types, PlaceTypes
<1>1. ASSUME Overlapping' \subseteq Overlapping PROVE OverlapInv'
  <2>1. /\ IsFiniteSet(Overlapping') /\ Cardinality(Overlapping') <= Cardinality(Overlapping)
        /\ Cardinality(Overlapping') \in Nat /\ Cardinality(Overlapping) \in Nat
    BY <1>1, FS_Subset, FS_CardinalityType DEF OverlapInv
  <2>. QED
    BY <1>0, <2>1 DEF OverlapInv
<1>2. ASSUME NEW x \in Delivery, NEW t \in Text, Arrive(x, t) PROVE OverlapInv'
  <2> DEFINE O == Overlapping
  <2>1. IsFiniteSet(O) /\ Cardinality(O) < MaxOverlap
    BY <1>2 DEF Arrive, OverlapInv
  <2>2. Overlapping' \subseteq O \cup {x}
    BY <1>0, <1>2 DEF Arrive, Overlapping, Over
  <2> HIDE DEF O
  <2>3. /\ IsFiniteSet(O \cup {x})
        /\ Cardinality(O \cup {x}) = IF x \in O THEN Cardinality(O) ELSE Cardinality(O) + 1
    BY <2>1, FS_AddElement
  <2>4. /\ IsFiniteSet(Overlapping') /\ Cardinality(Overlapping') <= Cardinality(O \cup {x})
    BY <2>2, <2>3, FS_Subset
  <2>5. Cardinality(Overlapping') \in Nat /\ Cardinality(O) \in Nat /\ Cardinality(O \cup {x}) \in Nat
    BY <2>1, <2>3, <2>4, FS_CardinalityType
  <2>. QED
    BY <1>0, <2>1, <2>3, <2>4, <2>5 DEF OverlapInv
<1>3. ASSUME NEW x \in Delivery, Step(x) \/ Die(x) \/ DieInCommand(x) PROVE OverlapInv'
  <2>1. pc[x] \notin Over \cup {"idle"} /\ \A y \in Delivery \ {x} : pc'[y] = pc[y]
    <3>1. CASE Authorize(x) \/ Acquire(x) \/ Busy(x) \/ Release(x)
      BY <1>0, <3>1 DEF Authorize, Identify, Acquire, Busy, Release, Waiting, Over
    <3>2. CASE SidCheck(x) \/ SidWrite(x) \/ ReplayAudit(x)
      BY <1>0, <3>2 DEF SidCheck, SidWrite, ReplayAudit, Over
    <3>3. CASE CountRead(x) \/ CountWrite(x) \/ CountAudit(x) \/ SealTest(x) \/ Seal(x) \/ SealAudit(x)
      BY <1>0, <3>3 DEF CountRead, CountWrite, CountAudit, SealTest, Seal, SealAudit, Over
    <3>4. CASE ResetRead(x) \/ Reset(x) \/ Unseal(x) \/ UnsealZero(x) \/ UnsealAudit(x)
      BY <1>0, <3>4 DEF ResetRead, Reset, Unseal, UnsealZero, UnsealAudit, Over
    <3>5. CASE Notice(x) \/ Serve(x) \/ Send(x) \/ DieInCommand(x)
      BY <1>0, <3>5 DEF Notice, Serve, Send, DieInCommand, Over
    <3>6. CASE Die(x)
      BY <1>0, <3>6 DEF Die, Overlapping
    <3>. QED
      BY <1>3, <3>1, <3>2, <3>3, <3>4, <3>5, <3>6 DEF Step, Guard
  <2>2. Overlapping' \subseteq Overlapping
    BY <2>1 DEF Overlapping
  <2>. QED
    BY <1>1, <2>2
<1>4. CASE Tick \/ OtherLock \/ Forget \/ UNCHANGED vars
  <2>1. Overlapping' \subseteq Overlapping
    BY <1>4 DEF Tick, OtherLock, Forget, vars, Overlapping
  <2>. QED
    BY <1>1, <2>1
<1>. QED
  BY <1>2, <1>3, <1>4 DEF Next

(* On a sealed bot nobody joins them.                                       *)
LEMMA NotersStep ==
    ASSUME Types, sealed, [Next]_vars
    PROVE  Noters' \subseteq Noters
<1> USE DEF At, Goto, ReleaseTo, memory, guard, local
<1>0. /\ pc \in [Delivery -> Locations] /\ then \in [Delivery -> Exits]
      /\ route \in [Delivery -> {"none", "open", "closed"}]
  BY DEF Types, PlaceTypes
<1>1. ASSUME NEW x \in Delivery, NEW t \in Text, Arrive(x, t) PROVE Noters' \subseteq Noters
  BY <1>0, <1>1 DEF Arrive, Noters, Noting
<1>2. ASSUME NEW x \in Delivery, Authorize(x) PROVE Noters' \subseteq Noters
  <2>1. /\ UNCHANGED then /\ route' = [route EXCEPT ![x] = "closed"]
        /\ \E l \in {"sid_lock", "over"} : pc' = [pc EXCEPT ![x] = l]
    BY <1>2 DEF Authorize, Identify
  <2>. QED
    BY <1>0, <2>1 DEF Noters, Noting
<1>3. ASSUME NEW x \in Delivery, Acquire(x) PROVE Noters' \subseteq Noters
  <2>1. /\ UNCHANGED <<then, route>> /\ pc[x] \in Waiting
        /\ pc' = [pc EXCEPT ![x] = Entered[pc[x]]]
    BY <1>3 DEF Acquire
  <2>. QED
    BY <1>0, <2>1 DEF Entered, Waiting, Noters, Noting
<1>4. ASSUME NEW x \in Delivery, Busy(x) PROVE Noters' \subseteq Noters
  <2>1. /\ UNCHANGED <<then, route>> /\ pc[x] \in Waiting
        /\ \E l \in {"replay_lock", "serve", "over"} : /\ pc' = [pc EXCEPT ![x] = l]
                                                       /\ l = "replay_lock" => pc[x] = "sid_lock" /\ route[x] = "open"
    BY <1>4 DEF Busy
  <2>. QED
    BY <1>0, <2>1 DEF Noters, Noting
<1>5. ASSUME NEW x \in Delivery, Release(x) PROVE Noters' \subseteq Noters
  <2>1. /\ UNCHANGED <<then, route>> /\ pc[x] = "release" /\ then[x] \in Exits
        /\ pc' = [pc EXCEPT ![x] = then[x]]
    BY <1>0, <1>5 DEF Release
  <2>. QED
    BY <1>0, <2>1 DEF Exits, Noters, Noting
<1>6. ASSUME NEW x \in Delivery, SidCheck(x) PROVE Noters' \subseteq Noters
  <2>1. /\ UNCHANGED route /\ pc[x] = "sid_check"
        /\ \/ pc' = [pc EXCEPT ![x] = "sid_write"] /\ then' = then
           \/ /\ pc' = [pc EXCEPT ![x] = "release"]
              /\ then' = [then EXCEPT ![x] = IF route[x] = "open" THEN "replay_lock" ELSE "over"]
    <3>1. UNCHANGED route
      BY <1>6 DEF SidCheck
    <3>. QED
      BY <1>6, <3>1 DEF SidCheck
  <2>. QED
    BY <1>0, <2>1 DEF Noters, Noting
<1>7. ASSUME NEW x \in Delivery, SidWrite(x) \/ ReplayAudit(x) \/ SealTest(x) \/ SealAudit(x)
      PROVE  Noters' \subseteq Noters
  BY <1>0, <1>7 DEF SidWrite, ReplayAudit, SealTest, SealAudit, Noters, Noting
<1>8. ASSUME NEW x \in Delivery, CountRead(x) \/ CountWrite(x) \/ CountAudit(x) \/ Seal(x)
      PROVE  Noters' \subseteq Noters
  BY <1>0, <1>8 DEF CountRead, CountWrite, CountAudit, Seal, Noters, Noting
<1>9. ASSUME NEW x \in Delivery, ResetRead(x) \/ Reset(x) \/ Unseal(x) \/ UnsealZero(x) \/ UnsealAudit(x)
      PROVE  Noters' \subseteq Noters
  BY <1>0, <1>9 DEF ResetRead, Reset, Unseal, UnsealZero, UnsealAudit, Noters, Noting
<1>10. ASSUME NEW x \in Delivery, Notice(x) \/ Serve(x) \/ Send(x) \/ Die(x) \/ DieInCommand(x)
      PROVE  Noters' \subseteq Noters
  BY <1>0, <1>10 DEF Notice, Serve, Send, Die, DieInCommand, Noters, Noting
<1>11. CASE Tick \/ OtherLock \/ Forget \/ UNCHANGED vars
  BY <1>11 DEF Tick, OtherLock, Forget, vars, Noters, Noting
<1>. QED
  BY <1>1, <1>2, <1>3, <1>4, <1>5, <1>6, <1>7, <1>8, <1>9, <1>10, <1>11 DEF Next, Step, Guard

(* What an entry does to the ring: it is last, and the others stay or move  *)
(* up by one place, which happens to a full ring only.                      *)
LEMMA NotedEntries ==
    ASSUME GuardTypes, NEW k \in Events
    PROVE  \E s \in {0, 1} :
              /\ Len(Noted(k)) = Len(audit) + 1 - s /\ Len(audit) \in Nat
              /\ Noted(k)[Len(Noted(k))] = k
              /\ s = 1 => Len(audit) = MaxAudit
              /\ \A i \in 1..(Len(audit) - s) : Noted(k)[i] = audit[i + s]
<1> DEFINE longer == Append(audit, k)
<1>0. audit \in Seq(Events) /\ Len(audit) \in Nat /\ Len(audit) <= MaxAudit /\ MaxAudit \in Nat \ {0}
  BY GateAssumption DEF GuardTypes
<1>1. /\ longer \in Seq(Events) /\ Len(longer) = Len(audit) + 1 /\ longer[Len(audit) + 1] = k
      /\ \A i \in 1..Len(audit) : longer[i] = audit[i]
  BY <1>0, AppendProperties
<1>2. /\ Len(Tail(longer)) = Len(audit)
      /\ \A i \in 1..Len(audit) : Tail(longer)[i] = longer[i + 1]
  <2>1. longer # <<>>
    BY <1>0, <1>1
  <2>2. /\ Len(Tail(longer)) = Len(longer) - 1
        /\ \A i \in 1..Len(Tail(longer)) : Tail(longer)[i] = longer[i + 1]
    BY <1>1, <2>1, HeadTailProperties
  <2>. HIDE DEF longer
  <2>. QED
    BY <1>0, <1>1, <2>2
<1>. HIDE DEF longer
<1>3. Noted(k) = IF Len(longer) > MaxAudit THEN Tail(longer) ELSE longer
  BY DEF Noted, longer
<1>4. CASE Len(longer) > MaxAudit
  <2>1. Noted(k) = Tail(longer) /\ Len(audit) = MaxAudit
    BY <1>0, <1>1, <1>3, <1>4
  <2>2. Noted(k)[Len(Noted(k))] = k
    BY <1>0, <1>1, <1>2, <2>1
  <2>3. \A i \in 1..(Len(audit) - 1) : Noted(k)[i] = audit[i + 1]
    BY <1>0, <1>1, <1>2, <2>1
  <2>. WITNESS 1 \in {0, 1}
  <2>. QED
    BY <1>0, <1>2, <2>1, <2>2, <2>3
<1>5. CASE ~(Len(longer) > MaxAudit)
  <2>1. Noted(k) = longer
    BY <1>3, <1>5
  <2>. WITNESS 0 \in {0, 1}
  <2>. QED
    BY <1>0, <1>1, <2>1
<1>. QED
  BY <1>4, <1>5

LEMMA NotersOverlap ==
    ASSUME OverlapInv
    PROVE  Noters \subseteq Overlapping /\ IsFiniteSet(Noters) /\ Cardinality(Noters) \in Nat
<1>1. Noters \subseteq Overlapping
  BY DEF Noters, Noting, Overlapping, Over
<1>. QED
  BY <1>1, FS_Subset, FS_CardinalityType DEF OverlapInv

LEMMA OneLess ==
    ASSUME NEW S, IsFiniteSet(S), NEW x \in S, NEW T, T \subseteq S, x \notin T
    PROVE  IsFiniteSet(T) /\ Cardinality(T) + 1 <= Cardinality(S) /\ Cardinality(T) \in Nat
<1>1. IsFiniteSet(S \ {x}) /\ Cardinality(S \ {x}) = Cardinality(S) - 1
  BY FS_RemoveElement
<1>2. T \subseteq S \ {x}
  OBVIOUS
<1>3. IsFiniteSet(T) /\ Cardinality(T) <= Cardinality(S \ {x})
  BY <1>1, <1>2, FS_Subset
<1>. QED
  BY <1>1, <1>3, FS_CardinalityType

(* A step that notes nothing and leaves the seal alone.                     *)
LEMMA RingQuiet ==
    ASSUME Types, RingInv, OverlapInv, [Next]_vars,
           UNCHANGED <<audit, sealed>>, Halfway => Halfway',
           \A x \in Delivery : pc'[x] = "unseal_audit" => pc[x] = "unseal_audit"
    PROVE  RingInv'
<1>1. CASE sealed
  <2>1. Noters' \subseteq Noters
    BY <1>1, NotersStep
  <2>2. IsFiniteSet(Noters) /\ Cardinality(Noters) \in Nat
    BY NotersOverlap
  <2>3. Cardinality(Noters') <= Cardinality(Noters) /\ Cardinality(Noters') \in Nat
    BY <2>1, <2>2, FS_Subset, FS_CardinalityType
  <2>4. ASSUME ~Halfway'
        PROVE  \E i \in 1..Len(audit) : /\ StandsAt(i)
                                        /\ (Len(audit) - i) + Cardinality(Noters') < MaxOverlap
    <3>1. PICK i \in 1..Len(audit) : /\ StandsAt(i)
                                     /\ (Len(audit) - i) + Cardinality(Noters) < MaxOverlap
      BY <1>1, <2>4 DEF RingInv
    <3>2. Len(audit) \in Nat /\ i \in Nat /\ MaxOverlap \in Nat
      BY GateAssumption DEF Types, GuardTypes
    <3>. QED
      BY <2>2, <2>3, <3>1, <3>2
  <2>. QED
    BY <1>1, <2>4 DEF RingInv, StandsAt
<1>2. CASE ~sealed
  BY <1>2 DEF RingInv
<1>. QED
  BY <1>1, <1>2

(* A failure or a repeated text is noted.                                   *)
LEMMA RingNotes ==
    ASSUME Types, RingInv, OverlapInv, [Next]_vars, MaxOverlap <= MaxAudit,
           NEW x \in Delivery, NEW k \in {"rejected", "replay"}, audit' = Noted(k),
           UNCHANGED <<sealed, cut>>,
           pc[x] \in {"count_audit", "replay_audit"},
           \E l \in {"seal_test", "release"} : pc' = [pc EXCEPT ![x] = l],
           then'[x] # "replay_lock" \/ pc'[x] = "seal_test"
    PROVE  RingInv'
<1>0. /\ pc \in [Delivery -> Locations] /\ MaxOverlap \in Nat /\ MaxAudit \in Nat /\ GuardTypes
      /\ k \in Events
  BY GateAssumption DEF Types, PlaceTypes, Events
<1>1. /\ pc'[x] \in {"seal_test", "release"}
      /\ \A y \in Delivery \ {x} : pc'[y] = pc[y]
  BY <1>0
<1>2. Halfway' <=> Halfway
  BY <1>1 DEF Halfway, Pending
<1>3. PICK s \in {0, 1} :
         /\ Len(audit') = Len(audit) + 1 - s /\ Len(audit) \in Nat
         /\ audit'[Len(audit')] = k
         /\ s = 1 => Len(audit) = MaxAudit
         /\ \A i \in 1..(Len(audit) - s) : audit'[i] = audit[i + s]
  BY <1>0, NotedEntries
<1>4. CASE sealed
  <2>1. x \in Noters /\ x \notin Noters'
    BY <1>1 DEF Noters, Noting
  <2>2. Noters' \subseteq Noters
    BY <1>4, NotersStep
  <2>3. IsFiniteSet(Noters) /\ Cardinality(Noters) \in Nat
    BY NotersOverlap
  <2>4. Cardinality(Noters') + 1 <= Cardinality(Noters) /\ Cardinality(Noters') \in Nat
    BY <2>1, <2>2, <2>3, OneLess
  <2>5. ASSUME ~Halfway'
        PROVE  \E i \in 1..Len(audit') : /\ StandsAt(i)'
                                         /\ (Len(audit') - i) + Cardinality(Noters') < MaxOverlap
    <3>1. PICK i \in 1..Len(audit) : /\ StandsAt(i)
                                     /\ (Len(audit) - i) + Cardinality(Noters) < MaxOverlap
      BY <1>2, <1>4, <2>5 DEF RingInv
    <3> DEFINE n == Cardinality(Noters)
               m == Cardinality(Noters')
    <3>2. n \in Nat /\ m \in Nat /\ m + 1 <= n /\ (Len(audit) - i) + n < MaxOverlap
      BY <2>3, <2>4, <3>1
    <3> HIDE DEF n, m
    <3>3. /\ i - s \in 1..Len(audit') /\ i - s \in 1..(Len(audit) - s)
          /\ (Len(audit') - (i - s)) + m < MaxOverlap
      BY <1>0, <1>3, <3>1, <3>2
    <3>4. StandsAt(i - s)'
      <4>1. audit'[i - s] = "sealed"
        BY <1>3, <3>1, <3>3 DEF StandsAt
      <4>2. ASSUME NEW j \in 1..Len(audit'), j > i - s
            PROVE  audit'[j] \notin {"sealed", "unsealed"}
        <5>1. CASE j = Len(audit')
          BY <1>3, <5>1
        <5>2. CASE j # Len(audit')
          <6>1. j \in 1..(Len(audit) - s) /\ j + s \in 1..Len(audit) /\ j + s > i
            BY <1>3, <3>1, <4>2, <5>2
          <6>. QED
            BY <1>3, <3>1, <6>1 DEF StandsAt
        <5>. QED
          BY <5>1, <5>2
      <4>. QED
        BY <4>1, <4>2 DEF StandsAt
    <3>. QED
      BY <3>3, <3>4 DEF m
  <2>. QED
    BY <1>1, <1>4, <2>5 DEF RingInv
<1>5. CASE ~sealed
  <2>1. ASSUME ~Halfway', NEW i \in 1..Len(audit'), audit'[i] = "sealed"
        PROVE  \E j \in 1..Len(audit') : j > i /\ audit'[j] = "unsealed"
    <3>1. i \in 1..(Len(audit) - s) /\ i + s \in 1..Len(audit)
      BY <1>3, <2>1
    <3>2. audit[i + s] = "sealed"
      BY <1>3, <2>1, <3>1
    <3>3. PICK j \in 1..Len(audit) : j > i + s /\ audit[j] = "unsealed"
      BY <1>2, <1>5, <2>1, <3>1, <3>2 DEF RingInv
    <3>4. j - s \in 1..(Len(audit) - s) /\ j - s \in 1..Len(audit') /\ j - s > i
      BY <1>3, <3>1, <3>3
    <3>5. audit'[j - s] = audit[(j - s) + s] /\ (j - s) + s = j
      BY <1>3, <3>4
    <3>. QED
      BY <3>3, <3>4, <3>5
  <2>. QED
    BY <1>1, <1>5, <2>1 DEF RingInv
<1>. QED
  BY <1>4, <1>5

LEMMA RingStep ==
    ASSUME Types, GateLockOwnership, SealInv, RingInv, OverlapInv, [Next]_vars,
           MaxOverlap <= MaxAudit
    PROVE  RingInv'
<1> USE GateAssumption DEF At, Goto, ReleaseTo, memory, guard, local
<1>0. /\ pc \in [Delivery -> Locations] /\ then \in [Delivery -> Exits]
      /\ sealed \in BOOLEAN /\ GuardTypes
  BY DEF Types, PlaceTypes, GuardTypes
<1>1. ASSUME NEW x \in Delivery,
             \/ \E t \in Text : Arrive(x, t)
             \/ Authorize(x) \/ Acquire(x) \/ Busy(x) \/ Release(x)
             \/ ResetRead(x) \/ Reset(x) \/ Notice(x) \/ Serve(x) \/ Send(x) \/ DieInCommand(x)
      PROVE  RingInv'
  <2>1. /\ UNCHANGED <<audit, sealed>> /\ cut \cap Pending \subseteq cut'
        /\ \E l \in Locations \ Pending : pc' = [pc EXCEPT ![x] = l]
        /\ pc[x] \notin Pending
    <3>1. CASE (\E t \in Text : Arrive(x, t)) \/ Authorize(x) \/ Busy(x)
      BY <3>1 DEF Arrive, Authorize, Identify, Busy, Pending, Locations, Waiting, Inside, Over
    <3>2. CASE Acquire(x)
      <4>1. /\ UNCHANGED <<audit, sealed, cut>> /\ pc[x] \in Waiting
            /\ pc' = [pc EXCEPT ![x] = Entered[pc[x]]]
        BY <3>2 DEF Acquire
      <4>2. Entered[pc[x]] \in {"sid_check", "count_read", "replay_audit", "reset", "unseal"}
        BY <4>1 DEF Entered, Waiting
      <4>. QED
        BY <4>1, <4>2 DEF Pending, Locations, Waiting, Inside, Over
    <3>3. CASE Release(x)
      <4>1. /\ UNCHANGED <<audit, sealed, cut>> /\ pc[x] = "release" /\ then[x] \in Exits
            /\ pc' = [pc EXCEPT ![x] = then[x]]
        BY <1>0, <3>3 DEF Release
      <4>. QED
        BY <4>1 DEF Exits, Pending, Locations, Waiting, Inside, Over
    <3>4. CASE ResetRead(x) \/ Reset(x) \/ Notice(x) \/ Serve(x) \/ Send(x) \/ DieInCommand(x)
      BY <3>4 DEF ResetRead, Reset, Notice, Serve, Send, DieInCommand,
                  Pending, Locations, Waiting, Inside, Over
    <3>. QED
      BY <1>1, <3>1, <3>2, <3>3, <3>4
  <2>2. Halfway => Halfway'
    BY <1>0, <2>1 DEF Halfway
  <2>. QED
    BY <1>0, <2>1, <2>2, RingQuiet DEF Pending
<1>2. ASSUME NEW x \in Delivery,
             SidCheck(x) \/ SidWrite(x) \/ CountRead(x) \/ CountWrite(x) \/ SealTest(x)
      PROVE  RingInv'
  <2>1. /\ UNCHANGED <<audit, sealed, cut>>
        /\ \E l \in {"sid_write", "count_write", "count_audit", "seal", "release"} :
              pc' = [pc EXCEPT ![x] = l]
        /\ pc[x] \notin Pending
    BY <1>2 DEF SidCheck, SidWrite, CountRead, CountWrite, SealTest, Pending
  <2>2. Halfway => Halfway'
    BY <1>0, <2>1 DEF Halfway
  <2>. QED
    BY <1>0, <2>1, <2>2, RingQuiet
<1>3. ASSUME NEW x \in Delivery, Die(x) PROVE RingInv'
  <2>1. /\ UNCHANGED <<audit, sealed>> /\ pc' = [pc EXCEPT ![x] = "dead"]
        /\ cut' = cut \cup ({pc[x]} \cap Inside)
    BY <1>3 DEF Die
  <2>2. Halfway => Halfway'
    BY <1>0, <2>1 DEF Halfway, Pending, Inside
  <2>. QED
    BY <1>0, <2>1, <2>2, RingQuiet
<1>4. ASSUME NEW x \in Delivery, ReplayAudit(x) PROVE RingInv'
  <2>1. /\ audit' = Noted("replay") /\ UNCHANGED <<sealed, cut>> /\ pc[x] = "replay_audit"
        /\ pc' = [pc EXCEPT ![x] = "release"] /\ then'[x] = "over"
    BY <1>0, <1>4 DEF ReplayAudit
  <2>. QED
    BY <2>1, RingNotes
<1>5. ASSUME NEW x \in Delivery, CountAudit(x) PROVE RingInv'
  <2>1. /\ audit' = Noted("rejected") /\ UNCHANGED <<sealed, cut>> /\ pc[x] = "count_audit"
        /\ pc' = [pc EXCEPT ![x] = "seal_test"] /\ pc'[x] = "seal_test"
    BY <1>0, <1>5 DEF CountAudit
  <2>. QED
    BY <2>1, RingNotes
<1>6. ASSUME NEW x \in Delivery, Seal(x) \/ Unseal(x) \/ UnsealZero(x) PROVE RingInv'
  <2>1. /\ pc'[x] \in Pending /\ pc[x] # "unseal_audit"
        /\ \A y \in Delivery \ {x} : pc'[y] = pc[y]
        /\ pc'[x] = "unseal_audit" => pc[x] = "unseal_zero" /\ sealed' = sealed
        /\ pc[x] \in Inside
    BY <1>0, <1>6 DEF Seal, Unseal, UnsealZero, Pending, Inside
  <2>2. Halfway'
    BY <2>1 DEF Halfway
  <2>3. \A y \in Delivery \ {x} : pc[y] \notin Inside
    BY <2>1 DEF GateLockOwnership
  <2>4. \A y \in Delivery : pc'[y] = "unseal_audit" => ~sealed'
    BY <2>1, <2>3 DEF Inside, SealInv, Counting
  <2>. QED
    BY <2>2, <2>4 DEF RingInv
<1>7. ASSUME NEW x \in Delivery, SealAudit(x) PROVE RingInv'
  <2>1. /\ audit' = Noted("sealed") /\ pc[x] = "seal_audit" /\ UNCHANGED <<sealed, route>>
        /\ pc'[x] = "release" /\ then'[x] = "notice"
        /\ \A y \in Delivery \ {x} : pc'[y] = pc[y] /\ then'[y] = then[y]
    BY <1>0, <1>7 DEF SealAudit
  <2>2. sealed
    BY <2>1 DEF SealInv, Counting
  <2>3. \A y \in Delivery : pc'[y] # "unseal_audit"
    BY <2>1 DEF GateLockOwnership, Inside
  <2>4. PICK n \in 1..Len(audit') : n = Len(audit') /\ audit'[n] = "sealed"
    <3>1. PICK s \in {0, 1} : /\ Len(audit') = Len(audit) + 1 - s /\ Len(audit) \in Nat
                              /\ audit'[Len(audit')] = "sealed"
                              /\ s = 1 => Len(audit) = MaxAudit
      BY <1>0, <2>1, NotedEntries DEF Events
    <3>2. Len(audit') \in 1..Len(audit')
      BY <3>1, GateAssumption
    <3>. QED
      BY <3>1, <3>2
  <2>5. StandsAt(n)'
    BY <2>4 DEF StandsAt
  <2>6. Cardinality(Noters') < MaxOverlap /\ Cardinality(Noters') \in Nat
    <3>1. Noters' \subseteq Noters /\ x \notin Noters'
      BY <2>1, <2>2, NotersStep DEF Noters, Noting
    <3>2. Noters' \subseteq Overlapping /\ x \in Overlapping
      BY <2>1, <3>1, NotersOverlap DEF Overlapping, Over
    <3>3. IsFiniteSet(Overlapping) /\ Cardinality(Overlapping) <= MaxOverlap
      BY DEF OverlapInv
    <3>4. Cardinality(Noters') + 1 <= Cardinality(Overlapping) /\ Cardinality(Noters') \in Nat
      BY <3>1, <3>2, <3>3, OneLess
    <3>. QED
      BY <3>3, <3>4, FS_CardinalityType
  <2>7. (Len(audit') - n) + Cardinality(Noters') < MaxOverlap
    <3>1. n \in Nat /\ Len(audit') = n
      BY <2>4
    <3>. QED
      BY <2>6, <3>1
  <2>. QED
    BY <2>1, <2>2, <2>3, <2>4, <2>5, <2>7 DEF RingInv
<1>8. ASSUME NEW x \in Delivery, UnsealAudit(x) PROVE RingInv'
  <2>1. /\ audit' = Noted("unsealed") /\ pc[x] = "unseal_audit" /\ UNCHANGED sealed
        /\ pc'[x] = "release" /\ \A y \in Delivery \ {x} : pc'[y] = pc[y]
    BY <1>0, <1>8 DEF UnsealAudit
  <2>2. ~sealed
    BY <2>1 DEF RingInv
  <2>3. PICK s \in {0, 1} : /\ Len(audit') = Len(audit) + 1 - s /\ Len(audit) \in Nat
                            /\ audit'[Len(audit')] = "unsealed"
                            /\ s = 1 => Len(audit) = MaxAudit
    BY <1>0, <2>1, NotedEntries DEF Events
  <2>4. ASSUME NEW i \in 1..Len(audit'), audit'[i] = "sealed"
        PROVE  \E j \in 1..Len(audit') : j > i /\ audit'[j] = "unsealed"
    <3>1. Len(audit') \in 1..Len(audit') /\ Len(audit') > i
      BY <2>3, <2>4
    <3>. QED
      BY <2>3, <3>1
  <2>. QED
    BY <2>1, <2>2, <2>4 DEF RingInv
<1>9. CASE Tick \/ OtherLock \/ Forget \/ UNCHANGED vars
  <2>1. UNCHANGED <<audit, sealed, cut, pc>>
    BY <1>9 DEF Tick, OtherLock, Forget, vars
  <2>. QED
    BY <2>1, RingQuiet DEF Halfway
<1>. QED
  BY <1>1, <1>2, <1>3, <1>4, <1>5, <1>6, <1>7, <1>8, <1>9 DEF Next, Step, Guard

LEMMA RingAlways ==
    ASSUME MaxOverlap <= MaxAudit
    PROVE  Safety => []AuditAgrees
<1>1. Init => OverlapInv /\ RingInv
  <2> SUFFICES ASSUME Init PROVE OverlapInv /\ RingInv
    OBVIOUS
  <2>1. Overlapping = {} /\ Len(audit) = 0 /\ ~sealed
    BY DEF Init, Overlapping
  <2>2. Cardinality(Overlapping) = 0 /\ IsFiniteSet(Overlapping)
    BY <2>1, FS_EmptySet
  <2>3. \A x \in Delivery : pc[x] = "idle"
    BY DEF Init
  <2>. QED
    BY <2>1, <2>2, <2>3, GateAssumption DEF OverlapInv, RingInv
<1>2. Types /\ GateLockOwnership /\ SealInv /\ OverlapInv /\ RingInv /\ [Next]_vars
         => OverlapInv' /\ RingInv'
  BY OverlapStep, RingStep
<1>3. Types /\ GateLockOwnership /\ RingInv => AuditAgrees
  <2> SUFFICES ASSUME Types, GateLockOwnership, RingInv, lock \notin Delivery,
                      cut \cap {"seal_audit", "unseal_zero", "unseal_audit"} = {}
               PROVE  sealed <=> SaysSealed
    BY DEF AuditAgrees
  <2>1. ~Halfway
    BY DEF Halfway, Pending, GateLockOwnership, Inside
  <2>2. Len(audit) \in Nat
    BY DEF Types, GuardTypes
  <2>3. ASSUME sealed PROVE SaysSealed
    <3>1. PICK i \in 1..Len(audit) : StandsAt(i)
      BY <2>1, <2>3 DEF RingInv
    <3>2. i \in SealEvents /\ audit[i] = "sealed"
      BY <3>1 DEF SealEvents, StandsAt
    <3>3. ASSUME NEW j \in SealEvents PROVE j <= i
      BY <2>2, <3>1, <3>3 DEF SealEvents, StandsAt
    <3>. QED
      BY <3>2, <3>3 DEF SaysSealed
  <2>4. ASSUME SaysSealed PROVE sealed
    <3>1. SUFFICES ASSUME ~sealed PROVE FALSE
      OBVIOUS
    <3>2. PICK i \in SealEvents : audit[i] = "sealed" /\ \A j \in SealEvents : j <= i
      BY <2>4 DEF SaysSealed
    <3>3. PICK j \in 1..Len(audit) : j > i /\ audit[j] = "unsealed"
      BY <2>1, <3>1, <3>2 DEF RingInv, SealEvents
    <3>4. j \in SealEvents /\ i \in 1..Len(audit)
      BY <3>2, <3>3 DEF SealEvents
    <3>. QED
      BY <2>2, <3>2, <3>3, <3>4
  <2>. QED
    BY <2>3, <2>4
<1>. QED
  BY SealInvAlways, <1>1, <1>2, <1>3, PTL DEF Safety

(* The owner who reads LOG sees the truth about the seal, provided that the *)
(* ring has room for one entry of every delivery in progress: the code      *)
(* keeps 20 (SecurityVault._appendAudit).                                   *)
THEOREM AuditAgreesHolds == MaxOverlap <= MaxAudit => (Spec => []AuditAgrees)
<1>1. ASSUME MaxOverlap <= MaxAudit PROVE Safety => []AuditAgrees
  BY <1>1, RingAlways
<1>. QED
  BY <1>1, SpecIsSafe
=================================================================================
