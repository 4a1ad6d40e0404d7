----------------------------- MODULE Webhook_proofs -----------------------------
(***************************************************************************)
(* All of doPost does what its two parts do.  Seen from the gate, a command *)
(* in its own section is one of the lock's other users; seen from the       *)
(* commands, a section of the gate is.  With the lock read that way, every  *)
(* step of the webhook is a step of the gate, so that whatever is proved of *)
(* the gate alone holds behind the whole of doPost.                         *)
(***************************************************************************)
EXTENDS WebhookProps, TLAPS

(* The section a command has of its own. *)
Section == {"read", "write", "release"}

(* The lock, as the gate sees it.                                           *)
glock == IF lock \in Delivery /\ wpc[lock] \in Section THEN Other ELSE lock

G == INSTANCE Gate_proofs WITH lock <- glock

(* A command is at work only when its delivery is past the gate, and inside *)
(* its section only with the lock.                                          *)
Joint == /\ lock \in Delivery \cup {NoOne, Other}
         /\ wpc \in [Delivery -> W!Locations]
         /\ \A x \in Delivery : wpc[x] # "idle" => pc[x] = "send"
         /\ \A x \in Delivery : wpc[x] \in Section => lock = x

WInv == Joint /\ G!Types /\ G!GateLockOwnership

WSafety == WInit /\ [][WNext]_all

-----------------------------------------------------------------------------
(* A step that leaves the lock alone, and moves no command over the edge of *)
(* its section, leaves the gate's lock alone.                               *)
LEMMA GateLockSame ==
    ASSUME lock' = lock,
           lock \in Delivery => (wpc'[lock] \in Section <=> wpc[lock] \in Section)
    PROVE  glock' = glock
BY DEF glock

(* The library's operator, seen through the instance.                       *)
LEMMA SameCardinality == \A S : G!Cardinality(S) = Cardinality(S)
BY DEF G!Cardinality, Cardinality

(* The gate's own steps.                                                    *)
LEMMA GuardStep ==
    ASSUME WInv, NEW x \in Delivery, Guard(x), UNCHANGED <<list, wrote>>
    PROVE  G!Guard(x) /\ Joint'
<1> USE GateAssumption DEF At, G!At, Goto, G!Goto, ReleaseTo, G!ReleaseTo,
        memory, guard, local, G!memory, G!guard, G!local
<1>0. pc \in [Delivery -> G!Locations] /\ wpc' = wpc /\ wpc \in [Delivery -> W!Locations]
  BY DEF WInv, Joint, G!Types, G!PlaceTypes, list
<1>1. ASSUME lock' = lock PROVE glock' = glock
  BY <1>0, <1>1 DEF glock
<1>2. ASSUME lock' = lock, pc[x] # "send", \A y \in Delivery \ {x} : pc'[y] = pc[y]
      PROVE  Joint'
  BY <1>0, <1>2 DEF WInv, Joint
<1>3. CASE Authorize(x)
  <2>1. G!Authorize(x)
    BY <1>1, <1>3 DEF Authorize, G!Authorize, Identify, G!Identify
  <2>2. lock' = lock /\ pc[x] = "gate" /\ \E l \in G!Locations : pc' = [pc EXCEPT ![x] = l]
    BY <1>3 DEF Authorize, Identify, G!Locations, G!Waiting, G!Over
  <2>. QED
    BY <1>0, <1>2, <2>1, <2>2 DEF G!Guard
<1>4. CASE Acquire(x)
  <2>1. pc[x] \in Waiting /\ lock = NoOne /\ lock' = x /\ pc' = [pc EXCEPT ![x] = Entered[pc[x]]]
        /\ UNCHANGED <<memory, guard, then, local>>
    BY <1>4 DEF Acquire
  <2>2. wpc[x] \notin Section /\ \A y \in Delivery : wpc[y] \notin Section
    BY <2>1 DEF WInv, Joint
  <2>3. glock = NoOne /\ glock' = x
    BY <1>0, <2>1, <2>2 DEF glock
  <2>4. G!Acquire(x)
    BY <2>1, <2>3 DEF G!Acquire, G!Waiting, Waiting, G!Entered, Entered
  <2>5. Joint'
    BY <1>0, <2>1, <2>2 DEF WInv, Joint, Waiting
  <2>. QED
    BY <2>4, <2>5 DEF G!Guard
<1>5. CASE Busy(x)
  <2>1. glock # NoOne /\ glock' = glock
    BY <1>1, <1>5 DEF glock, Busy
  <2>2. G!Busy(x)
    BY <1>5, <2>1 DEF Busy, G!Busy, Waiting, G!Waiting
  <2>3. lock' = lock /\ pc[x] # "send" /\ \E l \in G!Locations : pc' = [pc EXCEPT ![x] = l]
    BY <1>5 DEF Busy, Waiting, G!Locations, G!Waiting, G!Over
  <2>. QED
    BY <1>0, <1>2, <2>2, <2>3 DEF G!Guard
<1>6. CASE Release(x)
  <2>1. pc[x] = "release" /\ lock' = NoOne /\ pc' = [pc EXCEPT ![x] = then[x]]
        /\ UNCHANGED <<memory, guard, then, local>>
    BY <1>6 DEF Release
  <2>2. glock = x /\ lock = x
    BY <2>1 DEF WInv, G!GateLockOwnership, G!Inside, glock
  <2>3. wpc[x] = "idle" /\ \A y \in Delivery : wpc[y] \notin Section
    BY <2>1, <2>2 DEF WInv, Joint, Section
  <2>4. glock' = NoOne
    BY <2>1 DEF glock
  <2>5. G!Release(x)
    BY <2>1, <2>4 DEF G!Release
  <2>6. Joint'
    BY <1>0, <2>1, <2>3 DEF WInv, Joint
  <2>. QED
    BY <2>5, <2>6 DEF G!Guard
<1>7. CASE SidCheck(x)
  <2>1. G!SidCheck(x)
    BY <1>1, <1>7 DEF SidCheck, G!SidCheck
  <2>2. lock' = lock /\ pc[x] = "sid_check" /\ \E l \in {"sid_write", "release"} : pc' = [pc EXCEPT ![x] = l]
    BY <1>7 DEF SidCheck
  <2>. QED
    BY <1>0, <1>2, <2>1, <2>2 DEF G!Guard
<1>8. CASE SidWrite(x)
  <2>1. G!SidWrite(x)
    <3>1. G!NewestOf(fresh[x] \cup {Len(granted) + 1}) = NewestOf(fresh[x] \cup {Len(granted) + 1})
      BY SameCardinality DEF NewestOf, G!NewestOf
    <3>. QED
      BY <1>1, <1>8, <3>1 DEF SidWrite, G!SidWrite
  <2>. QED
    BY <1>0, <1>2, <1>8, <2>1 DEF SidWrite, G!Guard
<1>9. CASE ReplayAudit(x)
  <2>1. G!ReplayAudit(x)
    BY <1>1, <1>9 DEF ReplayAudit, G!ReplayAudit, Noted, G!Noted
  <2>. QED
    BY <1>0, <1>2, <1>9, <2>1 DEF ReplayAudit, G!Guard
<1>10. CASE CountRead(x)
  <2>1. G!CountRead(x)
    BY <1>1, <1>10 DEF CountRead, G!CountRead
  <2>. QED
    BY <1>0, <1>2, <1>10, <2>1 DEF CountRead, G!Guard
<1>11. CASE CountWrite(x)
  <2>1. G!CountWrite(x)
    BY <1>1, <1>11 DEF CountWrite, G!CountWrite
  <2>. QED
    BY <1>0, <1>2, <1>11, <2>1 DEF CountWrite, G!Guard
<1>12. CASE CountAudit(x)
  <2>1. G!CountAudit(x)
    BY <1>1, <1>12 DEF CountAudit, G!CountAudit, Noted, G!Noted
  <2>. QED
    BY <1>0, <1>2, <1>12, <2>1 DEF CountAudit, G!Guard
<1>13. CASE SealTest(x)
  <2>1. G!SealTest(x)
    BY <1>1, <1>13 DEF SealTest, G!SealTest
  <2>. QED
    BY <1>0, <1>2, <1>13, <2>1 DEF SealTest, G!Guard
<1>14. CASE Seal(x)
  <2>1. G!Seal(x)
    BY <1>1, <1>14 DEF Seal, G!Seal
  <2>. QED
    BY <1>0, <1>2, <1>14, <2>1 DEF Seal, G!Guard
<1>15. CASE SealAudit(x)
  <2>1. G!SealAudit(x)
    BY <1>1, <1>15 DEF SealAudit, G!SealAudit, Noted, G!Noted
  <2>. QED
    BY <1>0, <1>2, <1>15, <2>1 DEF SealAudit, G!Guard
<1>16. CASE ResetRead(x)
  <2>1. G!ResetRead(x)
    BY <1>1, <1>16 DEF ResetRead, G!ResetRead
  <2>. QED
    BY <1>0, <1>2, <1>16, <2>1 DEF ResetRead, G!Guard
<1>17. CASE Reset(x)
  <2>1. G!Reset(x)
    BY <1>1, <1>17 DEF Reset, G!Reset, Cleared, G!Cleared
  <2>. QED
    BY <1>0, <1>2, <1>17, <2>1 DEF Reset, G!Guard
<1>18. CASE Unseal(x)
  <2>1. G!Unseal(x)
    BY <1>1, <1>18 DEF Unseal, G!Unseal
  <2>. QED
    BY <1>0, <1>2, <1>18, <2>1 DEF Unseal, G!Guard
<1>19. CASE UnsealZero(x)
  <2>1. G!UnsealZero(x)
    BY <1>1, <1>19 DEF UnsealZero, G!UnsealZero, Cleared, G!Cleared
  <2>. QED
    BY <1>0, <1>2, <1>19, <2>1 DEF UnsealZero, G!Guard
<1>20. CASE UnsealAudit(x)
  <2>1. G!UnsealAudit(x)
    BY <1>1, <1>20 DEF UnsealAudit, G!UnsealAudit, Noted, G!Noted
  <2>. QED
    BY <1>0, <1>2, <1>20, <2>1 DEF UnsealAudit, G!Guard
<1>21. CASE Notice(x)
  <2>1. G!Notice(x)
    BY <1>1, <1>21 DEF Notice, G!Notice
  <2>. QED
    BY <1>0, <1>2, <1>21, <2>1 DEF Notice, G!Guard
<1>. QED
  BY <1>3, <1>4, <1>5, <1>6, <1>7, <1>8, <1>9, <1>10, <1>11, <1>12, <1>13, <1>14, <1>15, <1>16,
     <1>17, <1>18, <1>19, <1>20, <1>21 DEF Guard

(* A delivery is handed on, or answered by the gate itself.                 *)
LEMMA ServeStep ==
    ASSUME WInv, NEW x \in Delivery, HandOn(x) \/ Answer(x)
    PROVE  G!Serve(x) /\ Joint'
<1> USE GateAssumption DEF At, G!At, Goto, G!Goto, memory, guard, local, G!memory, G!guard, G!local
<1>0. pc \in [Delivery -> G!Locations] /\ wpc \in [Delivery -> W!Locations]
  BY DEF WInv, Joint, G!Types, G!PlaceTypes
<1>1. /\ Serve(x) /\ lock' = lock /\ pc[x] = "serve" /\ pc' = [pc EXCEPT ![x] = "send"]
      /\ \/ wpc[x] = "idle" /\ wpc' = [wpc EXCEPT ![x] = "dispatch"]
         \/ wpc' = wpc
  BY DEF HandOn, Answer, Serve, W!Receive, W!At, W!Goto, list
<1>2. glock' = glock
  BY <1>0, <1>1 DEF glock, Section
<1>3. G!Serve(x)
  BY <1>1, <1>2 DEF Serve, G!Serve
<1>4. Joint'
  BY <1>0, <1>1 DEF WInv, Joint, Section, W!Locations
<1>. QED
  BY <1>3, <1>4

(* A command at work.                                                       *)
LEMMA WorkStep ==
    ASSUME WInv, NEW x \in Delivery, Work(x) \/ Change(x)
    PROVE  (G!OtherLock \/ UNCHANGED G!vars) /\ Joint'
<1> USE GateAssumption DEF memory, guard, local, G!memory, G!guard, G!local, W!At, W!Goto
<1>0. /\ pc \in [Delivery -> G!Locations] /\ wpc \in [Delivery -> W!Locations]
      /\ UNCHANGED <<memory, guard, pc, then, local>>
  BY DEF WInv, Joint, G!Types, G!PlaceTypes, Work, Change, gate
<1>1. CASE W!Acquire(x)
  <2>1. /\ lock = NoOne /\ lock' = x /\ wpc[x] = "lock"
        /\ \E l \in {"read", "write"} : wpc' = [wpc EXCEPT ![x] = l]
    BY <1>1 DEF W!Acquire
  <2>2. glock = NoOne /\ glock' = Other
    BY <1>0, <2>1 DEF glock, Section
  <2>3. Joint'
    BY <1>0, <2>1 DEF WInv, Joint, Section, W!Locations
  <2>. QED
    BY <1>0, <2>2, <2>3 DEF G!OtherLock
<1>2. CASE W!Release(x)
  <2>1. lock' = NoOne /\ wpc[x] = "release" /\ wpc' = [wpc EXCEPT ![x] = "send"]
    BY <1>2 DEF W!Release
  <2>2. lock = x /\ glock = Other /\ glock' = NoOne
    BY <1>0, <2>1 DEF WInv, Joint, glock, Section
  <2>3. Joint'
    BY <1>0, <2>1, <2>2 DEF WInv, Joint, Section, W!Locations
  <2>. QED
    BY <1>0, <2>2, <2>3 DEF G!OtherLock
<1>3. CASE ~W!Acquire(x) /\ ~W!Release(x)
  <2>1. /\ lock' = lock /\ wpc[x] # "idle"
        /\ \E l \in W!Locations : wpc' = [wpc EXCEPT ![x] = l] /\ (l \in Section <=> wpc[x] \in Section)
    <3>1. CASE W!Dispatch(x) \/ W!Has(x) \/ W!IsFull(x) \/ W!QuotesFor(x) \/ W!Busy(x)
      BY <3>1 DEF W!Dispatch, W!Has, W!IsFull, W!QuotesFor, W!Busy, W!Locations, Section
    <3>2. CASE W!ReadUnderLock(x) \/ W!Write(x) \/ W!ListTickers(x) \/ W!ListFlag(x)
      BY <3>2 DEF W!ReadUnderLock, W!Write, W!ListTickers, W!ListFlag, W!Locations, Section
    <3>. QED
      BY <1>3, <3>1, <3>2 DEF Work, Change
  <2>2. glock' = glock
    BY <1>0, <2>1 DEF glock
  <2>3. Joint'
    BY <1>0, <2>1 DEF WInv, Joint
  <2>. QED
    BY <1>0, <2>2, <2>3 DEF G!vars
<1>. QED
  BY <1>1, <1>2, <1>3

(* The end of an execution, by its reply or by its death.                   *)
LEMMA EndStep ==
    ASSUME WInv, NEW x \in Delivery, Reply(x) \/ Perish(x)
    PROVE  (G!Send(x) \/ G!Die(x) \/ G!DieInCommand(x)) /\ Joint'
<1> USE GateAssumption DEF At, G!At, Goto, G!Goto, memory, guard, local, G!memory, G!guard, G!local,
                           W!At, W!Goto
<1>0. /\ pc \in [Delivery -> G!Locations] /\ wpc \in [Delivery -> W!Locations]
      /\ lock \in Delivery \cup {NoOne, Other}
  BY DEF WInv, Joint, G!Types, G!PlaceTypes
<1>1. /\ \E l \in {"over", "dead"} : pc' = [pc EXCEPT ![x] = l]
      /\ wpc' = [wpc EXCEPT ![x] = "idle"]
  BY <1>0 DEF Reply, Perish, Send, Die, W!SendReply, W!Die, W!End, list
<1>2. CASE Reply(x)
  <2>1. lock' = lock /\ pc[x] = "send" /\ wpc[x] \notin Section
    BY <1>2 DEF Reply, Send, Section
  <2>2. glock' = glock
    BY <1>0, <1>1, <2>1 DEF glock, Section
  <2>3. G!Send(x)
    BY <1>2, <2>2 DEF Reply, Send, G!Send
  <2>4. Joint'
    BY <1>0, <1>1, <2>1 DEF WInv, Joint, Section, W!Locations
  <2>. QED
    BY <2>3, <2>4
<1>3. CASE Perish(x) /\ wpc[x] \in Section
  <2>1. lock = x /\ lock' = NoOne /\ pc[x] = "send"
    BY <1>3 DEF WInv, Joint, Perish, Die, Section
  <2>2. glock = Other /\ glock' = NoOne
    BY <1>3, <2>1 DEF glock
  <2>3. G!DieInCommand(x)
    <3>1. cut' = cut
      BY <1>3, <2>1 DEF Perish, Die, Inside
    <3>2. UNCHANGED <<memory, guard, then, local>> /\ pc' = [pc EXCEPT ![x] = "dead"]
      BY <1>3, <3>1 DEF Perish, Die
    <3>. QED
      BY <2>1, <2>2, <3>2 DEF G!DieInCommand
  <2>4. Joint'
    BY <1>0, <1>1, <1>3, <2>1 DEF WInv, Joint, Section, W!Locations
  <2>. QED
    BY <2>3, <2>4
<1>4. CASE Perish(x) /\ wpc[x] \notin Section
  <2>1. lock' = IF lock = x THEN NoOne ELSE lock
    BY <1>4 DEF Perish, Die
  <2>2. glock' = IF glock = x THEN NoOne ELSE glock
    BY <1>0, <1>1, <1>4, <2>1 DEF glock, Section
  <2>3. G!Die(x)
    BY <1>4, <2>2 DEF Perish, Die, G!Die, Overlapping, G!Overlapping, Over, G!Over, Inside, G!Inside
  <2>4. Joint'
    BY <1>0, <1>1, <1>4, <2>1 DEF WInv, Joint, Section, W!Locations
  <2>. QED
    BY <2>3, <2>4
<1>. QED
  BY <1>2, <1>3, <1>4

LEMMA EnvironmentStep ==
    ASSUME WInv, Environment
    PROVE  (G!Tick \/ G!OtherLock \/ G!Forget) /\ Joint'
<1> USE GateAssumption DEF memory, guard, local, G!memory, G!guard, G!local
<1>1. UNCHANGED <<pc, wpc>>
  BY DEF Environment, Tick, OtherLock, Forget, list
<1>2. CASE Tick \/ Forget
  <2>1. lock' = lock
    BY <1>2 DEF Tick, Forget
  <2>2. glock' = glock
    BY <1>1, <2>1 DEF glock
  <2>3. G!Tick \/ G!Forget
    BY <1>2, <2>2 DEF Tick, Forget, G!Tick, G!Forget
  <2>. QED
    BY <1>1, <2>1, <2>3 DEF WInv, Joint
<1>3. CASE OtherLock
  <2>1. /\ \/ lock = NoOne /\ lock' = Other
           \/ lock = Other /\ lock' = NoOne
        /\ UNCHANGED <<memory, guard, pc, then, local>>
    BY <1>3 DEF OtherLock
  <2>2. glock = lock /\ glock' = lock'
    BY <2>1 DEF glock
  <2>3. G!OtherLock
    BY <2>1, <2>2 DEF G!OtherLock
  <2>4. Joint'
    BY <1>1, <2>1 DEF WInv, Joint
  <2>. QED
    BY <2>3, <2>4
<1>. QED
  BY <1>2, <1>3 DEF Environment

LEMMA WebhookStep ==
    ASSUME WInv, [WNext]_all
    PROVE  [G!Next]_(G!vars) /\ Joint'
<1>1. ASSUME NEW x \in Delivery, NEW t \in Text, Deliver(x, t)
      PROVE  G!Arrive(x, t) /\ Joint'
  <2>1. /\ Arrive(x, t) /\ lock' = lock /\ pc[x] = "idle" /\ pc' = [pc EXCEPT ![x] = "gate"]
        /\ wpc' = wpc
    BY <1>1 DEF Deliver, Arrive, At, Goto, list
  <2>2. glock' = glock
    BY <2>1 DEF glock
  <2>3. G!Arrive(x, t)
    BY <2>1, <2>2, SameCardinality DEF Arrive, G!Arrive, At, G!At, Goto, G!Goto, memory, guard, G!memory, G!guard,
                      Overlapping, G!Overlapping, Over, G!Over
  <2>4. Joint'
    BY <2>1 DEF WInv, Joint, G!Types, G!PlaceTypes
  <2>. QED
    BY <2>3, <2>4
<1>2. ASSUME NEW x \in Delivery, Run(x) \/ Perish(x)
      PROVE  (G!Step(x) \/ G!Die(x) \/ G!DieInCommand(x) \/ G!OtherLock \/ UNCHANGED G!vars) /\ Joint'
  BY <1>2, GuardStep, ServeStep, WorkStep, EndStep DEF Run, Authorized, G!Step
<1>3. CASE UNCHANGED all
  BY <1>3 DEF all, vars, list, memory, guard, local, G!vars, G!memory, G!guard, G!local, glock,
              WInv, Joint
<1>. QED
  BY <1>1, <1>2, <1>3, EnvironmentStep DEF WNext, G!Next

LEMMA GateHypothesis == G!GateAssumption
BY GateAssumption DEF G!GateAssumption, G!Kinds, Kinds

LEMMA WInvInit == WInit => WInv /\ G!Init
<1> SUFFICES ASSUME WInit PROVE WInv /\ G!Init
  OBVIOUS
<1>1. Joint
  BY GateAssumption DEF WInit, Init, W!Init, Joint, W!Locations, Section
<1>2. G!Init
  <2>1. glock = NoOne
    BY GateAssumption DEF WInit, Init, glock
  <2>. QED
    BY <2>1 DEF WInit, Init, G!Init
<1>3. G!Types
  BY <1>2, G!TypesInit, GateAssumption DEF G!Kinds, Kinds
<1>4. G!GateLockOwnership
  BY <1>2, GateAssumption DEF G!Init, G!GateLockOwnership, G!Inside
<1>. QED
  BY <1>1, <1>2, <1>3, <1>4 DEF WInv

LEMMA WInvStep ==
    ASSUME WInv, [WNext]_all
    PROVE  WInv'
<1>1. [G!Next]_(G!vars) /\ Joint'
  BY WebhookStep
<1>2. G!Types'
  BY <1>1, G!PlaceTypesStep, G!GuardTypesStep, G!MemoryTypesStep, GateAssumption
     DEF WInv, G!Types, G!Kinds, Kinds
<1>3. G!GateLockOwnership'
  BY <1>1, G!OwnershipStep, GateAssumption DEF WInv, G!Kinds, Kinds
<1>. QED
  BY <1>1, <1>2, <1>3 DEF WInv

LEMMA WInvAlways == WSafety => []WInv
BY WInvInit, WInvStep, PTL DEF WSafety

(* Every run of the webhook is a run of the gate.                           *)
LEMMA WebhookIsGate == WSafety => G!Safety
<1>1. WInv /\ [WNext]_all => [G!Next]_(G!vars)
  BY WebhookStep
<1>. QED
  BY WInvInit, WInvAlways, <1>1, PTL DEF WSafety, G!Safety

LEMMA WSpecIsSafe == WSpec => WSafety
BY DEF WSpec, WSafety

(* doPost implements the gate: the commands behind it, their sections and   *)
(* their deaths add nothing that the gate could not do by itself.           *)
THEOREM WebhookImplementsGate == WSpec => G!Init /\ [][G!Next]_(G!vars)
BY WebhookIsGate, WSpecIsSafe DEF G!Safety

(* So all that holds of the gate holds of doPost: repeats, the seal, the    *)
(* count, the notice and the confirmation (SecurityGate in CommandHandler). *)
THEOREM GateCarriesOver ==
    WSpec => [](/\ G!RepeatsAreOld /\ G!NoticePerSeal /\ G!SealOnTime
                /\ G!NoFailureLost /\ G!ConfirmationsAreTrue)
<1>1. G!Safety => []G!NoticePerSeal
  BY G!NoticeAlways, GateAssumption DEF G!Kinds, Kinds
<1>2. G!Safety => []G!ConfirmationsAreTrue
  BY G!ConfirmationsAlways, GateAssumption DEF G!Kinds, Kinds
<1>3. G!Safety => [](G!Types /\ G!GateLockOwnership /\ G!SealInv)
  BY G!SealInvAlways, GateAssumption DEF G!Kinds, Kinds
<1>4. G!SealInv => G!SealOnTime /\ G!NoFailureLost
  BY DEF G!SealInv
<1>5. G!Safety => []G!RepeatsAreOld
  BY G!RepeatsAlways, GateAssumption DEF G!Kinds, Kinds
<1>. QED
  BY WebhookIsGate, WSpecIsSafe, <1>1, <1>2, <1>3, <1>4, <1>5, PTL

-----------------------------------------------------------------------------
(* Behind the gate.  Whoever is at work on a command, or has written, came  *)
(* in while the bot was open and was let through.                           *)
Past == {"send", "over", "dead"}
WorkInv == \A x \in Delivery :
    wpc[x] # "idle" \/ x \in wrote =>
       /\ pc[x] \in Past /\ answer[x] = "served"
       /\ KindOf[text[x]] = "command" /\ route[x] = "open"

(* What the gate does of a delivery is done before it is past.              *)
LEMMA GuardTouches ==
    ASSUME WInv, NEW x \in Delivery, Guard(x)
    PROVE  /\ pc[x] \notin Past /\ text' = text
           /\ \A y \in Delivery \ {x} : pc'[y] = pc[y] /\ answer'[y] = answer[y] /\ route'[y] = route[y]
<1> USE DEF At, Goto, ReleaseTo, guard, local, memory, Past
<1>0. /\ pc \in [Delivery -> G!Locations] /\ answer \in [Delivery -> G!Answers]
      /\ route \in [Delivery -> {"none", "open", "closed"}]
  BY DEF WInv, G!Types, G!PlaceTypes
<1>1. CASE Authorize(x)
  <2>1. /\ pc[x] = "gate" /\ UNCHANGED <<text, answer>>
        /\ route' = [route EXCEPT ![x] = IF sealed THEN "closed" ELSE "open"]
        /\ \E l \in G!Locations : pc' = [pc EXCEPT ![x] = l]
    BY <1>1 DEF Authorize, Identify, G!Locations, G!Waiting, G!Over
  <2>. QED
    BY <1>0, <2>1
<1>2. CASE Acquire(x) \/ Busy(x) \/ Release(x)
  <2>1. /\ pc[x] \in Waiting \cup {"release"} /\ UNCHANGED <<text, answer, route>>
        /\ \A y \in Delivery \ {x} : pc'[y] = pc[y]
    <3>1. CASE Acquire(x)
      BY <1>0, <3>1 DEF Acquire
    <3>2. CASE Busy(x)
      BY <1>0, <3>2 DEF Busy
    <3>3. CASE Release(x)
      BY <1>0, <3>3 DEF Release
    <3>. QED
      BY <1>2, <3>1, <3>2, <3>3
  <2>. QED
    BY <2>1 DEF Waiting
<1>3. CASE SidCheck(x)
  <2>1. pc[x] = "sid_check" /\ UNCHANGED <<text, answer, route>>
    BY <1>3 DEF SidCheck
  <2>2. \E l \in {"sid_write", "release"} : pc' = [pc EXCEPT ![x] = l]
    BY <1>3 DEF SidCheck
  <2>. QED
    BY <1>0, <2>1, <2>2
<1>4. CASE SidWrite(x) \/ ReplayAudit(x) \/ CountRead(x) \/ CountWrite(x) \/ CountAudit(x)
  BY <1>0, <1>4 DEF SidWrite, ReplayAudit, CountRead, CountWrite, CountAudit
<1>5. CASE SealTest(x) \/ Seal(x) \/ SealAudit(x) \/ ResetRead(x) \/ Reset(x)
  BY <1>0, <1>5 DEF SealTest, Seal, SealAudit, ResetRead, Reset
<1>6. CASE Unseal(x) \/ UnsealZero(x) \/ UnsealAudit(x) \/ Notice(x)
  BY <1>0, <1>6 DEF Unseal, UnsealZero, UnsealAudit, Notice
<1>. QED
  BY <1>1, <1>2, <1>3, <1>4, <1>5, <1>6 DEF Guard

LEMMA WorkInvStep ==
    ASSUME WInv, G!MemoryInv, WorkInv, [WNext]_all
    PROVE  WorkInv'
<1> USE DEF At, Goto, Past
<1>0. /\ pc \in [Delivery -> G!Locations] /\ answer \in [Delivery -> G!Answers]
      /\ route \in [Delivery -> {"none", "open", "closed"}]
      /\ wpc \in [Delivery -> W!Locations]
      /\ text \in [Delivery -> Text \cup {NoText}]
  BY DEF WInv, Joint, G!Types, G!PlaceTypes
<1>1. ASSUME NEW x \in Delivery, NEW t \in Text, Deliver(x, t) PROVE WorkInv'
  <2>1. /\ pc[x] = "idle" /\ pc' = [pc EXCEPT ![x] = "gate"] /\ text' = [text EXCEPT ![x] = t]
        /\ UNCHANGED <<answer, route, wpc, wrote>>
    BY <1>1 DEF Deliver, Arrive, list
  <2>. QED
    BY <1>0, <2>1 DEF WorkInv
<1>2. ASSUME NEW x \in Delivery, Authorized(x) PROVE WorkInv'
  <2>1. Guard(x) /\ UNCHANGED <<wpc, wrote>>
    BY <1>2 DEF Authorized, list
  <2>. QED
    BY <2>1, GuardTouches DEF WorkInv
<1>3. ASSUME NEW x \in Delivery, Answer(x) PROVE WorkInv'
  <2>1. /\ pc[x] = "serve" /\ UNCHANGED <<text, route, wpc, wrote>>
        /\ \A y \in Delivery \ {x} : pc'[y] = pc[y] /\ answer'[y] = answer[y]
    BY <1>0, <1>3 DEF Answer, Serve, list
  <2>. QED
    BY <2>1 DEF WorkInv
<1>4. ASSUME NEW x \in Delivery, HandOn(x) PROVE WorkInv'
  <2>1. /\ pc[x] = "serve" /\ UNCHANGED <<text, route, wrote>>
        /\ KindOf[text[x]] = "command" /\ pc'[x] = "send"
        /\ answer' = [answer EXCEPT ![x] = CASE KindOf[text[x]] \in {"unlock", "mistyped"} -> "unlocked"
                                              [] KindOf[text[x]] = "log" -> "log"
                                              [] KindOf[text[x]] \notin {"unlock", "mistyped", "log"} -> "served"]
        /\ \A y \in Delivery \ {x} : pc'[y] = pc[y] /\ wpc'[y] = wpc[y]
    BY <1>0, <1>4 DEF HandOn, Serve, W!Receive, W!Goto
  <2>2. route[x] = "open"
    BY <1>0, <2>1 DEF G!MemoryInv, G!PassInv, G!Over
  <2>3. answer' = [answer EXCEPT ![x] = "served"]
    BY <2>1
  <2>. QED
    BY <1>0, <2>1, <2>2, <2>3 DEF WorkInv
<1>5. ASSUME NEW x \in Delivery, Work(x) \/ Change(x) PROVE WorkInv'
  <2>1. UNCHANGED <<pc, text, answer, route>> /\ wrote' \subseteq wrote \cup {x}
    BY <1>5 DEF Work, Change, gate, local
  <2>2. wpc[x] # "idle" /\ \A y \in Delivery \ {x} : wpc'[y] = wpc[y]
    <3>1. CASE W!Dispatch(x) \/ W!Has(x) \/ W!IsFull(x) \/ W!QuotesFor(x) \/ W!Acquire(x)
      BY <1>0, <3>1 DEF W!Dispatch, W!Has, W!IsFull, W!QuotesFor, W!Acquire, W!At, W!Goto
    <3>2. CASE \/ W!Busy(x) \/ W!ReadUnderLock(x) \/ W!Write(x) \/ W!Release(x)
               \/ W!ListTickers(x) \/ W!ListFlag(x)
      BY <1>0, <3>2 DEF W!Busy, W!ReadUnderLock, W!Write, W!Release, W!ListTickers, W!ListFlag,
                        W!At, W!Goto
    <3>. QED
      BY <1>5, <3>1, <3>2 DEF Work, Change
  <2>. QED
    BY <2>1, <2>2 DEF WorkInv
<1>6. ASSUME NEW x \in Delivery, Reply(x) \/ Perish(x) PROVE WorkInv'
  <2>1. /\ UNCHANGED <<text, answer, route, wrote>>
        /\ \E l \in {"over", "dead"} : pc' = [pc EXCEPT ![x] = l]
    BY <1>6 DEF Reply, Perish, Send, Die, local
  <2>2. wpc' = [wpc EXCEPT ![x] = "idle"]
    BY <1>0, <1>6 DEF Reply, Perish, W!SendReply, W!Die, W!End, W!Goto, list
  <2>. QED
    BY <1>0, <2>1, <2>2 DEF WorkInv
<1>7. CASE Environment \/ UNCHANGED all
  <2>1. UNCHANGED <<pc, text, answer, route, wpc, wrote>>
    BY <1>7 DEF Environment, Tick, OtherLock, Forget, all, vars, local, list
  <2>. QED
    BY <2>1 DEF WorkInv
<1>. QED
  BY <1>1, <1>2, <1>3, <1>4, <1>5, <1>6, <1>7 DEF WNext, Run

LEMMA WorkAlways == WSafety => [](WInv /\ G!MemoryInv /\ WorkInv)
<1>1. WInit => WorkInv
  BY DEF WInit, W!Init, WorkInv
<1>2. G!Safety => [](G!Types /\ G!GateLockOwnership /\ G!MemoryInv)
  BY G!MemoryAlways, GateAssumption DEF G!Kinds, Kinds
<1>. QED
  BY WInvAlways, WebhookIsGate, <1>1, <1>2, WorkInvStep, PTL DEF WSafety

(* Twilio delivers twice, executions overlap and die, and still the list is *)
(* written once for a text, as long as the replay memory remembers its id   *)
(* (checkAndRecordSid in front of Watchlist.add and remove).                *)
THEOREM WrittenOnceHolds == WSpec => []WrittenOnce
<1>1. G!Safety => []G!RepeatsAreOld
  BY G!RepeatsAlways, GateAssumption DEF G!Kinds, Kinds
<1>2. WInv /\ WorkInv /\ G!RepeatsAreOld /\ wrote \subseteq Delivery => WrittenOnce
  <2> SUFFICES ASSUME WorkInv, G!RepeatsAreOld, wrote \subseteq Delivery,
                      NEW x \in wrote, NEW y \in wrote, x # y, text[x] = text[y]
               PROVE  \E i, j \in 1..Len(granted) :
                         /\ {granted[i].by, granted[j].by} = {x, y}
                         /\ i < j
                         /\ \/ granted[j].at - granted[i].at >= Ttl
                            \/ j - i > MaxSids
                            \/ i <= lost
    BY DEF WrittenOnce
  <2>1. G!LetThrough(x) /\ G!LetThrough(y)
    BY DEF WorkInv, G!LetThrough
  <2>. QED
    BY <2>1 DEF G!RepeatsAreOld
<1>3. WInit => wrote \subseteq Delivery
  BY DEF WInit
<1>4. wrote \subseteq Delivery /\ [WNext]_all => (wrote \subseteq Delivery)'
  BY DEF WNext, Run, Deliver, Authorized, Answer, HandOn, Work, Change, Reply, Perish, Environment, all
<1>. QED
  BY WSpecIsSafe, WorkAlways, WebhookIsGate, <1>1, <1>2, <1>3, <1>4, PTL DEF WSafety

(* The list and the flag are changed only by a command of the recipient's   *)
(* that came in while the bot was open, with its id on record, and under    *)
(* the lock (CommandHandler.doPost).                                        *)
THEOREM OnlyAuthorizedChangeHolds == WSpec => OnlyAuthorizedChange
<1> DEFINE Rightly == \E x \in Delivery : /\ lock = x
                                          /\ KindOf[text[x]] = "command"
                                          /\ route[x] = "open"
                                          /\ \E i \in 1..Len(granted) : granted[i].by = x
<1>1. ASSUME WInv, G!MemoryInv, WorkInv, [WNext]_all PROVE [Rightly]_<<stored, paused>>
  <2> SUFFICES ASSUME ~UNCHANGED <<stored, paused>> PROVE Rightly
    OBVIOUS
  <2>1. PICK x \in Delivery : W!Write(x)
    BY <1>1 DEF WNext, Run, Deliver, Authorized, Answer, HandOn, Work, Change, Reply, Perish,
                Environment, all, list, W!Receive, W!Dispatch, W!Has, W!IsFull, W!QuotesFor,
                W!Acquire, W!Busy, W!ReadUnderLock, W!Release, W!ListTickers, W!ListFlag,
                W!SendReply, W!Die
  <2>2. wpc[x] = "write" /\ lock = x
    BY <1>1, <2>1 DEF W!Write, W!At, WInv, Joint, Section
  <2>3. answer[x] = "served" /\ KindOf[text[x]] = "command" /\ route[x] = "open"
    BY <1>1, <2>2 DEF WorkInv
  <2>4. G!Granted(x)
    BY <1>1, <2>3 DEF G!MemoryInv, G!PassInv, G!Passed
  <2>. QED
    BY <2>2, <2>3, <2>4 DEF G!Granted
<1>. QED
  BY WSpecIsSafe, WorkAlways, <1>1, PTL DEF WSafety, OnlyAuthorizedChange
-----------------------------------------------------------------------------
(* The other half.  Seen from the commands, a section of the gate is one of *)
(* the lock's other users: with the lock read that way, every step of the   *)
(* webhook is a step of the commands, or none.                              *)
wlock == IF lock \in Delivery /\ wpc[lock] \notin Section THEN Other ELSE lock

L == INSTANCE Watchlist_proofs WITH Exec <- Delivery, NoExec <- NoOne, pc <- wpc, lock <- wlock

LEMMA ListLockSame ==
    ASSUME lock' = lock,
           lock \in Delivery => (wpc'[lock] \in Section <=> wpc[lock] \in Section)
    PROVE  wlock' = wlock
BY DEF wlock

(* The store's operators, seen through the two instances.                   *)
LEMMA SameStore ==
    /\ L!WatchLists = W!WatchLists /\ L!Command = W!Command /\ L!Raw = W!Raw
    /\ \A e : L!IsValid(e) = W!IsValid(e)
    /\ \A l, t : L!Contains(l, t) = W!Contains(l, t)
    /\ \A l, t : L!Added(l, t) = W!Added(l, t)
    /\ \A l, t : L!Removed(l, t) = W!Removed(l, t)
    /\ \A raw : L!Tickers(raw) = W!Tickers(raw)
<1>1. \A e : L!IsValid(e) = W!IsValid(e)
  BY DEF L!IsValid, W!IsValid
<1>2. \A l, t : L!Contains(l, t) = W!Contains(l, t)
  BY DEF L!Contains, W!Contains
<1>3. \A l, t : L!Added(l, t) = W!Added(l, t) /\ L!Removed(l, t) = W!Removed(l, t)
  BY DEF L!Added, W!Added, L!Removed, W!Removed
<1>4. \A r : L!Tickers(r) = W!Tickers(r)
  BY DEF L!Tickers, W!Tickers, L!Healed, W!Healed, L!HealedLen, W!HealedLen, L!KeptUpTo, W!KeptUpTo,
         L!Kept, W!Kept, L!IsValid, W!IsValid, L!Cardinality, W!Cardinality
<1>5. L!WatchLists = W!WatchLists /\ L!Command = W!Command /\ L!Raw = W!Raw
  BY DEF L!WatchLists, W!WatchLists, L!Command, W!Command, L!Raw, W!Raw
<1>. QED
  BY <1>1, <1>2, <1>3, <1>4, <1>5

(* A command's own step.                                                    *)
LEMMA CommandStep ==
    ASSUME WInv, NEW x \in Delivery, Work(x) \/ Change(x)
    PROVE  L!Step(x)
<1> USE GateAssumption, SameStore DEF W!At, L!At, W!Goto, L!Goto, W!Say, L!Say, W!Symbol, L!Symbol,
        W!local, L!local
<1>0. wpc \in [Delivery -> W!Locations]
  BY DEF WInv, Joint
<1>1. CASE W!Acquire(x)
  <2>1. lock = NoOne /\ lock' = x /\ \E l \in {"read", "write"} : wpc' = [wpc EXCEPT ![x] = l]
    BY <1>1 DEF W!Acquire
  <2>2. wlock = NoOne /\ wlock' = x
    BY <1>0, <2>1 DEF wlock, Section
  <2>3. L!Acquire(x)
    BY <1>1, <2>2 DEF W!Acquire, L!Acquire
  <2>. QED
    BY <2>3 DEF L!Step
<1>2. CASE W!Release(x)
  <2>1. lock' = NoOne
    BY <1>2 DEF W!Release
  <2>2. wlock' = NoOne
    BY <2>1 DEF wlock
  <2>3. L!Release(x)
    BY <1>2, <2>2 DEF W!Release, L!Release
  <2>. QED
    BY <2>3 DEF L!Step
<1>3. CASE W!Dispatch(x) \/ W!Has(x) \/ W!IsFull(x) \/ W!QuotesFor(x) \/ W!Busy(x)
  <2>1. /\ lock' = lock /\ wpc[x] \notin Section
        /\ \E l \in W!Locations \ Section : wpc' = [wpc EXCEPT ![x] = l]
    BY <1>3 DEF W!Dispatch, W!Has, W!IsFull, W!QuotesFor, W!Busy, W!Locations, Section
  <2>2. wlock' = wlock
    BY <1>0, <2>1, ListLockSame
  <2>3. CASE W!Dispatch(x)
    BY <2>2, <2>3 DEF W!Dispatch, L!Dispatch, L!Step
  <2>4. CASE W!Has(x)
    BY <2>2, <2>4 DEF W!Has, L!Has, L!Step
  <2>5. CASE W!IsFull(x)
    BY <2>2, <2>5 DEF W!IsFull, L!IsFull, L!Step
  <2>6. CASE W!QuotesFor(x)
    BY <2>2, <2>6 DEF W!QuotesFor, L!QuotesFor, L!Step
  <2>7. CASE W!Busy(x)
    <3>1. wlock # NoOne
      BY <2>7 DEF W!Busy, wlock
    <3>. QED
      BY <2>2, <2>7, <3>1 DEF W!Busy, L!Busy, L!Step
  <2>. QED
    BY <1>3, <2>3, <2>4, <2>5, <2>6, <2>7
<1>4. CASE W!ReadUnderLock(x) \/ W!Write(x) \/ W!ListTickers(x) \/ W!ListFlag(x)
  <2>1. /\ lock' = lock
        /\ \E l \in W!Locations : wpc' = [wpc EXCEPT ![x] = l] /\ (l \in Section <=> wpc[x] \in Section)
    BY <1>4 DEF W!ReadUnderLock, W!Write, W!ListTickers, W!ListFlag, W!Locations, Section
  <2>2. wlock' = wlock
    BY <1>0, <2>1, ListLockSame
  <2>3. CASE W!ReadUnderLock(x)
    BY <2>2, <2>3 DEF W!ReadUnderLock, L!ReadUnderLock, L!Step
  <2>4. CASE W!Write(x)
    BY <2>2, <2>4 DEF W!Write, L!Write, L!Step
  <2>5. CASE W!ListTickers(x)
    BY <2>2, <2>5 DEF W!ListTickers, L!ListTickers, L!Step
  <2>6. CASE W!ListFlag(x)
    BY <2>2, <2>6 DEF W!ListFlag, L!ListFlag, L!Step
  <2>. QED
    BY <1>4, <2>3, <2>4, <2>5, <2>6
<1>. QED
  BY <1>1, <1>2, <1>3, <1>4 DEF Work, Change

(* Its reception, its one reply, and its death.                             *)
LEMMA HandOnStep ==
    ASSUME WInv, NEW x \in Delivery, HandOn(x), text[x] \in Text
    PROVE  \E c \in L!Command : L!Receive(x, c)
<1> USE DEF W!At, L!At, W!Goto, L!Goto
<1>0. wpc \in [Delivery -> W!Locations]
  BY DEF WInv, Joint
<1>1. W!Receive(x, CommandOf[text[x]]) /\ CommandOf[text[x]] \in L!Command
  BY WebhookAssumption, SameStore DEF HandOn
<1>2. lock' = lock /\ wpc[x] = "idle" /\ wpc' = [wpc EXCEPT ![x] = "dispatch"]
  BY <1>1 DEF HandOn, Serve, W!Receive
<1>3. wlock' = wlock
  BY <1>0, <1>2 DEF wlock, Section
<1>4. L!Receive(x, CommandOf[text[x]])
  BY <1>1, <1>3 DEF W!Receive, L!Receive
<1>. QED
  BY <1>1, <1>4

LEMMA CommandEnd ==
    ASSUME WInv, NEW x \in Delivery, Reply(x) \/ Perish(x)
    PROVE  L!SendReply(x) \/ L!Die(x) \/ L!OtherLock \/ UNCHANGED L!vars
<1> USE GateAssumption DEF W!At, L!At, W!Goto, L!Goto, W!End, L!End, W!NoReply, L!NoReply, list
<1>0. wpc \in [Delivery -> W!Locations] /\ lock \in Delivery \cup {NoOne, Other}
  BY DEF WInv, Joint
<1>1. CASE Reply(x)
  <2>1. lock' = lock /\ wpc[x] \notin Section /\ wpc' = [wpc EXCEPT ![x] = "idle"]
    BY <1>0, <1>1 DEF Reply, Send, Section, W!SendReply
  <2>2. wlock' = wlock
    BY <1>0, <2>1 DEF wlock, Section
  <2>3. CASE W!SendReply(x)
    BY <2>2, <2>3 DEF W!SendReply, L!SendReply
  <2>4. CASE UNCHANGED list
    BY <2>2, <2>4 DEF L!vars
  <2>. QED
    BY <1>1, <2>3, <2>4 DEF Reply
<1>2. CASE Perish(x) /\ wpc[x] # "idle"
  <2>1. W!Die(x) /\ lock' = IF lock = x THEN NoOne ELSE lock
    BY <1>2 DEF Perish, Die
  <2>2. lock = x => wpc[x] \in Section
    BY <1>2 DEF WInv, Joint, G!GateLockOwnership, G!Inside, glock
  <2>3. wpc' = [wpc EXCEPT ![x] = "idle"]
    BY <2>1 DEF W!Die
  <2>4. wlock' = IF wlock = x THEN NoOne ELSE wlock
    BY <1>0, <2>1, <2>2, <2>3 DEF wlock, Section, WInv, Joint
  <2>. QED
    BY <2>1, <2>4 DEF W!Die, L!Die
<1>3. CASE Perish(x) /\ wpc[x] = "idle"
  <2>1. UNCHANGED list /\ lock' = IF lock = x THEN NoOne ELSE lock
    BY <1>3 DEF Perish, Die, W!Die
  <2>2. CASE lock = x
    <3>1. wlock = Other /\ wlock' = NoOne
      BY <1>3, <2>1, <2>2 DEF wlock, Section
    <3>. QED
      BY <2>1, <3>1 DEF L!OtherLock, L!local
  <2>3. CASE lock # x
    BY <2>1, <2>3 DEF wlock, L!vars
  <2>. QED
    BY <2>2, <2>3
<1>. QED
  BY <1>1, <1>2, <1>3

(* The gate at work, as the commands see it: the lock is taken by somebody  *)
(* else, or given back, or nothing happens.                                 *)
LEMMA GateAtWork ==
    ASSUME WInv, UNCHANGED list,
           \/ lock' = lock
           \/ lock = NoOne /\ lock' = Other
           \/ lock = Other /\ lock' = NoOne
           \/ \E x \in Delivery : /\ wpc[x] \notin Section
                                  /\ \/ lock = NoOne /\ lock' = x
                                     \/ lock = x /\ lock' = NoOne
    PROVE  L!OtherLock \/ UNCHANGED L!vars
<1> USE GateAssumption DEF list
<1>1. CASE lock' = lock
  BY <1>1 DEF wlock, L!vars
<1>2. CASE lock' # lock
  <2>1. \/ wlock = NoOne /\ wlock' = Other
        \/ wlock = Other /\ wlock' = NoOne
    BY <1>2 DEF wlock
  <2>. QED
    BY <2>1 DEF L!OtherLock, L!local
<1>. QED
  BY <1>1, <1>2

LEMMA GuardsLock ==
    ASSUME WInv, NEW x \in Delivery, Guard(x)
    PROVE  \/ lock' = lock
           \/ /\ wpc[x] \notin Section
              /\ \/ lock = NoOne /\ lock' = x
                 \/ lock = x /\ lock' = NoOne
<1> USE DEF memory, guard, local
<1>1. CASE Acquire(x)
  BY <1>1, GateAssumption DEF Acquire, WInv, Joint
<1>2. CASE Release(x)
  <2>1. pc[x] = "release" /\ lock' = NoOne
    BY <1>2 DEF Release, At
  <2>2. glock = x
    BY <2>1 DEF WInv, G!GateLockOwnership, G!Inside
  <2>3. lock = x /\ wpc[x] \notin Section
    BY <2>2, GateAssumption DEF glock
  <2>. QED
    BY <2>1, <2>3
<1>3. CASE ~Acquire(x) /\ ~Release(x)
  BY <1>3 DEF Guard, Authorize, Busy, SidCheck, SidWrite, ReplayAudit, CountRead, CountWrite,
              CountAudit, SealTest, Seal, SealAudit, ResetRead, Reset, Unseal, UnsealZero,
              UnsealAudit, Notice
<1>. QED
  BY <1>1, <1>2, <1>3

LEMMA ListStep ==
    ASSUME WInv, [WNext]_all
    PROVE  [L!Next]_(L!vars)
<1>1. ASSUME NEW x \in Delivery, NEW t \in Text, Deliver(x, t) PROVE [L!Next]_(L!vars)
  <2>1. lock' = lock /\ UNCHANGED list
    BY <1>1 DEF Deliver, Arrive
  <2>. QED
    BY <2>1, GateAtWork DEF L!Next
<1>2. ASSUME NEW x \in Delivery, Authorized(x) PROVE [L!Next]_(L!vars)
  <2>1. Guard(x) /\ UNCHANGED list
    BY <1>2 DEF Authorized
  <2>. QED
    BY <2>1, GuardsLock, GateAtWork DEF L!Next
<1>3. ASSUME NEW x \in Delivery, Answer(x) PROVE [L!Next]_(L!vars)
  <2>1. lock' = lock /\ UNCHANGED list
    BY <1>3 DEF Answer, Serve
  <2>. QED
    BY <2>1, GateAtWork DEF L!Next
<1>4. ASSUME NEW x \in Delivery, HandOn(x) PROVE [L!Next]_(L!vars)
  <2>1. text[x] \in Text
    BY <1>4 DEF WInv, G!Types, G!HasText, HandOn, Serve, At
  <2>. QED
    BY <1>4, <2>1, HandOnStep DEF L!Next
<1>5. ASSUME NEW x \in Delivery, Work(x) \/ Change(x) PROVE [L!Next]_(L!vars)
  BY <1>5, CommandStep DEF L!Next
<1>6. ASSUME NEW x \in Delivery, Reply(x) \/ Perish(x) PROVE [L!Next]_(L!vars)
  BY <1>6, CommandEnd DEF L!Next, L!Step
<1>7. CASE Environment
  <2>1. /\ UNCHANGED list
        /\ \/ lock' = lock
           \/ lock = NoOne /\ lock' = Other
           \/ lock = Other /\ lock' = NoOne
    BY <1>7 DEF Environment, Tick, OtherLock, Forget
  <2>. QED
    BY <2>1, GateAtWork DEF L!Next
<1>8. CASE UNCHANGED all
  BY <1>8, GateAtWork DEF all, vars, L!Next
<1>. QED
  BY <1>1, <1>2, <1>3, <1>4, <1>5, <1>6, <1>7, <1>8 DEF WNext, Run

LEMMA ListInit == WInit => L!Init
<1> SUFFICES ASSUME WInit PROVE L!Init
  OBVIOUS
<1>1. wlock = NoOne
  BY GateAssumption DEF WInit, Init, wlock
<1>. QED
  BY <1>1 DEF WInit, W!Init, L!Init, W!NoReply, L!NoReply

(* Every run of the webhook is a run of the commands.                       *)
LEMMA WebhookIsWatchlist == WSafety => L!Safety
<1>1. WInv /\ [WNext]_all => [L!Next]_(L!vars)
  BY ListStep
<1>. QED
  BY ListInit, WInvAlways, <1>1, PTL DEF WSafety, L!Safety

(* doPost implements the watchlist commands: the gate in front of them, its *)
(* sections and its deaths are no more to them than another user of the     *)
(* lock (CommandHandler.doPost, Locks.withScriptLock).                      *)
THEOREM WebhookImplementsWatchlist == WSpec => L!Init /\ [][L!Next]_(L!vars)
BY WebhookIsWatchlist, WSpecIsSafe DEF L!Safety

(* What L's lemmas assume of the constants.                                 *)
LEMMA ListHypotheses == L!StoreAssumption /\ L!ExecAssumption /\ L!CommandAssumption
<1>1. L!StoreAssumption
  BY WebhookAssumption, SameStore DEF W!StoreAssumption, L!StoreAssumption
<1>2. L!ExecAssumption
  BY WebhookAssumption, SameStore DEF W!ExecAssumption, L!ExecAssumption
<1>3. L!CommandAssumption
  BY WebhookAssumption, SameStore DEF W!CommandAssumption, L!CommandAssumption
<1>. QED
  BY <1>1, <1>2, <1>3

(* So all that holds of the commands holds of doPost: no lost update, clean *)
(* writes, no symbol without its quote, and every reply the truth of one    *)
(* indivisible step (Watchlist.add and remove behind SecurityGate).         *)
THEOREM WatchlistCarriesOver ==
    WSpec => /\ [](L!LockOwnership /\ L!ReadStaysCurrent)
             /\ L!WritesAreClean
             /\ L!AddsAreConfirmed
             /\ L!RepliesAreTrue
<1>1. L!Safety => []L!IInv
  BY L!Invariance, ListHypotheses
     DEF L!StoreAssumption, L!ExecAssumption, L!CommandAssumption
<1>2. L!IInv => L!LockOwnership /\ L!ReadStaysCurrent
  BY DEF L!IInv
<1>3. L!Safety => L!WritesAreClean
  BY L!CleanAlways, ListHypotheses DEF L!StoreAssumption, L!ExecAssumption, L!CommandAssumption
<1>4. L!Safety => L!AddsAreConfirmed
  BY L!ConfirmedAlways, ListHypotheses DEF L!StoreAssumption, L!ExecAssumption, L!CommandAssumption
<1>5. L!Safety => L!RepliesAreTrue
  BY L!RefinementAlways, ListHypotheses DEF L!StoreAssumption, L!ExecAssumption, L!CommandAssumption
<1>. QED
  BY WSpecIsSafe, WebhookIsWatchlist, <1>1, <1>2, <1>3, <1>4, <1>5, PTL
===============================================================================
