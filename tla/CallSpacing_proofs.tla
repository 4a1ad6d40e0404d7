-------------------------- MODULE CallSpacing_proofs --------------------------
(***************************************************************************)
(* The two things the spacing of calls is for, for any list, any latency   *)
(* and any number of executions at any distance, each under the condition  *)
(* on PriceService's numbers that makes it true (ADR 007):                  *)
(*   - a run fits the platform's limit if MaxTickers brisk calls and the    *)
(*     sleeps between them do;                                              *)
(*   - nobody exceeds the limit of calls by itself if PerMinute sleeps fill *)
(*     a minute.                                                            *)
(***************************************************************************)
EXTENDS CallSpacingProps, FiniteSetTheorems, TLAPS

Places == {"idle", "due", "waiting", "done", "killed"}

Types == /\ now \in Nat
         /\ pc \in [Exec -> Places]
         /\ began \in [Exec -> Nat]
         /\ left \in [Exec -> Int]
         /\ resumes \in [Exec -> Nat]
         /\ limited \in [Exec -> BOOLEAN]
         /\ slow \in [Exec -> BOOLEAN]
         /\ recent \subseteq [by : Exec, at : Nat, left : Int]

(* An execution in progress is never late: the clock waits for it.          *)
Timely == \A x \in Exec : Running(x) => began[x] <= now /\ now <= resumes[x]

LEMMA ClampedType == ASSUME NEW n \in Nat \ {0}
                     PROVE  /\ Clamped(n) \in Nat /\ Clamped(n) <= MaxTickers
                            /\ MaxTickers >= 1 => Clamped(n) >= 1
BY SpacingAssumption DEF Clamped

(* The steps of one execution, from a list of at least one ticker.          *)
LEMMA StepsAre ==
    ASSUME Next
    PROVE  \/ \E x \in Exec, asked \in Nat \ {0} : Start(x, asked)
           \/ \E x \in Exec : Call(x) \/ Answer(x) \/ Kill(x)
           \/ Tick
BY SpacingAssumption DEF Next, Exec

LEMMA TypesInit == Init => Types /\ Timely
BY DEF Init, Types, Timely, Running, Places

LEMMA TypesStep ==
    ASSUME Types, Timely, [Next]_vars
    PROVE  Types' /\ Timely'
<1> USE SpacingAssumption DEF Types, Timely, Running, Places
<1>1. ASSUME NEW x \in Exec, NEW asked \in Nat \ {0}, Start(x, asked) PROVE Types' /\ Timely'
  <2>1. Clamped(asked) \in Int
    BY ClampedType
  <2>. QED
    BY <1>1, <2>1 DEF Start
<1>2. ASSUME NEW x \in Exec, Call(x) PROVE Types' /\ Timely'
  <2>1. PICK d \in 0..MaxLatency : /\ resumes' = [resumes EXCEPT ![x] = now + d]
                                   /\ slow' = [slow EXCEPT ![x] = @ \/ d > Brisk]
    BY <1>2 DEF Call
  <2>2. /\ now' = now /\ began' = began /\ pc[x] = "due"
        /\ pc' = [pc EXCEPT ![x] = "waiting"]
        /\ left' = [left EXCEPT ![x] = left[x] - 1]
        /\ recent' = recent \cup {[by |-> x, at |-> now, left |-> left[x]]}
    BY <1>2 DEF Call
  <2>3. limited' \in [Exec -> BOOLEAN]
    BY <1>2 DEF Call
  <2>4. slow' \in [Exec -> BOOLEAN]
    BY <2>1
  <2>5. resumes' \in [Exec -> Nat] /\ now <= resumes'[x]
        /\ \A y \in Exec \ {x} : resumes'[y] = resumes[y]
    BY <2>1
  <2>6. recent' \subseteq [by : Exec, at : Nat, left : Int]
    BY <2>2
  <2>7. pc' \in [Exec -> Places] /\ left' \in [Exec -> Int]
    BY <2>2
  <2>8. Timely'
    BY <2>2, <2>5
  <2>. QED
    BY <2>2, <2>3, <2>4, <2>5, <2>6, <2>7, <2>8
<1>3. ASSUME NEW x \in Exec, Answer(x) PROVE Types' /\ Timely'
  <2>1. CASE limited[x] \/ left[x] = 0
    BY <1>3, <2>1 DEF Answer
  <2>2. CASE ~(limited[x] \/ left[x] = 0)
    BY <1>3, <2>2 DEF Answer
  <2>. QED
    BY <2>1, <2>2
<1>4. ASSUME NEW x \in Exec, Kill(x) PROVE Types' /\ Timely'
  BY <1>4 DEF Kill
<1>5. CASE Tick
  BY <1>5 DEF Tick
<1>6. CASE UNCHANGED vars
  BY <1>6 DEF vars
<1>. QED
  BY <1>1, <1>2, <1>3, <1>4, <1>5, <1>6, StepsAre

LEMMA TypesAlways == Spec => [](Types /\ Timely)
BY TypesInit, TypesStep, PTL DEF Spec

-----------------------------------------------------------------------------
(* What one ticker may cost: a brisk call, and the sleep before the next.   *)
Cost == Brisk + Spacing

(* So many tickers cost so much.                                            *)
LEMMA CostType == Cost \in Nat /\ \A k \in Int : k * Cost \in Int
BY SpacingAssumption DEF Cost

LEMMA OneMore == \A k \in Int : (k + 1) * Cost = k * Cost + Cost
BY CostType

LEMMA NoLess == \A j, k \in Int : j <= k => j * Cost <= k * Cost
<1> SUFFICES ASSUME NEW j \in Int, NEW k \in Int, j <= k PROVE j * Cost <= k * Cost
  OBVIOUS
<1>1. (k - j) * Cost >= 0
  BY CostType
<1>2. (k - j) * Cost = k * Cost - j * Cost
  BY CostType
<1>. QED
  BY <1>1, <1>2, CostType

(* An execution whose calls have been brisk has spent no more than that of  *)
(* the tickers it has dealt with; the one it waits for is paid for already. *)
Budget == \A x \in Exec :
    ~slow[x] =>
       /\ pc[x] = "due" => /\ left[x] \in 1..MaxTickers
                           /\ resumes[x] <= began[x] + (MaxTickers - left[x]) * Cost
       /\ pc[x] = "waiting" => /\ left[x] \in 0..(MaxTickers - 1)
                               /\ resumes[x] + Spacing <= began[x] + (MaxTickers - left[x]) * Cost

LEMMA BudgetStep ==
    ASSUME MaxTickers >= 1, Types, Timely, Budget, [Next]_vars
    PROVE  Budget'
<1> USE SpacingAssumption DEF Types, Timely, Running, Places
<1>1. ASSUME NEW x \in Exec, NEW asked \in Nat \ {0}, Start(x, asked) PROVE Budget'
  <2> DEFINE n == Clamped(asked)
  <2>1. n \in 1..MaxTickers
    BY ClampedType
  <2>2. 0 <= (MaxTickers - n) * Cost
    <3>1. 0 * Cost <= (MaxTickers - n) * Cost
      BY <2>1, NoLess
    <3>. QED
      BY <3>1, CostType
  <2>. HIDE DEF n
  <2>3. /\ pc' = [pc EXCEPT ![x] = "due"] /\ left' = [left EXCEPT ![x] = n]
        /\ began' = [began EXCEPT ![x] = now] /\ resumes' = [resumes EXCEPT ![x] = now]
        /\ slow' = slow
    BY <1>1 DEF Start, n
  <2>4. (MaxTickers - n) * Cost \in Int
    BY <2>1, CostType
  <2>. QED
    BY <2>1, <2>2, <2>3, <2>4 DEF Budget
<1>2. ASSUME NEW x \in Exec, Call(x) PROVE Budget'
  <2>1. PICK d \in 0..MaxLatency : /\ resumes' = [resumes EXCEPT ![x] = now + d]
                                   /\ slow' = [slow EXCEPT ![x] = @ \/ d > Brisk]
    BY <1>2 DEF Call
  <2>2. /\ began' = began /\ pc[x] = "due" /\ resumes[x] <= now
        /\ pc' = [pc EXCEPT ![x] = "waiting"]
        /\ left' = [left EXCEPT ![x] = left[x] - 1]
    BY <1>2 DEF Call
  <2>3. now = resumes[x]
    BY <2>2
  <2>4. ASSUME ~slow'[x]
        PROVE  /\ left[x] - 1 \in 0..(MaxTickers - 1)
               /\ now + d + Spacing <= began[x] + (MaxTickers - (left[x] - 1)) * Cost
    <3>1. ~slow[x] /\ d <= Brisk
      <4>1. slow'[x] = (slow[x] \/ d > Brisk)
        BY <2>1, Zenon
      <4>2. ~slow[x] /\ ~(d > Brisk)
        BY <2>4, <4>1, Zenon
      <4>. QED
        BY <4>2
    <3>2. /\ left[x] \in 1..MaxTickers
          /\ now <= began[x] + (MaxTickers - left[x]) * Cost
      BY <2>2, <2>3, <3>1 DEF Budget
    <3>3. /\ (MaxTickers - left[x]) * Cost \in Int
          /\ (MaxTickers - (left[x] - 1)) * Cost = (MaxTickers - left[x]) * Cost + Cost
      <4>1. MaxTickers - left[x] \in Int /\ MaxTickers - (left[x] - 1) = (MaxTickers - left[x]) + 1
        OBVIOUS
      <4>. QED
        BY <4>1, OneMore, CostType
    <3>4. d + Spacing <= Cost /\ Cost \in Nat
      BY <3>1, CostType DEF Cost
    <3>. QED
      BY <3>2, <3>3, <3>4
  <2>5. \A y \in Exec \ {x} : /\ pc'[y] = pc[y] /\ left'[y] = left[y] /\ slow'[y] = slow[y]
                              /\ resumes'[y] = resumes[y] /\ began'[y] = began[y]
    BY <2>1, <2>2
  <2>6. pc'[x] = "waiting" /\ left'[x] = left[x] - 1 /\ resumes'[x] = now + d /\ began'[x] = began[x]
    BY <2>1, <2>2
  <2>. QED
    BY <2>4, <2>5, <2>6 DEF Budget
<1>3. ASSUME NEW x \in Exec, Answer(x) PROVE Budget'
  <2>1. CASE limited[x] \/ left[x] = 0
    BY <1>3, <2>1 DEF Answer, Budget
  <2>2. CASE ~(limited[x] \/ left[x] = 0)
    <3>1. /\ pc[x] = "waiting" /\ now = resumes[x] /\ left[x] # 0
          /\ pc' = [pc EXCEPT ![x] = "due"]
          /\ resumes' = [resumes EXCEPT ![x] = now + Spacing]
          /\ UNCHANGED <<left, began, slow>>
      BY <1>3, <2>2 DEF Answer
    <3>. QED
      BY <3>1 DEF Budget
  <2>. QED
    BY <2>1, <2>2
<1>4. CASE \/ \E x \in Exec : Kill(x)
           \/ Tick \/ UNCHANGED vars
  BY <1>4 DEF Kill, Tick, vars, Budget
<1>. QED
  BY <1>1, <1>2, <1>3, <1>4, StepsAre

(* No execution whose calls are brisk runs into the platform's limit, if    *)
(* MaxTickers calls and the sleeps between them fit it                      *)
(* (MIN_CALL_SPACING_MS and MAX_TICKERS_PER_RUN together).                  *)
THEOREM FitsTheLimitHolds ==
    ASSUME MaxTickers >= 1, MaxTickers * (Brisk + Spacing) < Limit + Spacing
    PROVE  Spec => []FitsTheLimit
<1>1. Init => Budget
  BY DEF Init, Budget
<1>2. ASSUME Types, Timely, Budget PROVE FitsTheLimit
  <2> SUFFICES ASSUME NEW x \in Exec, Running(x), ~slow[x] PROVE now - began[x] < Limit
    BY DEF FitsTheLimit
  <2> USE SpacingAssumption DEF Types, Timely
  <2>1. MaxTickers * Cost < Limit + Spacing /\ MaxTickers * Cost \in Int /\ Spacing <= Cost
    BY CostType DEF Cost
  <2>2. began[x] <= now /\ now <= resumes[x]
    BY <1>2
  <2>3. CASE pc[x] = "due"
    <3>1. left[x] \in 1..MaxTickers /\ resumes[x] <= began[x] + (MaxTickers - left[x]) * Cost
      BY <1>2, <2>3 DEF Budget
    <3>2. /\ (MaxTickers - left[x]) * Cost <= (MaxTickers - 1) * Cost
          /\ (MaxTickers - left[x]) * Cost \in Int
      BY <3>1, NoLess, CostType
    <3>3. MaxTickers * Cost = (MaxTickers - 1) * Cost + Cost /\ (MaxTickers - 1) * Cost \in Int
      BY OneMore, CostType
    <3>. QED
      BY <1>2, <2>1, <2>2, <3>1, <3>2, <3>3, CostType
  <2>4. CASE pc[x] = "waiting"
    <3>1. /\ left[x] \in 0..(MaxTickers - 1)
          /\ resumes[x] + Spacing <= began[x] + (MaxTickers - left[x]) * Cost
      BY <1>2, <2>4 DEF Budget
    <3>2. /\ (MaxTickers - left[x]) * Cost <= MaxTickers * Cost
          /\ (MaxTickers - left[x]) * Cost \in Int
      BY <3>1, NoLess, CostType
    <3>. QED
      BY <1>2, <2>1, <2>2, <3>1, <3>2
  <2>. QED
    BY <2>3, <2>4 DEF Running
<1>3. Budget /\ Types /\ Timely /\ [Next]_vars => Budget'
  BY BudgetStep
<1>. QED
  BY TypesAlways, <1>1, <1>2, <1>3, PTL DEF Spec

-----------------------------------------------------------------------------
(* Every recorded call carries how many its execution had still to make, so *)
(* that number orders an execution's calls: two that are k apart in it are  *)
(* k sleeps apart in time, and so is a call from the next one to come.      *)
Apart(c) == /\ c.at <= now /\ now < c.at + Minute
            /\ pc[c.by] # "idle"
            /\ left[c.by] < c.left
            /\ pc[c.by] = "due" => c.at + (c.left - left[c.by]) * Spacing <= resumes[c.by]
            /\ pc[c.by] = "waiting" => c.at + (c.left - left[c.by] - 1) * Spacing <= resumes[c.by]

Spaced == /\ \A c \in recent : Apart(c)
          /\ \A c, d \in recent : c.by = d.by /\ c.left = d.left => c = d

LEMMA SleepType == Spacing \in Nat /\ \A k \in Int : k * Spacing \in Int
BY SpacingAssumption

LEMMA SpacedStep ==
    ASSUME Types, Timely, Spaced, [Next]_vars
    PROVE  Spaced'
<1> USE SpacingAssumption DEF Types, Timely, Running, Places
<1>0. \A c \in recent : /\ c.by \in Exec /\ c.at \in Nat /\ c.left \in Int
                        /\ c.left - left[c.by] \in Int /\ c.left - left[c.by] - 1 \in Int
  OBVIOUS
<1>1. ASSUME NEW x \in Exec, NEW asked \in Nat \ {0}, Start(x, asked) PROVE Spaced'
  <2>1. /\ pc[x] = "idle" /\ UNCHANGED <<now, recent>>
        /\ \A y \in Exec \ {x} : pc'[y] = pc[y] /\ left'[y] = left[y] /\ resumes'[y] = resumes[y]
    BY <1>1 DEF Start
  <2>2. \A c \in recent : c.by # x
    BY <2>1 DEF Spaced, Apart
  <2>. QED
    BY <1>0, <2>1, <2>2 DEF Spaced, Apart
<1>2. ASSUME NEW x \in Exec, Call(x) PROVE Spaced'
  <2>1. PICK d \in 0..MaxLatency : resumes' = [resumes EXCEPT ![x] = now + d]
    BY <1>2 DEF Call
  <2>0. PICK call : call = [by |-> x, at |-> now, left |-> left[x]]
    OBVIOUS
  <2>2. /\ pc[x] = "due" /\ resumes[x] <= now /\ now' = now
        /\ pc'[x] = "waiting" /\ left'[x] = left[x] - 1 /\ resumes'[x] = now + d
        /\ recent' = recent \cup {call}
        /\ \A y \in Exec \ {x} : pc'[y] = pc[y] /\ left'[y] = left[y] /\ resumes'[y] = resumes[y]
    BY <1>2, <2>0, <2>1 DEF Call
  <2>3. call.by = x /\ call.at = now /\ call.left = left[x]
    BY <2>0
  <2>4. Apart(call)'
    <3>1. (call.left - (left[x] - 1) - 1) * Spacing = 0
      <4>1. call.left - (left[x] - 1) - 1 = 0
        BY <2>3
      <4>. QED
        BY <4>1, SleepType
    <3>. QED
      BY <2>2, <2>3, <3>1 DEF Apart
  <2>5. ASSUME NEW c \in recent PROVE Apart(c)'
    <3>1. CASE c.by # x
      BY <1>0, <2>2, <3>1 DEF Spaced, Apart
    <3>2. CASE c.by = x
      <4>1. /\ c.at <= now /\ now < c.at + Minute /\ left[x] < c.left
            /\ c.at + (c.left - left[x]) * Spacing <= now
        BY <1>0, <2>2, <3>2, SleepType DEF Spaced, Apart
      <4>2. c.left - (left[x] - 1) - 1 = c.left - left[x]
        BY <1>0
      <4>. QED
        BY <1>0, <2>2, <3>2, <4>1, <4>2, SleepType DEF Apart
    <3>. QED
      BY <3>1, <3>2
  <2>6. \A c \in recent : c.by = x => c.left # call.left
    BY <1>0, <2>3 DEF Spaced, Apart
  <2>. QED
    BY <2>2, <2>3, <2>4, <2>5, <2>6 DEF Spaced
<1>3. ASSUME NEW x \in Exec, Answer(x) PROVE Spaced'
  <2>1. CASE limited[x] \/ left[x] = 0
    BY <1>0, <1>3, <2>1 DEF Answer, Spaced, Apart
  <2>2. CASE ~(limited[x] \/ left[x] = 0)
    <3>1. /\ pc[x] = "waiting" /\ now = resumes[x]
          /\ pc'[x] = "due" /\ resumes'[x] = now + Spacing
          /\ UNCHANGED <<now, left, recent>>
          /\ \A y \in Exec \ {x} : pc'[y] = pc[y] /\ resumes'[y] = resumes[y]
      BY <1>3, <2>2 DEF Answer
    <3>2. ASSUME NEW c \in recent PROVE Apart(c)'
      <4>1. CASE c.by # x
        BY <1>0, <3>1, <4>1 DEF Spaced, Apart
      <4>2. CASE c.by = x
        <5> DEFINE k == c.left - left[x] - 1
        <5>1. k \in Int /\ c.left - left[x] = k + 1
          BY <1>0, <4>2
        <5>2. (k + 1) * Spacing = k * Spacing + Spacing /\ k * Spacing \in Int
          BY <5>1, SleepType
        <5>3. c.at + k * Spacing <= now /\ c.at <= now /\ now < c.at + Minute /\ left[x] < c.left
          BY <3>1, <4>2 DEF Spaced, Apart
        <5>. HIDE DEF k
        <5>4. c.at + (c.left - left[x]) * Spacing <= now + Spacing
          BY <1>0, <5>1, <5>2, <5>3, SleepType
        <5>. QED
          BY <3>1, <4>2, <5>3, <5>4 DEF Apart
      <4>. QED
        BY <4>1, <4>2
    <3>. QED
      BY <3>1, <3>2 DEF Spaced
  <2>. QED
    BY <2>1, <2>2
<1>4. ASSUME NEW x \in Exec, Kill(x) PROVE Spaced'
  <2>1. /\ UNCHANGED <<now, left, resumes, recent>> /\ pc'[x] = "killed"
        /\ \A y \in Exec \ {x} : pc'[y] = pc[y]
    BY <1>4 DEF Kill
  <2>. QED
    BY <1>0, <2>1 DEF Spaced, Apart
<1>5. CASE Tick
  <2>1. /\ now' = now + 1 /\ recent' = {c \in recent : c.at + Minute > now'}
        /\ UNCHANGED <<pc, left, resumes>>
    BY <1>5 DEF Tick
  <2>. QED
    BY <1>0, <2>1 DEF Spaced, Apart
<1>6. CASE UNCHANGED vars
  BY <1>6 DEF vars, Spaced, Apart
<1>. QED
  BY <1>1, <1>2, <1>3, <1>4, <1>5, <1>6, StepsAre

(* Alone, an execution that is about to call has made fewer than PerMinute  *)
(* calls within the minute: they are numbered, and a minute is too short    *)
(* for as many sleeps.                                                      *)
LEMMA AloneIsFew ==
    ASSUME Minute <= PerMinute * Spacing, Types, Spaced,
           NEW x \in Exec, pc[x] = "due", resumes[x] <= now,
           \A c \in recent : c.by = x
    PROVE  Cardinality(recent) \in Nat /\ Cardinality(recent) < PerMinute
<1> USE SpacingAssumption DEF Types
<1> DEFINE Numbers == (left[x] + 1)..(left[x] + PerMinute - 1)
           number == [c \in recent |-> c.left]
<1>1. PerMinute >= 1
  <2>1. CASE PerMinute = 0
    <3>1. PerMinute * Spacing = 0
      BY <2>1, SleepType
    <3>. QED
      BY <3>1
  <2>. QED
    BY <2>1
<1>2. ASSUME NEW c \in recent PROVE c.left \in Numbers
  <2>1. /\ c.at \in Nat /\ c.left \in Int /\ left[x] < c.left /\ now < c.at + Minute
        /\ c.at + (c.left - left[x]) * Spacing <= resumes[x]
    BY DEF Spaced, Apart
  <2> DEFINE k == c.left - left[x]
  <2>2. k \in Int /\ k * Spacing \in Int /\ PerMinute * Spacing \in Int
    BY <2>1, SleepType
  <2>3. k * Spacing < PerMinute * Spacing
    BY <2>1, <2>2
  <2>4. k < PerMinute
    <3>1. CASE k >= PerMinute
      <4>1. (k - PerMinute) * Spacing >= 0
        BY <2>2, <3>1
      <4>2. (k - PerMinute) * Spacing = k * Spacing - PerMinute * Spacing
        BY <2>2
      <4>. QED
        BY <2>2, <2>3, <4>1, <4>2
    <3>. QED
      BY <2>2, <3>1
  <2>. QED
    BY <2>1, <2>4
<1>3. number \in Injection(recent, Numbers)
  <2>1. number \in [recent -> Numbers]
    BY <1>2
  <2>2. \A c, d \in recent : number[c] = number[d] => c = d
    BY DEF Spaced
  <2>. QED
    BY <2>1, <2>2 DEF Injection, IsInjective
<1>4. IsFiniteSet(Numbers) /\ Cardinality(Numbers) = PerMinute - 1
  <2>1. PICK lo \in Int, hi \in Int : lo = left[x] + 1 /\ hi = left[x] + PerMinute - 1
    OBVIOUS
  <2>2. IsFiniteSet(lo..hi) /\ Cardinality(lo..hi) = IF lo > hi THEN 0 ELSE hi - lo + 1
    BY FS_Interval
  <2>3. Numbers = lo..hi
    BY <2>1
  <2>4. (IF lo > hi THEN 0 ELSE hi - lo + 1) = PerMinute - 1
    BY <1>1, <2>1
  <2>. QED
    BY <2>2, <2>3, <2>4
<1>. HIDE DEF Numbers, number
<1>5. IsFiniteSet(recent) /\ Cardinality(recent) <= Cardinality(Numbers)
  BY <1>3, <1>4, FS_Injection
<1>. QED
  BY <1>4, <1>5, FS_CardinalityType

(* Nobody is told "over the limit" for its own calls alone, if PerMinute    *)
(* sleeps fill a minute (PriceService.MIN_CALL_SPACING_MS).                 *)
THEOREM LimitHasCompanyHolds ==
    ASSUME Minute <= PerMinute * Spacing
    PROVE  Spec => LimitHasCompany
<1> DEFINE Company == \A x \in Exec : ~limited[x] /\ limited'[x] => \E c \in recent : c.by # x
<1>1. Init => Spaced
  BY DEF Init, Spaced
<1>2. ASSUME Types, Spaced, [Next]_vars PROVE [Company]_limited
  <2> SUFFICES ASSUME NEW x \in Exec, ~limited[x], limited'[x], \A c \in recent : c.by = x
               PROVE  FALSE
    OBVIOUS
  <2>1. Call(x)
    <3>1. PICK y \in Exec : Call(y)
      BY <1>2 DEF Types, Next, Start, Answer, Kill, Tick, vars, Exec
    <3>2. x = y
      BY <1>2, <3>1 DEF Types, Call
    <3>. QED
      BY <3>1, <3>2
  <2>2. pc[x] = "due" /\ resumes[x] <= now /\ Cardinality(recent) >= PerMinute
    BY <1>2, <2>1 DEF Types, Call
  <2>3. Cardinality(recent) \in Nat /\ Cardinality(recent) < PerMinute
    BY <1>2, <2>2, AloneIsFew
  <2>. QED
    BY <2>2, <2>3, SpacingAssumption
<1>3. Types /\ Timely /\ Spaced /\ [Next]_vars => Spaced'
  BY SpacedStep
<1>. QED
  BY TypesAlways, <1>1, <1>2, <1>3, PTL DEF Spec, LimitHasCompany
===============================================================================
