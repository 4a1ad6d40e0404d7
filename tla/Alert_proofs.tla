----------------------------- MODULE Alert_proofs -----------------------------
(***************************************************************************)
(* The numbers on the daily texts, for any number of overlapping runs.     *)
(*                                                                         *)
(* The numbers assume that DEBUG_MODE is not edited while a run is in       *)
(* progress: a run reads it twice, and the two reads must agree.  Types,    *)
(* slots, calls and the single text of a run need no such thing.            *)
(* The last part follows the numbers to the recipient (Texts): they are     *)
(* what Verifier takes them to be, so its theorems hold of the real texts.  *)
(***************************************************************************)
EXTENDS Texts, SequenceTheorems, FunctionTheorems, FiniteSetTheorems, TLAPS

(* The run has a number of its own and the counter says so. *)
Issued(r) == /\ mode[r] = "live"
             /\ number[r] # 0
             /\ \/ pc[r] \in {"release", "tag", "send", "post", "receipt", "green"}
                \/ texts[r] > 0

TypeCore == /\ counter \in Nat
            /\ lock \in Run \cup {NoRun, Webhook}
            /\ debug \in BOOLEAN
            /\ pc \in [Run -> Locations]
            /\ mode \in [Run -> {"none", "debug", "live"}]
            /\ number \in [Run -> Nat]
            /\ outcome \in [Run -> {"none", "sent", "debug", "failed"}]
            /\ texts \in [Run -> Nat]

(* The counter's critical section. *)
Exclusion == \A r \in Run : (pc[r] \in {"read", "write", "release"}) <=> (lock = r)

(* How far a run has come, as its locals tell. *)
Progress == \A r \in Run :
    /\ pc[r] \in {"idle", "validate", "paused", "tickers", "key", "fetch", "sign"}
          => mode[r] = "none"
    /\ pc[r] \in {"lock", "read", "peek"} => number[r] = 0
    /\ mode[r] = "none" => number[r] = 0
    /\ pc[r] \in {"lock", "read", "write", "release"} => mode[r] = "live"
    /\ pc[r] = "peek" => mode[r] = "debug"
    /\ pc[r] \in {"tag", "send", "post", "receipt"} => mode[r] # "none"
    /\ pc[r] \in {"lock", "read", "write", "release", "peek", "tag", "send", "post", "receipt"}
          => (mode[r] = "debug" <=> debug)
    /\ pc[r] \in {"post", "receipt"} => ~debug
    /\ pc[r] = "write" => number[r] = counter + 1
    /\ texts[r] <= 1
    /\ pc[r] = "receipt" => texts[r] > 0
    /\ texts[r] > 0 => pc[r] \in {"receipt", "green", "dead"} /\ mode[r] = "live"

(* No two runs share an issued number, and the counter is past all of them. *)
Distinct == \A r \in Run : Issued(r) =>
    /\ number[r] <= counter
    /\ \A s \in Run : Issued(s) /\ s # r => number[s] # number[r]

AInv == TypeCore /\ Exclusion /\ Progress /\ Distinct

LEMMA AInvInit == Init => AInv
<1> SUFFICES ASSUME Init PROVE AInv
  OBVIOUS
<1>1. TypeCore
  BY AlertAssumption DEF Init, TypeCore, Locations, Over
<1>2. Exclusion
  BY AlertAssumption DEF Init, Exclusion
<1>3. Progress /\ Distinct
  BY DEF Init, Progress, Distinct, Issued
<1> QED
  BY <1>1, <1>2, <1>3 DEF AInv

(* The steps that touch neither the counter, the lock nor a number: most of *)
(* a run, before it signs.                                                  *)
LEMMA Early ==
    ASSUME AInv, NEW r \in Run,
           Fire(r) \/ Validate(r) \/ IsPaused(r) \/ ReadTickers(r) \/ RequireKey(r) \/ Fetch(r)
    PROVE  AInv'
<1>1. /\ pc[r] \in {"idle", "validate", "paused", "tickers", "key", "fetch"}
      /\ \E l \in {"validate", "paused", "tickers", "key", "fetch", "sign", "red", "green"} : Goto(r, l)
      /\ UNCHANGED <<debug, counter, lock, mode, number, outcome, texts>>
  BY DEF Fire, Validate, IsPaused, ReadTickers, RequireKey, Fetch, At, Goto, settings, local
<1>2. TypeCore'
  BY <1>1 DEF AInv, TypeCore, Goto, Locations, Over
<1>3. Exclusion'
  BY <1>1 DEF AInv, TypeCore, Exclusion, Goto
<1>4. Progress'
  BY <1>1 DEF AInv, TypeCore, Progress, Goto
<1>5. mode[r] = "none"
  BY <1>1 DEF AInv, Progress
<1>6. \A s \in Run : Issued(s)' => Issued(s)
  BY <1>1, <1>5 DEF AInv, TypeCore, Issued, Goto
<1>7. Distinct'
  BY <1>1, <1>6 DEF AInv, Distinct
<1> QED
  BY <1>2, <1>3, <1>4, <1>7 DEF AInv

LEMMA Signing ==
    ASSUME AInv, NEW r \in Run, SignMode(r) \/ Peek(r) \/ Acquire(r) \/ Busy(r)
    PROVE  AInv'
<1> USE DEF At, Goto, settings, local
<1>1. TypeCore'
  BY DEF AInv, TypeCore, SignMode, Peek, Acquire, Busy, Locations, Over
<1>2. Exclusion'
  BY AlertAssumption DEF AInv, TypeCore, Exclusion, SignMode, Peek, Acquire, Busy
<1>3. Progress'
  BY DEF AInv, TypeCore, Progress, SignMode, Peek, Acquire, Busy
<1>4. \A s \in Run : Issued(s)' => Issued(s) /\ s # r
  BY DEF AInv, TypeCore, Progress, Issued, SignMode, Peek, Acquire, Busy
<1>5. UNCHANGED counter /\ \A s \in Run : s # r => number'[s] = number[s]
  BY DEF AInv, TypeCore, SignMode, Peek, Acquire, Busy
<1>6. Distinct'
  BY <1>4, <1>5 DEF AInv, Distinct
<1> QED
  BY <1>1, <1>2, <1>3, <1>6 DEF AInv

LEMMA Reading ==
    ASSUME AInv, NEW r \in Run, ReadCounter(r)
    PROVE  AInv'
<1> USE DEF At, Goto, settings, local
<1>1. TypeCore'
  BY DEF AInv, TypeCore, ReadCounter, Locations, Over
<1>2. Exclusion'
  BY DEF AInv, TypeCore, Exclusion, ReadCounter
<1>3. Progress'
  BY DEF AInv, TypeCore, Progress, ReadCounter
<1>4. \A s \in Run : Issued(s)' => Issued(s) /\ s # r
  BY DEF AInv, TypeCore, Progress, Issued, ReadCounter
<1>5. Distinct'
  BY <1>4 DEF AInv, TypeCore, Distinct, ReadCounter
<1> QED
  BY <1>1, <1>2, <1>3, <1>5 DEF AInv

(* The claim proper: the number is one more than every number issued.       *)
LEMMA Writing ==
    ASSUME AInv, NEW r \in Run, WriteCounter(r)
    PROVE  AInv'
<1> USE DEF At, Goto, settings, local
<1>1. /\ number[r] = counter + 1 /\ counter' = counter + 1 /\ counter \in Nat
      /\ lock = r /\ \A s \in Run \ {r} : pc[s] # "write"
      /\ UNCHANGED <<debug, lock, mode, number, outcome, texts>>
      /\ pc' = [pc EXCEPT ![r] = "release"]
  BY DEF AInv, TypeCore, Exclusion, Progress, WriteCounter
<1>2. TypeCore'
  BY <1>1 DEF AInv, TypeCore, Locations, Over
<1>3. Exclusion'
  BY <1>1 DEF AInv, TypeCore, Exclusion
<1>4. Progress'
  BY <1>1 DEF AInv, TypeCore, Progress, WriteCounter
<1>5. \A s \in Run : Issued(s)' => s = r \/ Issued(s)
  BY <1>1 DEF AInv, TypeCore, Issued
<1>6. \A s \in Run : Issued(s) => number[s] <= counter /\ number[s] \in Nat
  BY DEF AInv, Distinct, TypeCore
<1>7. Distinct'
  BY <1>1, <1>5, <1>6 DEF AInv, TypeCore, Distinct
<1> QED
  BY <1>2, <1>3, <1>4, <1>7 DEF AInv

LEMMA Sending ==
    ASSUME AInv, NEW r \in Run,
           Release(r) \/ Tag(r) \/ SendMode(r) \/ Post(r) \/ Receipt(r) \/ Die(r)
    PROVE  AInv'
<1> USE DEF At, Goto, settings, local
<1>1. TypeCore'
  BY DEF AInv, TypeCore, Release, Tag, SendMode, Post, Receipt, Die, Locations, Over
<1>2. Exclusion'
  BY AlertAssumption DEF AInv, TypeCore, Exclusion, Release, Tag, SendMode, Post, Receipt, Die, Over
<1>3. Progress'
  BY DEF AInv, TypeCore, Progress, Release, Tag, SendMode, Post, Receipt, Die, Over
<1>4. /\ UNCHANGED <<counter, number, mode>>
      /\ \A s \in Run : s # r => pc'[s] = pc[s] /\ texts'[s] = texts[s]
      /\ pc'[r] \in {"release", "tag", "send", "post", "receipt", "green"}
            => pc[r] \in {"release", "tag", "send", "post", "receipt", "green"}
      /\ texts'[r] > 0 => texts[r] > 0 \/ pc[r] = "post"
  BY DEF AInv, TypeCore, Release, Tag, SendMode, Post, Receipt, Die, Over
<1>5. \A s \in Run : Issued(s)' => Issued(s)
  BY <1>4 DEF Issued
<1>6. Distinct'
  BY <1>4, <1>5 DEF AInv, Distinct
<1> QED
  BY <1>1, <1>2, <1>3, <1>6 DEF AInv

LEMMA Environment ==
    ASSUME AInv, ~DebugEditsMidRun, WebhookLock \/ (\E k \in Keys : EditKey(k)) \/ EditDebug
    PROVE  AInv'
<1> USE DEF settings, local
<1>1. /\ UNCHANGED <<counter, pc, mode, number, outcome, texts>>
      /\ debug' \in BOOLEAN
      /\ debug' = debug \/ \A r \in Run : pc[r] \in Over
      /\ lock' = lock \/ {lock, lock'} \subseteq {NoRun, Webhook}
  BY DEF WebhookLock, EditKey, EditDebug, AInv, TypeCore
<1>2. TypeCore'
  BY <1>1 DEF AInv, TypeCore
<1>3. Exclusion'
  BY <1>1, AlertAssumption DEF AInv, Exclusion
<1>4. Progress'
  BY <1>1 DEF AInv, Progress, Over
<1>5. Distinct'
  BY <1>1 DEF AInv, Distinct, Issued
<1> QED
  BY <1>2, <1>3, <1>4, <1>5 DEF AInv

LEMMA AInvNext == ASSUME AInv, ~DebugEditsMidRun, [Next]_vars PROVE AInv'
<1>1. CASE UNCHANGED vars
  <2>1. UNCHANGED <<counter, lock, debug, pc, mode, number, outcome, texts>>
    BY <1>1 DEF vars
  <2> QED
    BY <2>1 DEF AInv, TypeCore, Exclusion, Progress, Distinct, Issued
<1> QED
  BY <1>1, Early, Signing, Reading, Writing, Sending, Environment DEF Next, Step

LEMMA AInvariance == ASSUME ~DebugEditsMidRun PROVE Spec => []AInv
<1>1. AInv /\ [Next]_vars => AInv'
  BY AInvNext
<1> QED
  BY AInvInit, <1>1, PTL DEF Spec

(* However many runs overlap, die or lose the lock, no two accepted texts   *)
(* carry the same number.                                                   *)
THEOREM NumbersAreUnique == ASSUME ~DebugEditsMidRun PROVE Spec => []UniqueNumbers
<1>1. AInv => UniqueNumbers
  BY DEF AInv, TypeCore, Progress, Distinct, Issued, UniqueNumbers
<1> QED
  BY AInvariance, <1>1, PTL

-----------------------------------------------------------------------------
(* Gaps: every number up to the counter has a run that answers for it.      *)
Answers(r) == /\ mode[r] = "live"
              /\ \/ pc[r] \in {"release", "tag", "send", "post", "receipt", "red", "dead"}
                 \/ pc[r] = "green" /\ (texts[r] > 0 \/ outcome[r] = "failed")

Claimed == \A n \in (FirstNumber + 1)..counter : \E r \in Run : number[r] = n /\ Answers(r)

LEMMA ClaimedInit == Init => Claimed
  BY AlertAssumption DEF Init, Claimed

(* A step that leaves the counter alone, and every answering run answering. *)
LEMMA StillClaimed ==
    ASSUME Claimed, UNCHANGED counter,
           \A r \in Run : Answers(r) => Answers(r)' /\ number'[r] = number[r]
    PROVE  Claimed'
  BY DEF Claimed

LEMMA StepAnswers ==
    ASSUME AInv, NEW r \in Run, Fire(r) \/ Step(r) \/ Die(r), ~WriteCounter(r)
    PROVE  /\ UNCHANGED counter
           /\ \A s \in Run : Answers(s) => Answers(s)' /\ number'[s] = number[s]
<1> USE DEF At, Goto, settings, local, Answers
<1>1. CASE Fire(r) \/ Validate(r) \/ IsPaused(r) \/ ReadTickers(r) \/ RequireKey(r) \/ Fetch(r)
  <2>1. /\ pc[r] \in {"idle", "validate", "paused", "tickers", "key", "fetch"}
        /\ \A s \in Run : s # r => pc'[s] = pc[s]
        /\ UNCHANGED <<counter, mode, number, outcome, texts>>
    BY <1>1 DEF Fire, Validate, IsPaused, ReadTickers, RequireKey, Fetch, AInv, TypeCore
  <2> QED
    BY <2>1
<1>2. CASE SignMode(r) \/ Peek(r) \/ Acquire(r) \/ Busy(r)
  BY <1>2 DEF AInv, TypeCore, SignMode, Peek, Acquire, Busy
<1>3. CASE ReadCounter(r)
  BY <1>3 DEF AInv, TypeCore, ReadCounter
<1>4. CASE Release(r) \/ Tag(r)
  BY <1>4 DEF AInv, TypeCore, Release, Tag
<1>5. CASE SendMode(r)
  <2>1. mode[r] = "live" => ~debug
    BY <1>5 DEF SendMode, AInv, Progress
  <2> QED
    BY <1>5, <2>1 DEF AInv, TypeCore, SendMode
<1>6. CASE Post(r)
  BY <1>6 DEF AInv, TypeCore, Post
<1>8. CASE Receipt(r)
  <2>1. texts[r] > 0
    BY <1>8 DEF AInv, Progress, Receipt
  <2> QED
    BY <1>8, <2>1 DEF AInv, TypeCore, Receipt
<1>7. CASE Die(r)
  BY <1>7 DEF AInv, TypeCore, Die, Over
<1> QED
  BY <1>1, <1>2, <1>3, <1>4, <1>5, <1>6, <1>7, <1>8 DEF Step

(* The write claims one number more, and its run answers for that one.      *)
LEMMA WriteClaims ==
    ASSUME AInv, Claimed, NEW r \in Run, WriteCounter(r)
    PROVE  Claimed'
<1>1. /\ number[r] = counter + 1 /\ counter' = counter + 1 /\ counter \in Nat
      /\ mode[r] = "live" /\ pc[r] = "write"
      /\ UNCHANGED <<mode, number, outcome, texts>>
      /\ pc'[r] = "release"
      /\ \A s \in Run : s # r => pc'[s] = pc[s]
  BY DEF AInv, TypeCore, Progress, WriteCounter, At, Goto, local
<1>2. \A s \in Run : Answers(s) => Answers(s)'
  BY <1>1 DEF Answers
<1>3. Answers(r)'
  BY <1>1 DEF Answers
<1> SUFFICES ASSUME NEW n \in ((FirstNumber + 1)..counter)'
             PROVE  \E s \in Run : (number[s])' = n /\ Answers(s)'
  BY DEF Claimed
<1>4. n \in (FirstNumber + 1)..counter \/ n = counter + 1
  BY <1>1, AlertAssumption
<1> QED
  BY <1>1, <1>2, <1>3, <1>4 DEF Claimed

LEMMA ClaimedNext == ASSUME AInv, Claimed, [Next]_vars PROVE Claimed'
<1>1. ASSUME NEW r \in Run, Fire(r) \/ Step(r) \/ Die(r) PROVE Claimed'
  BY <1>1, StepAnswers, WriteClaims, StillClaimed
<1>2. CASE WebhookLock \/ (\E k \in Keys : EditKey(k)) \/ EditDebug \/ UNCHANGED vars
  <2>1. UNCHANGED <<counter, pc, mode, number, outcome, texts>>
    BY <1>2 DEF WebhookLock, EditKey, EditDebug, vars, local
  <2> QED
    BY <2>1 DEF Claimed, Answers
<1> QED
  BY <1>1, <1>2 DEF Next

(* However many runs overlap and wherever they die, a number the recipient  *)
(* never saw belongs to a run still going, or one that came to grief.       *)
THEOREM GapsAlwaysHaveCauses == ASSUME ~DebugEditsMidRun PROVE Spec => []GapsHaveCauses
<1>1. AInv /\ Claimed /\ [Next]_vars => Claimed'
  BY ClaimedNext
<1>2. Claimed => GapsHaveCauses
  BY DEF Claimed, Answers, GapsHaveCauses
<1> QED
  BY AInvariance, ClaimedInit, <1>1, <1>2, PTL DEF Spec

-----------------------------------------------------------------------------
(* Slots: what quotesFor has collected is a prefix of the list, and has no  *)
(* rate limit in it while the loop goes on.                                 *)
Unquoted == {"idle", "validate", "paused", "tickers", "key"}
Quoted == {"sign", "lock", "read", "write", "release", "peek", "tag", "send", "post", "receipt"}

Slots == \A r \in Run :
    /\ pc[r] \in Unquoted => quotes[r] = <<>>
    /\ pc[r] = "key" => Len(asked[r]) > 0
    /\ \A i \in 1..Len(quotes[r]) : /\ i <= Len(asked[r])
                                    /\ quotes[r][i].ticker = asked[r][i]
    /\ pc[r] = "fetch" =>
          /\ Len(quotes[r]) < Len(asked[r])
          /\ \A i \in 1..Len(quotes[r]) : quotes[r][i].verdict # "rate_limited"
    /\ pc[r] \in Quoted => Len(quotes[r]) = Len(asked[r])

QInv == TypeOK /\ Slots

(* What TypeCore leaves out. *)
TypeRest == /\ missing \in SUBSET Keys
            /\ edits \in 0..MaxEdits
            /\ asked \in [Run -> Seq(Ticker)]
            /\ quotes \in [Run -> Seq(Quotes)]
            /\ calls \in [Run -> Nat]

LEMMA TypeParts == TypeOK <=> TypeCore /\ TypeRest
  BY DEF TypeOK, TypeCore, TypeRest

LEMMA ListsAreSeqs == \A l \in Lists : l \in Seq(Ticker)
  BY AlertAssumption, SeqDef DEF Lists

(* What one call adds: one slot, or every slot that is left.                *)
LEMMA CollectedSlots ==
    ASSUME TypeOK, Slots, NEW r \in Run, pc[r] = "fetch", NEW v \in Verdicts
    PROVE  /\ Collected(r, v) \in Seq(Quotes)
           /\ Len(Collected(r, v)) <= Len(asked[r])
           /\ \A k \in 1..Len(Collected(r, v)) : Collected(r, v)[k].ticker = asked[r][k]
           /\ Len(Collected(r, v)) < Len(asked[r]) =>
                 \A k \in 1..Len(Collected(r, v)) : Collected(r, v)[k].verdict # "rate_limited"
<1> DEFINE a == asked[r]
           before == quotes[r]
           i == Len(before) + 1
           slot == [ticker |-> a[i], verdict |-> v]
           fill(k) == [ticker |-> a[i + k], verdict |-> "rate_limited"]
           q == Append(before, slot)
           rest == [k \in 1..(Len(a) - i) |-> fill(k)]
<1>1. /\ a \in Seq(Ticker) /\ before \in Seq(Quotes)
      /\ i \in 1..Len(a)
      /\ \A k \in 1..Len(before) : /\ before[k].ticker = a[k]
                                   /\ before[k].verdict # "rate_limited"
  <2>1. a \in Seq(Ticker) /\ before \in Seq(Quotes) /\ Len(before) < Len(a)
    BY DEF TypeOK, Slots
  <2>2. Len(before) \in Nat /\ Len(a) \in Nat
    BY <2>1
  <2> QED
    BY <2>1, <2>2 DEF Slots
<1>2. slot \in Quotes
  <2>1. a[i] \in Ticker
    BY <1>1
  <2> QED
    BY <2>1 DEF Quotes
<1>3. /\ q \in Seq(Quotes) /\ Len(q) = i
      /\ \A k \in 1..Len(q) : q[k] = IF k = i THEN slot ELSE before[k]
  BY <1>1, <1>2
<1>4. /\ \A k \in 1..Len(q) : q[k].ticker = a[k]
      /\ v # "rate_limited" => \A k \in 1..Len(q) : q[k].verdict # "rate_limited"
  <2>1. slot.ticker = a[i] /\ slot.verdict = v
    OBVIOUS
  <2>2. \A k \in 1..Len(q) : k = i \/ k \in 1..Len(before)
    BY <1>1, <1>3
  <2> HIDE DEF q, slot
  <2> QED
    BY <1>1, <1>3, <2>1, <2>2
<1>5. CASE v # "rate_limited"
  <2>1. Collected(r, v) = q
    BY <1>5 DEF Collected
  <2> HIDE DEF q
  <2> QED
    BY <1>1, <1>3, <1>4, <1>5, <2>1
<1>6. CASE v = "rate_limited"
  <2>1. Collected(r, v) = q \o rest
    BY <1>6 DEF Collected
  <2>2. Len(a) - i \in Nat /\ i \in Nat /\ Len(a) \in Nat
    BY <1>1
  <2>3. ASSUME NEW k \in 1..(Len(a) - i) PROVE fill(k) \in Quotes /\ fill(k).ticker = a[i + k]
    <3> HIDE DEF i
    <3>1. i + k \in 1..Len(a)
      BY <2>2
    <3>2. a[i + k] \in Ticker
      BY <1>1, <3>1
    <3> QED
      BY <3>2 DEF Quotes, Verdicts
  <2> HIDE DEF fill, q, i
  <2>4. /\ rest \in [1..(Len(a) - i) -> Quotes]
        /\ \A k \in 1..(Len(a) - i) : rest[k].ticker = a[i + k]
    BY <2>3
  <2> HIDE DEF rest
  <2>5. rest \in Seq(Quotes) /\ Len(rest) = Len(a) - i
    <3>1. rest \in Seq(Quotes) /\ DOMAIN rest = 1..(Len(a) - i)
      BY <2>2, <2>4, SeqDef
    <3> QED
      BY <2>2, <3>1, LenProperties
  <2>6. /\ q \o rest \in Seq(Quotes) /\ Len(q \o rest) = Len(a)
        /\ \A k \in 1..Len(a) : (q \o rest)[k] = IF k <= i THEN q[k] ELSE rest[k - i]
    <3>1. /\ q \o rest \in Seq(Quotes) /\ Len(q \o rest) = Len(q) + Len(rest)
          /\ \A k \in 1..(Len(q) + Len(rest)) :
                (q \o rest)[k] = IF k <= Len(q) THEN q[k] ELSE rest[k - Len(q)]
      BY <1>3, <2>5, ConcatProperties
    <3>2. Len(q) = i /\ Len(q) + Len(rest) = Len(a)
      BY <1>3, <2>2, <2>5
    <3> QED
      BY <3>1, <3>2
  <2>7. ASSUME NEW k \in 1..Len(a) PROVE (q \o rest)[k].ticker = a[k]
    <3>1. CASE k <= i
      <4>1. k \in 1..Len(q)
        BY <3>1, <1>3, <2>2
      <4> QED
        BY <3>1, <4>1, <2>6, <1>4
    <3>2. CASE k > i
      <4>1. k - i \in 1..(Len(a) - i) /\ i + (k - i) = k
        BY <3>2, <2>2
      <4>2. rest[k - i].ticker = a[k]
        BY <4>1, <2>4
      <4>3. (q \o rest)[k] = rest[k - i]
        <5>1. ~(k <= i)
          BY <3>2, <2>2
        <5>2. (q \o rest)[k] = IF k <= i THEN q[k] ELSE rest[k - i]
          BY <2>6
        <5> QED
          BY <5>1, <5>2
      <4> QED
        BY <4>2, <4>3
    <3>3. k <= i \/ k > i
      BY <2>2
    <3> QED
      BY <3>1, <3>2, <3>3
  <2> QED
    BY <2>1, <2>2, <2>6, <2>7
<1> QED
  BY <1>5, <1>6

LEMMA QInvInit == Init => QInv
<1> SUFFICES ASSUME Init PROVE QInv
  OBVIOUS
<1>1. TypeOK
  BY AlertAssumption DEF Init, TypeOK, Locations, Over
<1>2. Slots
  BY DEF Init, Slots, Quoted, Unquoted
<1> QED
  BY <1>1, <1>2 DEF QInv

LEMMA FetchSlots == ASSUME QInv, NEW r \in Run, Fetch(r) PROVE QInv'
<1>1. PICK v \in Verdicts :
         /\ quotes' = [quotes EXCEPT ![r] = Collected(r, v)]
         /\ Goto(r, IF Len(quotes'[r]) < Len(asked[r]) THEN "fetch" ELSE "sign")
  BY DEF Fetch
<1> DEFINE q == Collected(r, v)
<1>2. /\ q \in Seq(Quotes)
      /\ Len(q) <= Len(asked[r])
      /\ \A i \in 1..Len(q) : q[i].ticker = asked[r][i]
      /\ Len(q) < Len(asked[r]) => \A i \in 1..Len(q) : q[i].verdict # "rate_limited"
  BY CollectedSlots DEF QInv, Fetch, At
<1>3. /\ quotes' = [quotes EXCEPT ![r] = q]
      /\ pc' = [pc EXCEPT ![r] = IF Len(q) < Len(asked[r]) THEN "fetch" ELSE "sign"]
      /\ UNCHANGED <<missing, debug, edits, counter, lock, asked, mode, number, outcome, texts>>
      /\ calls' = [calls EXCEPT ![r] = @ + 1]
  BY <1>1 DEF QInv, TypeOK, Fetch, Goto, settings
<1> HIDE DEF q
<1>4. TypeOK'
  <2>1. /\ quotes' \in [Run -> Seq(Quotes)] /\ pc' \in [Run -> Locations]
        /\ calls' \in [Run -> Nat]
    BY <1>2, <1>3 DEF QInv, TypeOK, Locations
  <2>. QED
    BY <1>3, <2>1 DEF QInv, TypeOK
<1>5. Slots'
  <2> SUFFICES ASSUME NEW s \in Run
               PROVE  /\ (pc[s] \in Unquoted => quotes[s] = <<>>)'
                      /\ (pc[s] = "key" => Len(asked[s]) > 0)'
                      /\ (\A i \in 1..Len(quotes[s]) : /\ i <= Len(asked[s])
                                                       /\ quotes[s][i].ticker = asked[s][i])'
                      /\ (pc[s] = "fetch" =>
                            /\ Len(quotes[s]) < Len(asked[s])
                            /\ \A i \in 1..Len(quotes[s]) :
                                  quotes[s][i].verdict # "rate_limited")'
                      /\ (pc[s] \in Quoted => Len(quotes[s]) = Len(asked[s]))'
    BY DEF Slots
  <2>1. CASE s # r
    BY <2>1, <1>3 DEF QInv, TypeOK, Slots
  <2>2. CASE s = r
    <3>1. /\ quotes'[s] = q /\ asked'[s] = asked[s] /\ asked[s] \in Seq(Ticker)
          /\ pc'[s] = IF Len(q) < Len(asked[s]) THEN "fetch" ELSE "sign"
      BY <2>2, <1>3 DEF QInv, TypeOK
    <3> QED
      BY <2>2, <3>1, <1>2 DEF Unquoted, Quoted
  <2> QED
    BY <2>1, <2>2
<1> QED
  BY <1>4, <1>5 DEF QInv

LEMMA ReadTickersSlots == ASSUME QInv, NEW r \in Run, ReadTickers(r) PROVE QInv'
<1>1. PICK l \in Lists : /\ asked' = [asked EXCEPT ![r] = l]
                         /\ Goto(r, IF l = <<>> THEN "sign" ELSE "key")
  BY DEF ReadTickers
<1>2. l \in Seq(Ticker) /\ (l # <<>> => Len(l) > 0)
  BY ListsAreSeqs, EmptySeq
<1>3. /\ pc[r] = "tickers" /\ quotes[r] = <<>>
      /\ UNCHANGED <<missing, debug, edits, counter, lock, quotes, calls, mode, number, outcome, texts>>
  BY DEF ReadTickers, At, settings, QInv, Slots, Unquoted
<1>4. TypeOK'
  <2>1. pc' \in [Run -> Locations] /\ asked' \in [Run -> Seq(Ticker)]
    BY <1>1, <1>2 DEF QInv, TypeOK, Goto, Locations
  <2>. QED
    BY <1>3, <2>1 DEF QInv, TypeOK
<1>5. Slots'
  <2>1. /\ quotes'[r] = <<>> /\ Len(quotes'[r]) = 0 /\ asked'[r] = l
        /\ pc'[r] = IF l = <<>> THEN "sign" ELSE "key"
        /\ \A s \in Run : s # r => asked'[s] = asked[s] /\ pc'[s] = pc[s]
    BY <1>1, <1>3 DEF QInv, TypeOK, Goto
  <2>2. l = <<>> => Len(l) = 0
    OBVIOUS
  <2>. QED
    BY <1>2, <1>3, <2>1, <2>2 DEF QInv, Slots, Unquoted, Quoted
<1> QED
  BY <1>4, <1>5 DEF QInv

(* Every other step leaves the list and its slots as they are.              *)
LEMMA OtherSteps ==
    ASSUME QInv, NEW r \in Run,
           Fire(r) \/ Die(r) \/ (Step(r) /\ ~Fetch(r) /\ ~ReadTickers(r))
    PROVE  QInv'
<1> USE DEF At, Goto, settings, local
<1>1. TypeCore /\ TypeRest
  BY TypeParts DEF QInv
<1>2. TypeCore'
  <2> USE <1>1 DEF TypeCore, Locations, Over
  <2>1. CASE Fire(r) \/ Die(r) \/ Validate(r) \/ IsPaused(r) \/ RequireKey(r)
    BY <2>1 DEF Fire, Die, Validate, IsPaused, RequireKey
  <2>2. CASE SignMode(r) \/ Peek(r) \/ Acquire(r) \/ Busy(r)
    BY <2>2 DEF SignMode, Peek, Acquire, Busy
  <2>3. CASE ReadCounter(r) \/ WriteCounter(r) \/ Release(r)
    BY <2>3 DEF ReadCounter, WriteCounter, Release
  <2>4. CASE Tag(r) \/ SendMode(r) \/ Post(r) \/ Receipt(r)
    BY <2>4 DEF Tag, SendMode, Post, Receipt
  <2> QED
    BY <2>1, <2>2, <2>3, <2>4 DEF Step
<1>3. UNCHANGED <<missing, edits, asked, quotes, calls>>
  BY DEF Fire, Die, Step, Validate, IsPaused, RequireKey, SignMode, Peek,
     Acquire, Busy, ReadCounter, WriteCounter, Release, Tag, SendMode, Post, Receipt
<1>4. TypeOK'
  <2>1. TypeRest'
    BY <1>1, <1>3 DEF TypeRest
  <2> QED
    BY <1>2, <2>1 DEF TypeOK, TypeCore, TypeRest
<1>5. /\ UNCHANGED <<asked, quotes>>
      /\ \A s \in Run : s # r => pc'[s] = pc[s]
      /\ \/ pc'[r] \in {"green", "red", "dead"}
         \/ pc[r] \in Unquoted /\ pc'[r] \in Unquoted \ {"key"}
         \/ pc[r] = "key" /\ pc'[r] = "fetch"
         \/ pc[r] \in Quoted /\ pc'[r] \in Quoted
  BY <1>1 DEF TypeCore, Fire, Die, Step, Validate, IsPaused, RequireKey, SignMode, Peek,
     Acquire, Busy, ReadCounter, WriteCounter, Release, Tag, SendMode, Post, Receipt,
     Unquoted, Quoted
<1>6. Slots'
  BY <1>5 DEF QInv, Slots, Unquoted, Quoted
<1> QED
  BY <1>4, <1>6 DEF QInv

LEMMA QInvNext == ASSUME QInv, [Next]_vars PROVE QInv'
<1>1. ASSUME NEW r \in Run, Fire(r) \/ Step(r) \/ Die(r) PROVE QInv'
  BY <1>1, FetchSlots, ReadTickersSlots, OtherSteps
<1>2. CASE WebhookLock \/ (\E k \in Keys : EditKey(k)) \/ EditDebug \/ UNCHANGED vars
  <2>1. UNCHANGED <<asked, quotes, pc>>
    BY <1>2 DEF WebhookLock, EditKey, EditDebug, vars, local
  <2>2. TypeCore /\ TypeRest
    BY TypeParts DEF QInv
  <2>3. TypeCore'
    BY <1>2, <2>2 DEF TypeCore, WebhookLock, EditKey, EditDebug, vars, local, settings
  <2>4. UNCHANGED <<asked, quotes, calls>>
    BY <1>2 DEF WebhookLock, EditKey, EditDebug, vars, local
  <2>5. missing' \in SUBSET Keys /\ edits' \in 0..MaxEdits
    BY <1>2, <2>2, AlertAssumption
       DEF TypeRest, WebhookLock, EditKey, EditDebug, vars, settings
  <2>6. Slots'
    BY <2>1 DEF QInv, Slots
  <2>7. TypeOK'
    BY <2>2, <2>3, <2>4, <2>5 DEF TypeOK, TypeCore, TypeRest
  <2> QED
    BY <2>6, <2>7 DEF QInv
<1> QED
  BY <1>1, <1>2 DEF Next

LEMMA QInvariance == Spec => []QInv
<1>1. QInv /\ [Next]_vars => QInv'
  BY QInvNext
<1> QED
  BY QInvInit, <1>1, PTL DEF Spec

(* A run's locals, the settings and the counter keep their types, whatever  *)
(* the owner edits and when.                                                *)
THEOREM AlertTypes == Spec => []TypeOK
<1>1. QInv => TypeOK
  BY DEF QInv
<1> QED
  BY QInvariance, <1>1, PTL

(* No run texts twice, also when it dies, when the receipt for its text is  *)
(* lost, or when DEBUG_MODE is edited meanwhile (SmsService.send never      *)
(* retries).                                                                *)
THEOREM OneTextPerRun == Spec => []AtMostOneText
<1> DEFINE Ended == \A r \in Run : /\ texts[r] # 0 => pc[r] \in {"receipt", "green", "dead"}
                                  /\ texts[r] \in {0, 1}
<1>1. Init => Ended
  BY DEF Init
<1>2. TypeOK /\ Ended /\ [Next]_vars => Ended'
  <2> SUFFICES ASSUME TypeOK, Ended, [Next]_vars, NEW r \in Run
               PROVE  /\ texts'[r] # 0 => pc'[r] \in {"receipt", "green", "dead"}
                      /\ texts'[r] \in {0, 1}
    OBVIOUS
  <2> USE DEF TypeOK, At, Goto, Over, settings, local
  <2>1. CASE UNCHANGED vars \/ WebhookLock \/ EditDebug \/ \E m \in Keys : EditKey(m)
    BY <2>1 DEF vars, WebhookLock, EditKey, EditDebug
  <2>2. ASSUME NEW q \in Run, Fire(q) \/ Step(q) \/ Die(q), ~Post(q)
        PROVE  /\ texts'[r] # 0 => pc'[r] \in {"receipt", "green", "dead"}
               /\ texts'[r] \in {0, 1}
    <3>1. UNCHANGED texts
      BY <2>2 DEF Step, Fire, Die, Validate, IsPaused, ReadTickers, RequireKey, Fetch, SignMode,
         Peek, Acquire, Busy, ReadCounter, WriteCounter, Release, Tag, SendMode, Receipt
    <3>2. /\ r # q => pc'[r] = pc[r]
          /\ pc[q] \in {"receipt", "green", "dead"} => pc'[q] \in {"receipt", "green", "dead"}
      <4>1. CASE Fire(q) \/ Die(q)
        BY <4>1 DEF Fire, Die
      <4>2. CASE Validate(q) \/ IsPaused(q) \/ ReadTickers(q) \/ RequireKey(q) \/ Fetch(q)
        BY <4>2 DEF Validate, IsPaused, ReadTickers, RequireKey, Fetch
      <4>3. CASE SignMode(q) \/ Peek(q) \/ Acquire(q) \/ Busy(q) \/ ReadCounter(q)
        BY <4>3 DEF SignMode, Peek, Acquire, Busy, ReadCounter
      <4>4. CASE WriteCounter(q) \/ Release(q) \/ Tag(q) \/ SendMode(q) \/ Receipt(q)
        BY <4>4 DEF WriteCounter, Release, Tag, SendMode, Receipt
      <4>. QED
        BY <2>2, <4>1, <4>2, <4>3, <4>4 DEF Step
    <3>. QED
      BY <3>1, <3>2
  <2>3. ASSUME NEW q \in Run, Post(q)
        PROVE  /\ texts'[r] # 0 => pc'[r] \in {"receipt", "green", "dead"}
               /\ texts'[r] \in {0, 1}
    <3>1. pc[q] = "post" /\ texts[q] = 0
      BY <2>3 DEF Post
    <3>2. /\ pc'[q] \in {"receipt", "green"} /\ texts'[q] \in {0, 1}
          /\ r # q => pc'[r] = pc[r] /\ texts'[r] = texts[r]
      BY <2>3, <3>1 DEF Post
    <3>. QED
      BY <3>2
  <2>. QED
    BY <2>1, <2>2, <2>3 DEF Next, Step
<1>3. TypeOK /\ Ended => AtMostOneText
  <2> SUFFICES ASSUME TypeOK, Ended, NEW r \in Run PROVE texts[r] <= 1
    BY DEF AtMostOneText
  <2>1. texts[r] = 0 \/ texts[r] = 1
    OBVIOUS
  <2>. QED
    BY <2>1
<1>. QED
  BY AlertTypes, <1>1, <1>2, <1>3, PTL DEF Spec

(* A price never stands under another ticker's name, and no slot is         *)
(* dropped, for lists of any length and a rate limit at any place.          *)
THEOREM SlotsAlwaysMatch == Spec => []SlotsMatchList
<1>1. QInv => SlotsMatchList
  BY DEF QInv, Slots, SlotsMatchList, Quoted
<1> QED
  BY QInvariance, <1>1, PTL

(* Once a call came back rate limited the run makes no other.               *)
THEOREM LimitEndsCalls == Spec => NoCallAfterLimit
<1>1. ASSUME QInv, [Next]_vars, NEW r \in Run, calls'[r] # calls[r]
      PROVE  \A i \in 1..Len(quotes[r]) : quotes[r][i].verdict # "rate_limited"
  <2>1. PICK s \in Run : Fetch(s)
    BY <1>1 DEF Next, Step, vars, local, Fire, Die, Validate, IsPaused, ReadTickers,
       RequireKey, SignMode, Peek, Acquire, Busy, ReadCounter, WriteCounter, Release, Tag,
       SendMode, Post, Receipt, WebhookLock, EditKey, EditDebug
  <2>2. s = r
    BY <1>1, <2>1 DEF Fetch, QInv, TypeOK
  <2> QED
    BY <2>1, <2>2, <1>1 DEF Fetch, At, QInv, Slots
<1>2. QInv /\ [Next]_vars =>
        [\A r \in Run : (\E i \in 1..Len(quotes[r]) : quotes[r][i].verdict = "rate_limited")
                           => calls'[r] = calls[r]]_vars
  BY <1>1
<1> QED
  BY QInvariance, <1>2, PTL DEF Spec, NoCallAfterLimit

-----------------------------------------------------------------------------
(***************************************************************************)
(* From end to end.  While DEBUG_MODE is left alone the numbers of the     *)
(* texts are what Verifier takes them to be: issued one after another, so  *)
(* that a number says which run's text it is.  Every step of Texts is then *)
(* a step of Verifier, and what its verdicts are worth carries over.       *)
(***************************************************************************)
P == INSTANCE Verifier_proofs WITH
        MaxRestarts <- 0,
        restarts <- 0,
        issued <- [k \in 1..(counter - FirstNumber) |-> FirstNumber + k],
        inbox <- [k \in 1..Len(inbox) |-> number[inbox[k]] - FirstNumber],
        pc <- click,
        n <- num

(* There are finitely many runs, and the bound on the numbers is past all   *)
(* that they can claim.                                                     *)
Fits == /\ Null \notin Nat /\ MaxNumber \in Nat /\ MaxInbox \in Nat
        /\ IsFiniteSet(Run)
        /\ FirstNumber + Cardinality(Run) <= MaxNumber

(* What has been claimed is past FirstNumber.                               *)
Above == /\ counter >= FirstNumber
         /\ \A r \in Run : Issued(r) => number[r] > FirstNumber

(* A text that has arrived is of a run that has posted it, and has a number. *)
Delivered == /\ inbox \in Seq(Run)
             /\ \A k \in 1..Len(inbox) : texts[inbox[k]] > 0 /\ number[inbox[k]] # 0

TInv == AInv /\ Claimed /\ Above /\ Delivered

LEMMA FitsVerifier == ASSUME Fits PROVE P!VerifierAssumption
<1>1. Cardinality(Run) \in Nat
  BY FS_CardinalityType DEF Fits
<1>. QED
  BY <1>1, AlertAssumption DEF Fits, P!VerifierAssumption

(* The numbers claimed, each by a run of its own, are no more than the runs. *)
LEMMA NumbersFit ==
    ASSUME Fits, NEW c \in Nat, c >= FirstNumber, NEW of,
           \A m \in (FirstNumber + 1)..c : \E r \in Run : of[r] = m
    PROVE  c <= MaxNumber
<1> DEFINE C == (FirstNumber + 1)..c
           owner == [m \in C |-> CHOOSE r \in Run : of[r] = m]
<1>1. \A m \in C : owner[m] \in Run /\ of[owner[m]] = m
  OBVIOUS
<1>2. owner \in Injection(C, Run)
  <2>1. owner \in [C -> Run] /\ \A x, y \in C : owner[x] = owner[y] => x = y
    BY <1>1
  <2>. QED
    BY <2>1 DEF Injection, IsInjective
<1>3. Cardinality(C) <= Cardinality(Run)
  BY <1>2, FS_Injection DEF Fits
<1>4. Cardinality(C) = IF FirstNumber + 1 > c THEN 0 ELSE c - (FirstNumber + 1) + 1
  BY FS_Interval, AlertAssumption
<1>5. Cardinality(Run) \in Nat
  BY FS_CardinalityType DEF Fits
<1> HIDE DEF C
<1>. QED
  BY <1>3, <1>4, <1>5, AlertAssumption DEF Fits

(* A run whose text has arrived has nothing left to do but end, and its     *)
(* number is its own.                                                       *)
LEMMA ArrivedRuns ==
    ASSUME AInv, Above, Delivered, NEW k \in 1..Len(inbox)
    PROVE  /\ inbox[k] \in Run /\ texts[inbox[k]] > 0 /\ Issued(inbox[k])
           /\ number[inbox[k]] \in (FirstNumber + 1)..counter
<1>1. inbox[k] \in Run
  BY ElementOfSeq DEF Delivered
<1>2. texts[inbox[k]] > 0 /\ Issued(inbox[k])
  BY <1>1 DEF AInv, Progress, Delivered, Issued
<1>. QED
  BY <1>1, <1>2, AlertAssumption DEF AInv, Above, Distinct, TypeCore

(* No step of the runs changes the number on a text that was accepted, and  *)
(* only the write moves the counter.                                        *)
LEMMA RunsKeepNumbers ==
    ASSUME AInv, [Next]_vars
    PROVE  /\ \A s \in Run : texts[s] > 0 =>
                 number'[s] = number[s] /\ texts'[s] = texts[s]
           /\ \/ UNCHANGED counter
              \/ \E r \in Run : WriteCounter(r)
<1> USE DEF At, Goto, settings, local
<1>1. ASSUME NEW r \in Run, Fire(r) \/ Step(r) \/ Die(r)
      PROVE  /\ \A s \in Run : texts[s] > 0 => number'[s] = number[s] /\ texts'[s] = texts[s]
             /\ UNCHANGED counter \/ WriteCounter(r)
  <2> USE DEF AInv, TypeCore, Progress
  <2>1. CASE Fire(r) \/ Validate(r) \/ IsPaused(r) \/ ReadTickers(r) \/ RequireKey(r) \/ Fetch(r)
    BY <2>1 DEF Fire, Validate, IsPaused, ReadTickers, RequireKey, Fetch
  <2>2. CASE SignMode(r) \/ Peek(r) \/ Acquire(r) \/ Busy(r) \/ ReadCounter(r)
    BY <2>2 DEF SignMode, Peek, Acquire, Busy, ReadCounter
  <2>3. CASE WriteCounter(r) \/ Release(r) \/ Tag(r)
    BY <2>3 DEF WriteCounter, Release, Tag
  <2>4. CASE SendMode(r) \/ Receipt(r) \/ Die(r)
    BY <2>4 DEF SendMode, Receipt, Die
  <2>5. CASE Post(r)
    <3>1. ~(texts[r] > 0)
      BY <2>5 DEF Post
    <3>2. UNCHANGED <<number, counter>> /\ \A s \in Run : s # r => texts'[s] = texts[s]
      BY <2>5 DEF Post
    <3>. QED
      BY <3>1, <3>2
  <2>. QED
    BY <1>1, <2>1, <2>2, <2>3, <2>4, <2>5 DEF Step
<1>2. CASE WebhookLock \/ (\E k \in Keys : EditKey(k)) \/ EditDebug \/ UNCHANGED vars
  BY <1>2 DEF WebhookLock, EditKey, EditDebug, vars
<1>. QED
  BY <1>1, <1>2 DEF Next

(* A number is issued when it is written, and it is the next.               *)
LEMMA AboveNext == ASSUME AInv, Above, [Next]_vars PROVE Above'
<1>1. ASSUME NEW r \in Run, WriteCounter(r) PROVE Above'
  <2>1. /\ number[r] = counter + 1 /\ counter' = counter + 1 /\ counter \in Nat
        /\ \A s \in Run : Issued(s)' => s = r \/ Issued(s)
        /\ UNCHANGED number
    BY <1>1 DEF AInv, TypeCore, Progress, Issued, WriteCounter, At, Goto, local
  <2>. QED
    BY <2>1, AlertAssumption DEF Above
<1>2. ASSUME NEW r \in Run, Fire(r) \/ Step(r) \/ Die(r), ~WriteCounter(r) PROVE Above'
  <2> USE DEF At, Goto, settings, local, Issued
  <2>1. UNCHANGED counter
    BY <1>2, StepAnswers
  <2>2. \A s \in Run : Issued(s)' => Issued(s) /\ number'[s] = number[s]
    <3> USE DEF AInv, TypeCore
    <3>1. CASE Fire(r) \/ Validate(r) \/ IsPaused(r) \/ ReadTickers(r) \/ RequireKey(r) \/ Fetch(r)
      BY <3>1 DEF Progress, Fire, Validate, IsPaused, ReadTickers, RequireKey, Fetch
    <3>2. CASE SignMode(r) \/ Peek(r) \/ Acquire(r) \/ Busy(r) \/ ReadCounter(r)
      BY <3>2 DEF Progress, SignMode, Peek, Acquire, Busy, ReadCounter
    <3>3. CASE Release(r) \/ Tag(r) \/ SendMode(r) \/ Post(r) \/ Receipt(r) \/ Die(r)
      BY <3>3 DEF Release, Tag, SendMode, Post, Receipt, Die
    <3>. QED
      BY <1>2, <3>1, <3>2, <3>3 DEF Step
  <2>. QED
    BY <2>1, <2>2 DEF Above
<1>3. CASE WebhookLock \/ (\E k \in Keys : EditKey(k)) \/ EditDebug \/ UNCHANGED vars
  <2>1. UNCHANGED <<counter, pc, mode, number, texts>>
    BY <1>3 DEF WebhookLock, EditKey, EditDebug, vars, local
  <2>. QED
    BY <2>1 DEF Above, Issued
<1>. QED
  BY <1>1, <1>2, <1>3 DEF Next

LEMMA DeliveredNext ==
    ASSUME AInv, Above, Delivered, [TNext]_tvars
    PROVE  Delivered'
<1>1. \A k \in 1..Len(inbox) : inbox[k] \in Run /\ texts[inbox[k]] > 0
  BY ArrivedRuns
<1>2. CASE Next /\ UNCHANGED <<inbox, device>>
  <2>1. \A k \in 1..Len(inbox) : /\ number'[inbox[k]] = number[inbox[k]]
                                 /\ texts'[inbox[k]] = texts[inbox[k]]
    BY <1>1, <1>2, RunsKeepNumbers
  <2>. QED
    BY <1>2, <2>1 DEF Delivered
<1>3. ASSUME NEW r \in Run, Arrive(r) PROVE Delivered'
  <2>1. /\ inbox' = Append(inbox, r) /\ inbox \in Seq(Run)
        /\ UNCHANGED <<texts, number>> /\ texts[r] > 0 /\ number[r] # 0
    BY <1>3 DEF Arrive, Delivered, vars
  <2>2. /\ inbox' \in Seq(Run) /\ Len(inbox') = Len(inbox) + 1 /\ Len(inbox) \in Nat
        /\ \A k \in 1..Len(inbox) : inbox'[k] = inbox[k]
        /\ inbox'[Len(inbox) + 1] = r
    BY <2>1, AppendProperties
  <2>3. \A k \in 1..Len(inbox') : k \in 1..Len(inbox) \/ k = Len(inbox) + 1
    BY <2>2
  <2>. QED
    BY <2>1, <2>2, <2>3 DEF Delivered
<1>4. CASE UNCHANGED <<vars, inbox>>
  BY <1>4 DEF Delivered, vars
<1>. QED
  BY <1>2, <1>3, <1>4 DEF TNext, Paste, Verify, tvars

LEMMA TNextRuns == [TNext]_tvars => [Next]_vars
BY DEF TNext, Arrive, Paste, Verify, tvars

LEMMA TInvAlways == ASSUME ~DebugEditsMidRun PROVE TSpec => []TInv
<1>1. TInit => TInv
  <2> SUFFICES ASSUME TInit PROVE TInv
    OBVIOUS
  <2>1. Above
    BY AlertAssumption DEF TInit, Init, Above, Issued
  <2>2. Delivered
    BY DEF TInit, Delivered
  <2>. QED
    BY <2>1, <2>2, AInvInit, ClaimedInit DEF TInit, TInv
<1>2. TInv /\ [TNext]_tvars => TInv'
  BY TNextRuns, AInvNext, ClaimedNext, AboveNext, DeliveredNext DEF TInv
<1>. QED
  BY <1>1, <1>2, PTL DEF TSpec

(* The library's operator, seen through the instances.                      *)
LEMMA SameCount == \A S : /\ P!Cardinality(S) = Cardinality(S)
                          /\ V!Cardinality(S) = Cardinality(S)
BY DEF P!Cardinality, V!Cardinality, Cardinality

LEMMA SameClicks == P!Clicked = V!Clicked /\ P!Hashing = V!Hashing
BY DEF P!Clicked, V!Clicked, P!Hashing, V!Hashing

(* The texts of the inbox and the numbers issued, as Verifier sees them.    *)
Numbers == [k \in 1..Len(inbox) |-> number[inbox[k]] - FirstNumber]
AllIssued == [k \in 1..(counter - FirstNumber) |-> FirstNumber + k]

LEMMA OneAfterAnother ==
    ASSUME NEW c \in Nat, c >= FirstNumber
    PROVE  LET s == [k \in 1..(c - FirstNumber) |-> FirstNumber + k]
           IN  s \in Seq(Nat) /\ Len(s) = c - FirstNumber /\ c - FirstNumber \in Nat
<1> DEFINE s == [k \in 1..(c - FirstNumber) |-> FirstNumber + k]
<1>1. c - FirstNumber \in Nat /\ s \in [1..(c - FirstNumber) -> Nat]
  BY AlertAssumption
<1>2. s \in Seq(Nat) /\ DOMAIN s = 1..(c - FirstNumber)
  BY <1>1, SeqDef
<1>. QED
  BY <1>1, <1>2, LenProperties

LEMMA NumbersOfTexts ==
    ASSUME TInv
    PROVE  /\ Len(inbox) \in Nat /\ counter - FirstNumber \in Nat
           /\ Len(Numbers) = Len(inbox) /\ Numbers \in Seq(Nat)
           /\ Len(AllIssued) = counter - FirstNumber /\ AllIssued \in Seq(Nat)
           /\ \A k \in 1..Len(inbox) : /\ Numbers[k] \in 1..(counter - FirstNumber)
                                       /\ AllIssued[Numbers[k]] = number[inbox[k]]
<1>1. Len(inbox) \in Nat /\ counter \in Nat /\ FirstNumber \in Nat /\ counter >= FirstNumber
  BY AlertAssumption DEF TInv, AInv, TypeCore, Above, Delivered
<1>2. counter - FirstNumber \in Nat
  BY <1>1
<1>3. \A k \in 1..Len(inbox) : number[inbox[k]] \in (FirstNumber + 1)..counter
  BY ArrivedRuns DEF TInv
<1>4. \A k \in 1..Len(inbox) : /\ Numbers[k] = number[inbox[k]] - FirstNumber
                               /\ Numbers[k] \in 1..(counter - FirstNumber)
  BY <1>1, <1>3 DEF Numbers
<1>5. Numbers \in Seq(Nat) /\ Len(Numbers) = Len(inbox)
  <2>1. Numbers \in [1..Len(inbox) -> Nat]
    BY <1>1, <1>2, <1>4 DEF Numbers
  <2>2. Numbers \in Seq(Nat) /\ DOMAIN Numbers = 1..Len(inbox)
    BY <1>1, <2>1, SeqDef
  <2>. QED
    BY <1>1, <2>2, LenProperties
<1>6. AllIssued \in Seq(Nat) /\ Len(AllIssued) = counter - FirstNumber
  BY <1>1, OneAfterAnother DEF AllIssued
<1>7. \A k \in 1..Len(inbox) : AllIssued[Numbers[k]] = number[inbox[k]]
  BY <1>1, <1>3, <1>4 DEF AllIssued
<1>. QED
  BY <1>1, <1>2, <1>4, <1>5, <1>6, <1>7

(* The write of the counter is the verifier's Issue; whatever else a run    *)
(* does, the verifier does not see.                                         *)
LEMMA RunStepMaps ==
    ASSUME Fits, TInv, TInv', [Next]_vars, UNCHANGED <<inbox, device>>
    PROVE  [P!Next]_P!vars
<1>1. Numbers' = Numbers
  <2>1. \A k \in 1..Len(inbox) : number'[inbox[k]] = number[inbox[k]]
    BY ArrivedRuns, RunsKeepNumbers DEF TInv
  <2>. QED
    BY <2>1 DEF Numbers
<1>2. CASE UNCHANGED counter
  <2>1. AllIssued' = AllIssued
    BY <1>2 DEF AllIssued
  <2>. QED
    BY <1>1, <1>2, <2>1 DEF P!vars, P!bot, P!pasted, device, Numbers, AllIssued
<1>3. ASSUME NEW r \in Run, WriteCounter(r) PROVE P!Issue
  <2>1. counter' = counter + 1 /\ counter \in Nat /\ FirstNumber \in Nat /\ counter >= FirstNumber
    BY <1>3, AlertAssumption DEF TInv, AInv, TypeCore, Progress, Above, WriteCounter, At
  <2>2. counter < MaxNumber
    <3>1. /\ counter' \in Nat /\ counter' >= FirstNumber
          /\ \A m \in (FirstNumber + 1)..counter' : \E s \in Run : number'[s] = m
      BY DEF TInv, AInv, TypeCore, Above, Claimed
    <3>2. counter' <= MaxNumber
      BY <3>1, NumbersFit
    <3>. QED
      BY <2>1, <3>2 DEF Fits
  <2>3. AllIssued' = Append(AllIssued, counter')
    <3>1. AllIssued \in Seq(Nat) /\ Len(AllIssued) = counter - FirstNumber
      BY NumbersOfTexts
    <3>2. AllIssued' \in Seq(Nat) /\ Len(AllIssued') = counter' - FirstNumber
      <4>1. counter' \in Nat /\ counter' >= FirstNumber
        BY <2>1
      <4>. QED
        BY <4>1, OneAfterAnother DEF AllIssued
    <3>3. Len(Append(AllIssued, counter')) = Len(AllIssued')
      BY <2>1, <3>1, <3>2, AppendProperties
    <3>4. \A k \in 1..Len(AllIssued') : AllIssued'[k] = FirstNumber + k
      BY <2>1, <3>2 DEF AllIssued
    <3>5. \A k \in 1..Len(AllIssued) : AllIssued[k] = FirstNumber + k
      BY <2>1, <3>1 DEF AllIssued
    <3>6. \A k \in 1..Len(AllIssued') : Append(AllIssued, counter')[k] = AllIssued'[k]
      <4>1. /\ \A k \in 1..Len(AllIssued) : Append(AllIssued, counter')[k] = AllIssued[k]
            /\ Append(AllIssued, counter')[Len(AllIssued) + 1] = counter'
        BY <2>1, <3>1, AppendProperties
      <4>. QED
        BY <2>1, <3>1, <3>2, <3>4, <3>5, <4>1
    <3>7. Append(AllIssued, counter') \in Seq(Nat)
      BY <2>1, <3>1, AppendProperties
    <3>. QED
      BY <3>2, <3>3, <3>6, <3>7, SeqEqual
  <2>. QED
    BY <1>1, <2>1, <2>2, <2>3 DEF P!Issue, P!pasted, device, Numbers, AllIssued
<1>. QED
  BY <1>2, <1>3, RunsKeepNumbers DEF TInv, P!Next

(* A text that arrives is the number of its run arriving, and a click on it *)
(* is a click on that number.                                               *)
LEMMA ArriveMaps ==
    ASSUME Fits, TInv, NEW r \in Run, Arrive(r)
    PROVE  [P!Next]_P!vars
<1>1. /\ inbox \in Seq(Run) /\ inbox' = Append(inbox, r) /\ Len(inbox) < MaxInbox
      /\ UNCHANGED <<counter, number, last, click, place, num, verdict, verified, orderly>>
  BY DEF Arrive, vars, device, TInv, Delivered
<1>2. number[r] \in (FirstNumber + 1)..counter
  <2>1. Issued(r)
    BY DEF Arrive, TInv, AInv, Progress, Issued
  <2>. QED
    BY <2>1, AlertAssumption DEF TInv, AInv, Above, Distinct, TypeCore
<1>3. /\ Len(inbox) \in Nat /\ Numbers \in Seq(Nat) /\ Len(Numbers) = Len(inbox)
      /\ Len(AllIssued) = counter - FirstNumber /\ AllIssued' = AllIssued
  BY <1>1, NumbersOfTexts DEF AllIssued
<1>4. number[r] - FirstNumber \in 1..Len(AllIssued)
  BY <1>2, <1>3, AlertAssumption DEF TInv, AInv, TypeCore
<1>5. /\ Len(inbox') = Len(inbox) + 1 /\ inbox'[Len(inbox) + 1] = r
      /\ \A k \in 1..Len(inbox) : inbox'[k] = inbox[k]
  BY <1>1, <1>3, AppendProperties
<1>6. Numbers' = Append(Numbers, number[r] - FirstNumber)
  <2>1. number[r] - FirstNumber \in Nat
    BY <1>2, AlertAssumption
  <2>2. /\ DOMAIN Append(Numbers, number[r] - FirstNumber) = 1..(Len(inbox) + 1)
        /\ Append(Numbers, number[r] - FirstNumber)
             = [k \in 1..(Len(inbox) + 1) |-> IF k = Len(inbox) + 1 THEN number[r] - FirstNumber
                                                                    ELSE Numbers[k]]
    BY <1>3, <2>1
  <2>3. Numbers' = [k \in 1..(Len(inbox) + 1) |-> number[inbox'[k]] - FirstNumber]
    BY <1>1, <1>5 DEF Numbers
  <2>4. \A k \in 1..(Len(inbox) + 1) :
           number[inbox'[k]] - FirstNumber = IF k = Len(inbox) + 1 THEN number[r] - FirstNumber
                                                                   ELSE Numbers[k]
    <3>1. \A k \in 1..(Len(inbox) + 1) : k = Len(inbox) + 1 \/ k \in 1..Len(inbox)
      BY <1>3
    <3>. QED
      BY <1>5, <3>1 DEF Numbers
  <2>. QED
    BY <2>2, <2>3, <2>4
<1>7. PICK i \in 1..Len(AllIssued) : i = number[r] - FirstNumber
  BY <1>4
<1>8. P!Arrive(i)
  BY <1>1, <1>3, <1>6, <1>7 DEF P!Arrive, P!bot, P!pasted, Numbers, AllIssued
<1>. QED
  BY <1>8 DEF P!Next, AllIssued

LEMMA PasteMaps ==
    ASSUME Fits, TInv, NEW x \in Click, NEW k \in 1..Len(inbox), Paste(x, k)
    PROVE  [P!Next]_P!vars
<1>1. /\ UNCHANGED <<counter, number, inbox, last, verdict, verified>>
      /\ Numbers' = Numbers /\ AllIssued' = AllIssued
      /\ Len(Numbers) = Len(inbox) /\ AllIssued[Numbers[k]] = number[inbox[k]]
  BY NumbersOfTexts DEF Paste, vars, Numbers, AllIssued
<1>2. P!Paste(x, k)
  BY <1>1, SameCount, SameClicks DEF Paste, P!Paste, P!bot, Numbers, AllIssued
<1>. QED
  BY <1>1, <1>2 DEF P!Next, Numbers

LEMMA VerifyMaps ==
    ASSUME NEW x \in Click, Verify(x)
    PROVE  [P!Next]_P!vars
<1>1. CASE \E m \in 0..MaxNumber : V!PasteAltered(x, m)
  <2>1. PICK m \in 0..MaxNumber : V!PasteAltered(x, m)
    BY <1>1
  <2>2. P!PasteAltered(x, m)
    BY <2>1, SameClicks DEF V!PasteAltered, P!PasteAltered, V!bot, P!bot
  <2>. QED
    BY <2>2 DEF P!Next
<1>2. CASE V!Judge(x)
  <2>1. \A m, b : V!Compare(m, b) = P!Compare(m, b)
    BY DEF V!Compare, P!Compare
  <2>2. P!Judge(x)
    BY <1>2, <2>1 DEF V!Judge, P!Judge, V!bot, P!bot, V!pasted, P!pasted, V!Authentic, P!Authentic
  <2>. QED
    BY <2>2 DEF P!Next
<1>. QED
  BY <1>1, <1>2 DEF Verify

LEMMA EndToEndStep == Fits /\ TInv /\ TInv' /\ [TNext]_tvars => [P!Next]_P!vars
<1> SUFFICES ASSUME Fits, TInv, TInv', [TNext]_tvars PROVE [P!Next]_P!vars
  OBVIOUS
<1>1. CASE (Next \/ UNCHANGED vars) /\ UNCHANGED <<inbox, device>>
  BY <1>1, RunStepMaps
<1>2. CASE \E r \in Run : Arrive(r)
  BY <1>2, ArriveMaps
<1>3. ASSUME NEW x \in Click, \/ \E k \in 1..Len(inbox) : Paste(x, k)
                              \/ Verify(x)
      PROVE  [P!Next]_P!vars
  BY <1>3, PasteMaps, VerifyMaps
<1>. QED
  BY <1>1, <1>2, <1>3 DEF TNext, tvars

LEMMA EndToEndInit == TInit => P!Init
<1> SUFFICES ASSUME TInit PROVE P!Init
  OBVIOUS
<1>1. /\ counter = FirstNumber /\ inbox = <<>> /\ last = Null
      /\ click = [x \in Click |-> "idle"] /\ place = [x \in Click |-> 0]
      /\ num = [x \in Click |-> 0] /\ verdict = [x \in Click |-> "none"]
      /\ verified = {} /\ orderly = TRUE
  BY DEF TInit, Init
<1>2. counter - FirstNumber = 0 /\ 1..(counter - FirstNumber) = {} /\ 1..Len(inbox) = {}
  BY <1>1, AlertAssumption
<1>3. AllIssued = <<>> /\ Numbers = <<>>
  BY <1>2 DEF AllIssued, Numbers
<1>. QED
  BY <1>1, <1>3 DEF P!Init, AllIssued, Numbers

(* V and P are one machine: the verifier over the state of Texts.           *)
LEMMA SameVerifier == (V!Init <=> P!Init) /\ (V!Next <=> P!Next) /\ V!vars = P!vars /\ V!vars' = P!vars'
<1>1. (V!Init <=> P!Init) /\ V!vars = P!vars /\ V!vars' = P!vars'
  BY DEF V!Init, P!Init, V!vars, P!vars, V!bot, P!bot, V!pasted, P!pasted
<1>2. (V!Issue <=> P!Issue) /\ (V!Restart <=> P!Restart)
  BY DEF V!Issue, P!Issue, V!Restart, P!Restart, V!pasted, P!pasted
<1>3. ASSUME NEW i PROVE V!Arrive(i) <=> P!Arrive(i)
  BY DEF V!Arrive, P!Arrive, V!bot, P!bot, V!pasted, P!pasted
<1>4. ASSUME NEW x, NEW k PROVE V!Paste(x, k) <=> P!Paste(x, k)
  BY SameCount, SameClicks DEF V!Paste, P!Paste, V!bot, P!bot
<1>5. ASSUME NEW x, NEW m PROVE V!PasteAltered(x, m) <=> P!PasteAltered(x, m)
  BY SameClicks DEF V!PasteAltered, P!PasteAltered, V!bot, P!bot
<1>6. ASSUME NEW x PROVE V!Judge(x) <=> P!Judge(x)
  BY DEF V!Judge, P!Judge, V!Authentic, P!Authentic, V!Compare, P!Compare, V!bot, P!bot,
         V!pasted, P!pasted
<1>. QED
  BY <1>1, <1>2, <1>3, <1>4, <1>5, <1>6 DEF V!Next, P!Next

(* The daily texts are numbered one after another, each number is one run's *)
(* text, and the device works on those: what the runs, the carrier and the  *)
(* recipient do is, step by step, what Verifier says.                       *)
THEOREM TextsAreNumbered ==
    ASSUME ~DebugEditsMidRun, Fits
    PROVE  TSpec => V!Spec
<1>1. TInv /\ TInv' /\ [TNext]_tvars => [V!Next]_V!vars
  BY EndToEndStep, SameVerifier
<1>2. TInit => V!Init
  BY EndToEndInit, SameVerifier
<1>. QED
  BY TInvAlways, <1>1, <1>2, PTL DEF TSpec, V!Spec

LEMMA DeviceAlways == ASSUME ~DebugEditsMidRun, Fits PROVE TSpec => []P!CInv
<1>1. TInv /\ TInv' /\ [TNext]_tvars => [P!Next]_P!vars
  BY EndToEndStep
<1>2. P!Spec => []P!CInv
  BY P!CInvAlways, FitsVerifier
<1>. QED
  BY TInvAlways, EndToEndInit, <1>1, <1>2, PTL DEF TSpec, P!Spec

(* On the texts of the runs, however these overlap, die or fail, and        *)
(* however the carrier treats them: the device holds the highest number     *)
(* verified, one number is welcomed once, and who pastes in order is        *)
(* neither alarmed for nothing nor left in the dark.                        *)
THEOREM VerdictsKeepTheirWorth ==
    ASSUME ~DebugEditsMidRun, Fits
    PROVE  TSpec => [](V!LastIsHighest /\ V!CountedOnce /\ V!NoFalseAlarm /\ V!NothingSlipsBy)
<1>1. P!CInv => P!LastIsHighest /\ P!CountedOnce /\ P!NoFalseAlarm /\ P!NothingSlipsBy
  BY DEF P!CInv, P!OInv, P!VInv
<1>2. P!LastIsHighest <=> V!LastIsHighest
  BY DEF P!LastIsHighest, V!LastIsHighest
<1>3. P!CountedOnce <=> V!CountedOnce
  BY DEF P!CountedOnce, V!CountedOnce, P!Welcomed, V!Welcomed, P!Authentic, V!Authentic
<1>4. (P!NoFalseAlarm <=> V!NoFalseAlarm) /\ (P!NothingSlipsBy <=> V!NothingSlipsBy)
  BY DEF P!NoFalseAlarm, V!NoFalseAlarm, P!NothingSlipsBy, V!NothingSlipsBy,
         P!Authentic, V!Authentic
<1>. QED
  BY DeviceAlways, <1>1, <1>2, <1>3, <1>4, PTL

(* What the device has of an authentic text: its place, and the number of   *)
(* the run it came from.                                                    *)
LEMMA TextOfClick ==
    ASSUME TInv, P!CInv, NEW x \in Click, place[x] > 0
    PROVE  /\ place[x] \in 1..Len(inbox) /\ Len(inbox) \in Nat
           /\ inbox[place[x]] \in Run /\ Issued(inbox[place[x]])
           /\ num[x] = number[inbox[place[x]]]
           /\ num[x] \in (FirstNumber + 1)..counter
           /\ verdict[x] # "none" => x \in P!Done
<1>1. place[x] \in 1..Len(inbox) /\ Len(inbox) \in Nat
  <2>1. place[x] \in 0..Len(Numbers)
    BY DEF P!CInv, P!OInv, P!VInv, P!ClickTypes, Numbers
  <2>. QED
    BY <2>1, NumbersOfTexts
<1>2. num[x] = AllIssued[Numbers[place[x]]]
  BY DEF P!CInv, P!OInv, P!VInv, P!Pasted, Numbers, AllIssued
<1>3. verdict[x] # "none" => x \in P!Done
  BY DEF P!CInv, P!OInv, P!VInv, P!Pasted, P!Done, P!Clicked
<1>. QED
  BY <1>1, <1>2, <1>3, NumbersOfTexts, ArrivedRuns DEF TInv

(* A text is called a replay only when the text of that very run has been   *)
(* pasted before: no other run's text carries its number.                   *)
THEOREM ReplayMeansReplay == ASSUME ~DebugEditsMidRun, Fits PROVE TSpec => []ReplayIsReplay
<1>1. TInv /\ P!CInv => ReplayIsReplay
  <2> SUFFICES ASSUME TInv, P!CInv, NEW x \in Click, place[x] > 0, verdict[x] = "replay"
               PROVE  \E y \in Click \ {x} : place[y] > 0 /\ inbox[place[y]] = inbox[place[x]]
    BY DEF ReplayIsReplay, V!Authentic
  <2>1. x \in P!Done
    BY TextOfClick
  <2>2. PICK y \in P!Done \ {x} : num[y] = num[x]
    BY <2>1 DEF P!CInv, P!RepeatsAreKnown
  <2>3. y \in Click \ {x} /\ place[y] > 0
    BY <2>2 DEF P!Done, P!Clicked
  <2>4. inbox[place[y]] = inbox[place[x]]
    BY <2>2, <2>3, TextOfClick DEF TInv, AInv, Distinct
  <2>. QED
    BY <2>3, <2>4
<1>. QED
  BY TInvAlways, DeviceAlways, <1>1, PTL

(* Who pastes in order and hears of a gap has missed a text: a run answers  *)
(* for the number before this one, and its text is not among those read.    *)
THEOREM GapMeansLoss == ASSUME ~DebugEditsMidRun, Fits PROVE TSpec => []GapIsLoss
<1>1. TInv /\ P!CInv => GapIsLoss
  <2> SUFFICES ASSUME TInv, P!CInv, orderly, NEW x \in Click, place[x] > 0, verdict[x] = "gap"
               PROVE  \E r \in Run : number[r] = num[x] - 1 /\ Missed(r, place[x])
    BY DEF GapIsLoss, V!Authentic
  <2>0. /\ x \in P!Done /\ place[x] \in 1..Len(inbox) /\ Len(inbox) \in Nat
        /\ num[x] \in (FirstNumber + 1)..counter
    BY TextOfClick
  <2>1. /\ \E k \in 1..(place[x] - 1) : AllIssued[Numbers[k]] < num[x] - 1
        /\ \A k \in 1..(place[x] - 1) : AllIssued[Numbers[k]] < num[x] - 1
    BY <2>0 DEF P!CInv, P!GapsLeaveOut, AllIssued, Numbers
  <2>2. \A k \in 1..(place[x] - 1) : k \in 1..Len(inbox)
    BY <2>0
  <2>3. \A k \in 1..(place[x] - 1) : /\ AllIssued[Numbers[k]] = number[inbox[k]]
                                     /\ number[inbox[k]] \in (FirstNumber + 1)..counter
                                     /\ number[inbox[k]] < num[x] - 1
    BY <2>1, <2>2, NumbersOfTexts, ArrivedRuns DEF TInv
  <2>4. num[x] - 1 \in (FirstNumber + 1)..counter
    <3>1. PICK k \in 1..(place[x] - 1) : TRUE
      BY <2>1
    <3>2. number[inbox[k]] \in (FirstNumber + 1)..counter /\ number[inbox[k]] < num[x] - 1
      BY <2>3
    <3>3. counter \in Nat /\ FirstNumber \in Nat
      BY AlertAssumption DEF TInv, AInv, TypeCore
    <3>. QED
      BY <2>0, <3>2, <3>3
  <2>5. PICK r \in Run : number[r] = num[x] - 1 /\ Answers(r)
    BY <2>4 DEF TInv, Claimed
  <2>6. \A k \in 1..(place[x] - 1) : inbox[k] # r
    BY <2>0, <2>3, <2>5, AlertAssumption DEF TInv, AInv, TypeCore
  <2>. QED
    BY <2>5, <2>6 DEF Missed, Answers
<1>. QED
  BY TInvAlways, DeviceAlways, <1>1, PTL
===============================================================================
