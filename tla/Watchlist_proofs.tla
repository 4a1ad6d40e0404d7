--------------------------- MODULE Watchlist_proofs ---------------------------
(***************************************************************************)
(* The safety of the watchlist commands, for every number of overlapping   *)
(* executions, every set of tickers, every cap and every stored property.  *)
(* First what healing returns, for every stored array: a clean list always,*)
(* and the array itself when it was clean already.  All that the proofs    *)
(* about the overlapping commands need of the data is stated there once.   *)
(***************************************************************************)
EXTENDS WatchlistProps, FiniteSetTheorems, SequenceTheorems, WellFoundedInduction, TLAPS

(* A non-empty set of naturals has a least element. *)
LEMMA LeastElement ==
    ASSUME NEW T \in SUBSET Nat, T # {}
    PROVE  \E n \in T : \A m \in T : n <= m
<1>1. PICK n \in T : \A m \in T : <<m, n>> \notin OpToRel(<, Nat)
  BY WFMin, NatLessThanWellFounded
<1>2. ASSUME NEW m \in T PROVE n <= m
  <2>1. <<m, n>> \notin {ss \in Nat \X Nat : ss[1] < ss[2]}
    BY <1>1 DEF OpToRel
  <2> QED
    BY <2>1
<1> QED
  BY <1>2

(* Kept(s) is a set of slots, so the counts over it are finite. *)
LEMMA KeptUpToType ==
    ASSUME NEW s \in Seq(Entry), NEW n \in Nat
    PROVE  /\ IsFiniteSet(Kept(s) \cap 1..n)
           /\ KeptUpTo(s, n) \in Nat
<1>1. IsFiniteSet(1..n)
  BY FS_Interval
<1>2. IsFiniteSet(Kept(s) \cap 1..n)
  BY <1>1, FS_Intersection
<1> QED
  BY <1>2, FS_CardinalityType DEF KeptUpTo

(* One slot further, the count grows by one if that slot survives. *)
LEMMA KeptUpToStep ==
    ASSUME NEW s \in Seq(Entry), NEW n \in Nat
    PROVE  KeptUpTo(s, n + 1) = KeptUpTo(s, n) + (IF n + 1 \in Kept(s) THEN 1 ELSE 0)
<1> DEFINE K == Kept(s) \cap 1..n
<1>1. IsFiniteSet(K) /\ Cardinality(K) \in Nat
  BY KeptUpToType, FS_CardinalityType
<1>2. CASE n + 1 \in Kept(s)
  <2>1. Kept(s) \cap 1..(n + 1) = K \cup {n + 1}
    BY <1>2
  <2>2. n + 1 \notin K
    OBVIOUS
  <2>3. Cardinality(K \cup {n + 1}) = Cardinality(K) + 1
    BY <1>1, <2>2, FS_AddElement
  <2> QED
    BY <1>1, <1>2, <2>1, <2>3 DEF KeptUpTo
<1>3. CASE n + 1 \notin Kept(s)
  <2>1. Kept(s) \cap 1..(n + 1) = K
    BY <1>3
  <2>2. KeptUpTo(s, n + 1) = Cardinality(K) /\ KeptUpTo(s, n) = Cardinality(K)
    BY <2>1 DEF KeptUpTo
  <2> HIDE DEF K
  <2> QED
    BY <1>1, <1>3, <2>2
<1> QED
  BY <1>2, <1>3

LEMMA KeptUpToZero ==
    ASSUME NEW s \in Seq(Entry)
    PROVE  KeptUpTo(s, 0) = 0
<1>1. Kept(s) \cap 1..0 = {}
  OBVIOUS
<1> QED
  BY <1>1, FS_EmptySet DEF KeptUpTo

(* Every rank up to the number of surviving slots is somebody's rank: take  *)
(* the least slot at which the count reaches it.                            *)
LEMMA RankExists ==
    ASSUME NEW s \in Seq(Entry), NEW k \in 1..KeptUpTo(s, Len(s))
    PROVE  \E i \in Kept(s) : KeptUpTo(s, i) = k
<1> DEFINE T == {n \in 0..Len(s) : KeptUpTo(s, n) >= k}
<1>1. Len(s) \in Nat /\ KeptUpTo(s, Len(s)) \in Nat
  BY KeptUpToType, LenProperties
<1>2. T # {} /\ T \in SUBSET Nat
  BY <1>1
<1>3. PICK n \in T : \A m \in T : n <= m
  BY <1>2, LeastElement
<1>4. n # 0
  BY <1>3, KeptUpToZero
<1>5. n - 1 \in Nat /\ n - 1 \notin T /\ n - 1 \in 0..Len(s)
  BY <1>1, <1>3, <1>4
<1>6. KeptUpTo(s, n - 1) \in Nat
  BY <1>5, KeptUpToType
<1>7. KeptUpTo(s, n - 1) < k
  BY <1>1, <1>5, <1>6
<1>8. KeptUpTo(s, n) = KeptUpTo(s, n - 1) + (IF n \in Kept(s) THEN 1 ELSE 0)
  <2>1. (n - 1) + 1 = n
    BY <1>3, <1>1
  <2> QED
    BY <1>5, <2>1, KeptUpToStep
<1>9. n \in Kept(s) /\ KeptUpTo(s, n) = k
  BY <1>1, <1>3, <1>6, <1>7, <1>8
<1> QED
  BY <1>9

(* Healing returns a clean list, whatever the array held: every entry is    *)
(* ticker-shaped, none comes twice, and there are MaxTickers at most        *)
(* (the loop and the slice of Watchlist.tickers).                           *)
THEOREM HealedIsClean ==
    ASSUME NEW s \in Seq(Entry)
    PROVE  Healed(s) \in WatchLists
<1> DEFINE slot(k) == CHOOSE i \in Kept(s) : KeptUpTo(s, i) = k
<1>1. HealedLen(s) \in Nat /\ HealedLen(s) <= MaxTickers /\ HealedLen(s) <= KeptUpTo(s, Len(s))
  <2>1. KeptUpTo(s, Len(s)) \in Nat
    BY KeptUpToType, LenProperties
  <2> QED
    BY <2>1, StoreAssumption DEF HealedLen
<1>2. ASSUME NEW k \in 1..HealedLen(s)
      PROVE  slot(k) \in Kept(s) /\ KeptUpTo(s, slot(k)) = k
  <2>1. k \in 1..KeptUpTo(s, Len(s))
    <3>1. Len(s) \in Nat
      BY LenProperties
    <3>2. KeptUpTo(s, Len(s)) \in Nat
      BY <3>1, KeptUpToType
    <3> HIDE DEF slot
    <3> QED
      BY <1>1, <3>2
  <2>2. \E i \in Kept(s) : KeptUpTo(s, i) = k
    BY <2>1, RankExists
  <2> QED
    BY <2>2
<1>3. ASSUME NEW i \in Kept(s) PROVE i \in 1..Len(s) /\ Canon[s[i]] \in Ticker
  BY DEF Kept, IsValid
<1>4. ASSUME NEW i \in Kept(s), NEW j \in Kept(s), Canon[s[i]] = Canon[s[j]]
      PROVE  i = j
  <2>1. ~(i < j) /\ ~(j < i)
    BY <1>4, LenProperties DEF Kept
  <2> QED
    BY <2>1, <1>3, LenProperties
<1>5. Healed(s) = [k \in 1..HealedLen(s) |-> Canon[s[slot(k)]]]
  BY DEF Healed
<1> HIDE DEF slot
<1>6. Healed(s) \in [1..HealedLen(s) -> Ticker]
  BY <1>2, <1>3, <1>5
<1>7. Healed(s) \in Seq(Ticker) /\ Len(Healed(s)) = HealedLen(s)
  BY <1>1, <1>6
<1>8. ASSUME NEW k \in 1..HealedLen(s), NEW m \in 1..HealedLen(s), Healed(s)[k] = Healed(s)[m]
      PROVE  k = m
  <2>1. Canon[s[slot(k)]] = Canon[s[slot(m)]]
    BY <1>5, <1>8
  <2>2. slot(k) = slot(m)
    BY <1>2, <1>4, <2>1
  <2> QED
    BY <1>2, <2>2
<1> QED
  BY <1>1, <1>7, <1>8 DEF WatchLists

(* Nothing in a clean list needs healing: every slot survives. *)
LEMMA CleanIsKept ==
    ASSUME NEW l \in WatchLists
    PROVE  /\ l \in Seq(Entry) /\ Len(l) \in Nat
           /\ Kept(l) = 1..Len(l)
           /\ \A n \in 0..Len(l) : KeptUpTo(l, n) = n
           /\ HealedLen(l) = Len(l)
<1>1. /\ l \in Seq(Ticker) /\ Len(l) \in Nat /\ Len(l) <= MaxTickers
      /\ \A i \in 1..Len(l) : l[i] \in Ticker /\ Canon[l[i]] = l[i]
      /\ \A i, j \in 1..Len(l) : l[i] = l[j] => i = j
  BY StoreAssumption DEF WatchLists
<1>2. l \in Seq(Entry)
  BY <1>1, StoreAssumption
<1>3. Kept(l) = 1..Len(l)
  <2>1. ASSUME NEW i \in 1..Len(l) PROVE i \in Kept(l)
    <3>1. IsValid(l[i])
      BY <1>1 DEF IsValid
    <3>2. \A j \in 1..(i - 1) : j \in 1..Len(l) /\ j # i
      BY <1>1
    <3>3. \A j \in 1..(i - 1) : Canon[l[j]] # Canon[l[i]]
      BY <1>1, <3>2
    <3> QED
      BY <3>1, <3>3 DEF Kept
  <2> QED
    BY <2>1 DEF Kept
<1>4. ASSUME NEW n \in 0..Len(l) PROVE KeptUpTo(l, n) = n
  <2>1. Kept(l) \cap 1..n = 1..n
    BY <1>1, <1>3
  <2>2. Cardinality(1..n) = n
    BY <1>1, FS_Interval
  <2> QED
    BY <2>1, <2>2 DEF KeptUpTo
<1>5. HealedLen(l) = Len(l)
  <2>1. KeptUpTo(l, Len(l)) = Len(l)
    BY <1>1, <1>4
  <2> QED
    BY <1>1, <2>1, StoreAssumption DEF HealedLen
<1> QED
  BY <1>1, <1>2, <1>3, <1>4, <1>5

(* Healing leaves a clean list as it is, so what the bot wrote is what the  *)
(* next read returns.                                                       *)
THEOREM HealedClean ==
    ASSUME NEW l \in WatchLists
    PROVE  Healed(l) = l
<1>1. ASSUME NEW k \in 1..Len(l)
      PROVE  Canon[l[CHOOSE i \in Kept(l) : KeptUpTo(l, i) = k]] = l[k]
  <2> DEFINE i == CHOOSE i \in Kept(l) : KeptUpTo(l, i) = k
  <2>1. k \in Kept(l) /\ KeptUpTo(l, k) = k
    BY CleanIsKept
  <2>2. i \in Kept(l) /\ KeptUpTo(l, i) = k
    BY <2>1
  <2> HIDE DEF i
  <2>3. i = k
    BY <2>2, CleanIsKept
  <2>4. Canon[l[k]] = l[k]
    BY StoreAssumption DEF WatchLists
  <2> QED
    BY <2>3, <2>4 DEF i
<1>2. Healed(l) = [k \in 1..Len(l) |-> l[k]]
  BY <1>1, CleanIsKept DEF Healed
<1>3. l = [k \in 1..Len(l) |-> l[k]]
  BY CleanIsKept, LenProperties
<1> QED
  BY <1>2, <1>3

(* Whatever the property holds, a read returns a clean list. *)
THEOREM TickersIsClean ==
    ASSUME NEW raw \in Raw
    PROVE  Tickers(raw) \in WatchLists
BY HealedIsClean, StoreAssumption DEF Tickers, Raw

(* A read returns exactly what the bot last stored. *)
THEOREM TickersOfClean ==
    ASSUME NEW l \in WatchLists
    PROVE  l \in Raw /\ Tickers(l) = l
<1>1. l \in Seq(Entry)
  BY CleanIsKept
<1>2. l # Unset /\ l # Corrupt
  BY <1>1, StoreAssumption
<1> QED
  BY <1>1, <1>2, HealedClean DEF Tickers, Raw

(* Adding an absent ticker below the cap leaves a clean list. *)
THEOREM AddedIsClean ==
    ASSUME NEW l \in WatchLists, NEW t \in Ticker, ~Contains(l, t), Len(l) < MaxTickers
    PROVE  Added(l, t) \in WatchLists
<1>1. l \in Seq(Ticker) /\ Len(l) \in Nat
  BY LenProperties DEF WatchLists
<1>2. /\ Added(l, t) \in Seq(Ticker)
      /\ Len(Added(l, t)) = Len(l) + 1
      /\ \A i \in 1..Len(l) : Added(l, t)[i] = l[i]
      /\ Added(l, t)[Len(l) + 1] = t
  BY <1>1, AppendProperties DEF Added
<1>3. Len(Added(l, t)) <= MaxTickers
  BY <1>1, <1>2, StoreAssumption
<1>4. ASSUME NEW i \in 1..(Len(l) + 1), NEW j \in 1..(Len(l) + 1), Added(l, t)[i] = Added(l, t)[j]
      PROVE  i = j
  <2>1. CASE i \in 1..Len(l) /\ j \in 1..Len(l)
    BY <1>2, <1>4, <2>1 DEF WatchLists
  <2>2. CASE i = Len(l) + 1 /\ j \in 1..Len(l)
    BY <1>2, <1>4, <2>2 DEF Contains
  <2>3. CASE j = Len(l) + 1 /\ i \in 1..Len(l)
    BY <1>2, <1>4, <2>3 DEF Contains
  <2> QED
    BY <1>1, <2>1, <2>2, <2>3
<1> QED
  BY <1>2, <1>3, <1>4 DEF WatchLists

(* Removing takes one slot out and closes the gap. *)
LEMMA RemovedSlots ==
    ASSUME NEW l \in WatchLists, NEW t, Contains(l, t)
    PROVE  /\ Removed(l, t) \in Seq(Ticker)
           /\ \E p \in 1..Len(l) :
                 /\ l[p] = t
                 /\ Len(Removed(l, t)) = Len(l) - 1
                 /\ \A i \in 1..(Len(l) - 1) :
                       Removed(l, t)[i] = IF i < p THEN l[i] ELSE l[i + 1]
<1> DEFINE p == CHOOSE i \in 1..Len(l) : l[i] = t
           a == SubSeq(l, 1, p - 1)
           b == SubSeq(l, p + 1, Len(l))
<1>1. l \in Seq(Ticker) /\ Len(l) \in Nat /\ \A i \in 1..Len(l) : l[i] \in Ticker
  BY LenProperties DEF WatchLists
<1>2. p \in 1..Len(l) /\ l[p] = t
  BY DEF Contains
<1> HIDE DEF p
<1>3. /\ a \in Seq(Ticker) /\ Len(a) = p - 1
      /\ \A i \in 1..(p - 1) : a[i] = l[i]
  <2>1. \A i \in 1..(p - 1) : l[i] \in Ticker
    BY <1>1, <1>2
  <2>2. /\ a \in Seq(Ticker)
        /\ Len(a) = IF 1 <= p - 1 THEN (p - 1) - 1 + 1 ELSE 0
        /\ \A i \in 1..((p - 1) - 1 + 1) : a[i] = l[1 + i - 1]
    BY <1>2, <2>1, SubSeqProperties
  <2> QED
    BY <1>2, <2>2
<1>4. /\ b \in Seq(Ticker) /\ Len(b) = Len(l) - p
      /\ \A i \in 1..(Len(l) - p) : b[i] = l[p + i]
  <2>1. \A i \in (p + 1)..Len(l) : l[i] \in Ticker
    BY <1>1, <1>2
  <2>2. /\ b \in Seq(Ticker)
        /\ Len(b) = IF p + 1 <= Len(l) THEN Len(l) - (p + 1) + 1 ELSE 0
        /\ \A i \in 1..(Len(l) - (p + 1) + 1) : b[i] = l[p + 1 + i - 1]
    BY <1>1, <1>2, <2>1, SubSeqProperties
  <2> QED
    BY <1>1, <1>2, <2>2
<1>5. Removed(l, t) = a \o b
  BY DEF Removed, p
<1> HIDE DEF a, b
<1>6. /\ a \o b \in Seq(Ticker)
      /\ Len(a \o b) = Len(l) - 1
      /\ \A i \in 1..(Len(l) - 1) : (a \o b)[i] = IF i < p THEN l[i] ELSE l[i + 1]
  <2>1. /\ a \o b \in Seq(Ticker)
        /\ Len(a \o b) = Len(a) + Len(b)
        /\ \A i \in 1..(Len(a) + Len(b)) :
              (a \o b)[i] = IF i <= Len(a) THEN a[i] ELSE b[i - Len(a)]
    BY <1>3, <1>4, ConcatProperties
  <2>2. ASSUME NEW i \in 1..(Len(l) - 1)
        PROVE  (a \o b)[i] = IF i < p THEN l[i] ELSE l[i + 1]
    <3>1. CASE i < p
      <4>1. /\ i <= Len(a) /\ i \in 1..(p - 1)
            /\ i \in 1..(Len(a) + Len(b))
        BY <1>1, <1>2, <1>3, <1>4, <3>1
      <4> QED
        BY <1>3, <2>1, <3>1, <4>1
    <3>2. CASE ~(i < p)
      <4>1. i - Len(a) \in 1..(Len(l) - p) /\ ~(i <= Len(a)) /\ p + (i - Len(a)) = i + 1
        BY <1>1, <1>2, <1>3, <3>2
      <4>2. i \in 1..(Len(a) + Len(b))
        BY <1>1, <1>2, <1>3, <1>4
      <4>3. (a \o b)[i] = b[i - Len(a)]
        BY <2>1, <4>1, <4>2
      <4>4. b[i - Len(a)] = l[p + (i - Len(a))]
        BY <1>4, <4>1
      <4> QED
        BY <3>2, <4>1, <4>3, <4>4
    <3> QED
      BY <3>1, <3>2
  <2> QED
    BY <1>1, <1>2, <1>3, <1>4, <2>1, <2>2
<1> QED
  BY <1>2, <1>5, <1>6

(* Removing a listed ticker leaves a clean list. *)
THEOREM RemovedIsClean ==
    ASSUME NEW l \in WatchLists, NEW t, Contains(l, t)
    PROVE  Removed(l, t) \in WatchLists
<1> DEFINE r == Removed(l, t)
<1>1. Len(l) \in Nat
  BY LenProperties DEF WatchLists
<1>2. r \in Seq(Ticker)
  BY RemovedSlots
<1>3. PICK p \in 1..Len(l) :
         /\ Len(r) = Len(l) - 1
         /\ \A i \in 1..(Len(l) - 1) : r[i] = IF i < p THEN l[i] ELSE l[i + 1]
  BY RemovedSlots
<1> HIDE DEF r
<1>4. Len(l) - 1 <= MaxTickers
  BY <1>1, StoreAssumption DEF WatchLists
<1>5. ASSUME NEW i \in 1..(Len(l) - 1), NEW j \in 1..(Len(l) - 1), r[i] = r[j]
      PROVE  i = j
  <2> DEFINE from(k) == IF k < p THEN k ELSE k + 1
  <2>1. /\ from(i) \in 1..Len(l) /\ r[i] = l[from(i)]
        /\ from(j) \in 1..Len(l) /\ r[j] = l[from(j)]
    <3>1. from(i) \in 1..Len(l) /\ from(j) \in 1..Len(l)
      BY <1>1
    <3>. QED
      BY <1>3, <3>1
  <2>2. from(i) = from(j)
    BY <1>5, <2>1 DEF WatchLists
  <2> QED
    BY <1>1, <1>3, <2>2
<1> QED
  BY <1>2, <1>3, <1>4, <1>5 DEF WatchLists, r

(* Adding brings in that ticker and no other; removing brings in none. *)
LEMMA ContainsAdded ==
    ASSUME NEW l \in WatchLists, NEW t \in Ticker, NEW u, Contains(Added(l, t), u)
    PROVE  Contains(l, u) \/ u = t
<1>1. l \in Seq(Ticker) /\ Len(l) \in Nat
  BY LenProperties DEF WatchLists
<1>2. /\ Len(Added(l, t)) = Len(l) + 1
      /\ \A i \in 1..Len(l) : Added(l, t)[i] = l[i]
      /\ Added(l, t)[Len(l) + 1] = t
  BY <1>1, AppendProperties DEF Added
<1>3. PICK i \in 1..(Len(l) + 1) : Added(l, t)[i] = u
  BY <1>2 DEF Contains
<1> QED
  BY <1>1, <1>2, <1>3 DEF Contains

LEMMA ContainsRemoved ==
    ASSUME NEW l \in WatchLists, NEW t, Contains(l, t), NEW u, Contains(Removed(l, t), u)
    PROVE  Contains(l, u)
<1>1. PICK p \in 1..Len(l) : /\ Len(Removed(l, t)) = Len(l) - 1
                            /\ \A i \in 1..(Len(l) - 1) :
                                   Removed(l, t)[i] = IF i < p THEN l[i] ELSE l[i + 1]
  BY RemovedSlots
<1>2. Len(l) \in Nat
  BY LenProperties DEF WatchLists
<1>3. PICK i \in 1..(Len(l) - 1) : Removed(l, t)[i] = u
  BY <1>1 DEF Contains
<1> QED
  BY <1>1, <1>2, <1>3 DEF Contains

-----------------------------------------------------------------------------
(* Which commands reach which places, and what has been established of them *)
(* there: a writer's argument is ticker-shaped, an ADD that wants the lock  *)
(* has its quote, and what is about to be written passed the locked checks. *)
Places ==
    \A x \in Exec :
       /\ pc[x] # "idle" => cmd[x] \in Command
       /\ pc[x] \in {"has", "full", "quote"} => cmd[x].kind = "add"
       /\ pc[x] \in {"lock", "write"} => cmd[x].kind \in {"add", "remove", "pause", "resume"}
       /\ pc[x] = "read" => cmd[x].kind \in {"add", "remove"}
       /\ pc[x] \in {"has", "full", "quote", "lock", "read", "write"}
             /\ cmd[x].kind \in {"add", "remove"}
             => IsValid(cmd[x].arg)
       /\ pc[x] \in {"lock", "read", "write"} /\ cmd[x].kind = "add" => quote[x] = "ok"
       /\ pc[x] \in {"tickers", "flag"} => cmd[x].kind = "list"

(* What the locked checks established of the list about to be replaced. *)
Checked ==
    \A x \in Exec :
       pc[x] = "write" =>
          /\ cmd[x].kind = "add" => /\ ~Contains(current[x], Symbol(x))
                                    /\ Len(current[x]) < MaxTickers
          /\ cmd[x].kind = "remove" => Contains(current[x], Symbol(x))

(* The inductive invariant. *)
IInv == TypeOK /\ Places /\ LockOwnership /\ ReadStaysCurrent /\ Checked

LEMMA CommandFacts ==
    ASSUME NEW c \in Command
    PROVE  /\ c.kind \in {"add", "remove", "pause", "resume", "list", "help"}
           /\ c.kind \in {"add", "remove"} => c.arg \in Entry
           /\ c # NoCommand
BY CommandAssumption DEF Command

LEMMA EmptyIsClean == <<>> \in WatchLists
BY StoreAssumption DEF WatchLists

LEMMA IInvInit == Init => IInv
<1> SUFFICES ASSUME Init PROVE IInv
  OBVIOUS
<1>1. TypeOK
  BY ExecAssumption, EmptyIsClean DEF Init, TypeOK, Locations, Verdicts, NoReply, ReplyTexts
<1>2. Places /\ ReadStaysCurrent /\ Checked
  BY DEF Init, Places, ReadStaysCurrent, Checked
<1>3. LockOwnership
  BY ExecAssumption DEF Init, LockOwnership
<1> QED
  BY <1>1, <1>2, <1>3 DEF IInv

LEMMA WriteKinds ==
    ASSUME IInv, NEW x \in Exec, Write(x)
    PROVE  cmd[x].kind \in {"add", "remove", "pause", "resume"}
BY DEF IInv, Places, Write, At

(* What a write of the list does: it replaces what everyone sees by that,   *)
(* plus or minus the ticker it was asked for.                               *)
LEMMA WriteFacts ==
    ASSUME IInv, NEW x \in Exec, Write(x), cmd[x].kind \in {"add", "remove"}
    PROVE  /\ stored' \in WatchLists
           /\ Tickers(stored') = stored'
           /\ Goto(x, "release") /\ UNCHANGED <<paused, lock, cmd, quote, current>>
           /\ Tickers(stored) \in WatchLists
           /\ Symbol(x) \in Ticker /\ IsValid(cmd[x].arg)
           /\ lock = x
           /\ \/ /\ cmd[x].kind = "add" /\ quote[x] = "ok"
                 /\ ~Contains(Tickers(stored), Symbol(x)) /\ Len(Tickers(stored)) < MaxTickers
                 /\ stored' = Added(Tickers(stored), Symbol(x))
                 /\ Say(x, "added", stored')
              \/ /\ cmd[x].kind = "remove"
                 /\ Contains(Tickers(stored), Symbol(x))
                 /\ stored' = Removed(Tickers(stored), Symbol(x))
                 /\ Say(x, "removed", stored')
<1>1. /\ Tickers(stored) \in WatchLists
      /\ current[x] = Tickers(stored)
      /\ lock = x
  BY TickersIsClean DEF IInv, TypeOK, ReadStaysCurrent, LockOwnership, Write, At
<1>2. Symbol(x) \in Ticker /\ IsValid(cmd[x].arg)
  BY DEF IInv, Places, Write, At, Symbol, IsValid
<1>3. Goto(x, "release") /\ UNCHANGED <<lock, cmd, quote, current>>
  BY DEF Write
<1>4. CASE cmd[x].kind = "add"
  <2>1. quote[x] = "ok" /\ ~Contains(current[x], Symbol(x)) /\ Len(current[x]) < MaxTickers
    BY <1>4 DEF IInv, Places, Checked, Write, At
  <2>2. stored' = Added(current[x], Symbol(x)) /\ Say(x, "added", stored') /\ UNCHANGED paused
    BY <1>4 DEF Write
  <2>3. stored' \in WatchLists
    BY <1>1, <1>2, <2>1, <2>2, AddedIsClean
  <2> QED
    BY <1>1, <1>2, <1>3, <1>4, <2>1, <2>2, <2>3, TickersOfClean
<1>5. CASE cmd[x].kind = "remove"
  <2>1. Contains(current[x], Symbol(x))
    BY <1>5 DEF IInv, Checked, Write, At
  <2>2. stored' = Removed(current[x], Symbol(x)) /\ Say(x, "removed", stored') /\ UNCHANGED paused
    BY <1>5 DEF Write
  <2>3. stored' \in WatchLists
    BY <1>1, <2>1, <2>2, RemovedIsClean
  <2> QED
    BY <1>1, <1>2, <1>3, <1>5, <2>1, <2>2, <2>3, TickersOfClean
<1> QED
  BY <1>4, <1>5

(* Nothing but a write changes the property, and the flag's write does not. *)
LEMMA OnlyWrite ==
    ASSUME IInv, [Next]_vars, stored' # stored
    PROVE  \E x \in Exec : Write(x) /\ cmd[x].kind \in {"add", "remove"}
BY DEF Next, Step, vars, Receive, Dispatch, Has, IsFull, QuotesFor, Acquire, Busy, ReadUnderLock,
       Write, Release, ListTickers, ListFlag, SendReply, Die, OtherLock, local

LEMMA TypeOKNext == ASSUME IInv, [Next]_vars PROVE TypeOK'
<1> USE DEF TypeOK, At, Goto, Say, Locations, Verdicts, ReplyTexts
<1>1. ASSUME NEW x \in Exec, NEW c \in Command, Receive(x, c) PROVE TypeOK'
  BY <1>1 DEF IInv, Receive
<1>2. ASSUME NEW x \in Exec, Dispatch(x) PROVE TypeOK'
  <2>1. \/ Say(x, "invalid", <<>>) /\ Goto(x, "send")
        \/ Say(x, "help", <<>>) /\ Goto(x, "send")
        \/ \E l \in {"has", "lock", "tickers"} : Goto(x, l) /\ UNCHANGED reply
    BY <1>2 DEF Dispatch
  <2>2. UNCHANGED <<stored, paused, lock, cmd, quote, current>>
    BY <1>2 DEF Dispatch
  <2>3. pc' \in [Exec -> Locations]
    BY <2>1 DEF IInv
  <2>4. reply' \in [Exec -> [text : ReplyTexts, tickers : WatchLists]]
    BY <2>1, EmptyIsClean DEF IInv
  <2> QED
    BY <2>2, <2>3, <2>4 DEF IInv
<1>3. ASSUME NEW x \in Exec, Has(x) PROVE TypeOK'
  <2>1. \/ Say(x, "duplicate", <<>>) /\ Goto(x, "send")
        \/ Goto(x, "full") /\ UNCHANGED reply
    BY <1>3 DEF Has
  <2>2. UNCHANGED <<stored, paused, lock, cmd, quote, current>>
    BY <1>3 DEF Has
  <2>3. pc' \in [Exec -> Locations]
    BY <2>1 DEF IInv
  <2>4. reply' \in [Exec -> [text : ReplyTexts, tickers : WatchLists]]
    BY <2>1, EmptyIsClean DEF IInv
  <2> QED
    BY <2>2, <2>3, <2>4 DEF IInv
<1>4. ASSUME NEW x \in Exec, IsFull(x) PROVE TypeOK'
  <2>1. \/ Say(x, "at_cap", <<>>) /\ Goto(x, "send")
        \/ Goto(x, "quote") /\ UNCHANGED reply
    BY <1>4 DEF IsFull
  <2>2. UNCHANGED <<stored, paused, lock, cmd, quote, current>>
    BY <1>4 DEF IsFull
  <2>3. pc' \in [Exec -> Locations]
    BY <2>1 DEF IInv
  <2>4. reply' \in [Exec -> [text : ReplyTexts, tickers : WatchLists]]
    BY <2>1, EmptyIsClean DEF IInv
  <2> QED
    BY <2>2, <2>3, <2>4 DEF IInv
<1>5. ASSUME NEW x \in Exec, QuotesFor(x) PROVE TypeOK'
  <2>1. PICK v \in {"ok", "no_quote", "failed"} : quote' = [quote EXCEPT ![x] = v]
    BY <1>5 DEF QuotesFor
  <2>2. quote' \in [Exec -> Verdicts]
    BY <2>1 DEF IInv
  <2>3. \/ Goto(x, "lock") /\ UNCHANGED reply
        \/ Say(x, "unknown_symbol", <<>>) /\ Goto(x, "send")
        \/ Say(x, "unreachable", <<>>) /\ Goto(x, "send")
    BY <1>5 DEF QuotesFor
  <2>4. pc' \in [Exec -> Locations]
    BY <2>3 DEF IInv
  <2>5. reply' \in [Exec -> [text : ReplyTexts, tickers : WatchLists]]
    BY <2>3, EmptyIsClean DEF IInv
  <2>6. UNCHANGED <<stored, paused, lock, cmd, current>>
    BY <1>5 DEF QuotesFor
  <2> QED
    BY <2>2, <2>4, <2>5, <2>6 DEF IInv
<1>6. ASSUME NEW x \in Exec, Acquire(x) PROVE TypeOK'
  BY <1>6 DEF IInv, Acquire, local
<1>7. ASSUME NEW x \in Exec, Busy(x) PROVE TypeOK'
  BY <1>7, EmptyIsClean DEF IInv, Busy
<1>8. ASSUME NEW x \in Exec, ReadUnderLock(x) PROVE TypeOK'
  <2>1. Tickers(stored) \in WatchLists
    BY TickersIsClean DEF IInv
  <2>2. current' \in [Exec -> WatchLists]
    BY <1>8, <2>1 DEF IInv, ReadUnderLock
  <2>3. \/ /\ Goto(x, "release")
           /\ \/ Say(x, "duplicate", <<>>)
              \/ Say(x, "at_cap", <<>>)
              \/ Say(x, "not_found", <<>>)
        \/ Goto(x, "write") /\ UNCHANGED reply
    BY <1>8 DEF ReadUnderLock
  <2>4. pc' \in [Exec -> Locations]
    BY <2>3 DEF IInv
  <2>5. reply' \in [Exec -> [text : ReplyTexts, tickers : WatchLists]]
    BY <2>3, EmptyIsClean DEF IInv
  <2>6. UNCHANGED <<stored, paused, lock, cmd, quote>>
    BY <1>8 DEF ReadUnderLock
  <2> QED
    BY <2>2, <2>4, <2>5, <2>6 DEF IInv
<1>9. ASSUME NEW x \in Exec, Write(x) PROVE TypeOK'
  <2>1. CASE cmd[x].kind \in {"add", "remove"}
    <3>1. /\ stored' \in WatchLists /\ stored' \in Raw
          /\ Say(x, "added", stored') \/ Say(x, "removed", stored')
          /\ Goto(x, "release") /\ UNCHANGED <<paused, lock, cmd, quote, current>>
      BY <1>9, <2>1, WriteFacts, TickersOfClean
    <3> QED
      BY <3>1 DEF IInv
  <2>2. CASE cmd[x].kind \in {"pause", "resume"}
    <3>1. paused' = (cmd[x].kind = "pause") /\ stored' = stored
      BY <1>9, <2>2 DEF Write
    <3>2. paused' \in BOOLEAN
      BY <3>1
    <3>3. \/ Say(x, "paused", <<>>)
          \/ Say(x, "resumed", <<>>)
      BY <1>9, <2>2 DEF Write
    <3>4. Goto(x, "release") /\ UNCHANGED <<lock, cmd, quote, current>>
      BY <1>9 DEF Write
    <3> QED
      BY <3>1, <3>2, <3>3, <3>4, EmptyIsClean DEF IInv
  <2> QED
    BY <1>9, <2>1, <2>2, WriteKinds
<1>10. ASSUME NEW x \in Exec, Release(x) PROVE TypeOK'
  BY <1>10 DEF IInv, Release, local
<1>11. ASSUME NEW x \in Exec, ListTickers(x) PROVE TypeOK'
  <2>1. Tickers(stored) \in WatchLists
    BY TickersIsClean DEF IInv
  <2> QED
    BY <1>11, <2>1 DEF IInv, ListTickers
<1>12. ASSUME NEW x \in Exec, ListFlag(x) PROVE TypeOK'
  BY <1>12 DEF IInv, ListFlag
<1>13. ASSUME NEW x \in Exec, SendReply(x) PROVE TypeOK'
  BY <1>13, EmptyIsClean DEF IInv, SendReply, End, NoReply
<1>14. ASSUME NEW x \in Exec, Die(x) PROVE TypeOK'
  BY <1>14, EmptyIsClean DEF IInv, Die, End, NoReply
<1>15. CASE OtherLock \/ UNCHANGED vars
  BY <1>15 DEF IInv, OtherLock, vars, local
<1> HIDE DEF TypeOK
<1> QED
  BY <1>1, <1>2, <1>3, <1>4, <1>5, <1>6, <1>7, <1>8, <1>9, <1>10, <1>11, <1>12, <1>13, <1>14,
     <1>15 DEF Next, Step

LEMMA PlacesNext == ASSUME IInv, [Next]_vars PROVE Places'
<1> USE DEF TypeOK, At, Goto, Say, Symbol
<1>1. ASSUME NEW x \in Exec, NEW c \in Command, Receive(x, c) PROVE Places'
  BY <1>1 DEF IInv, Places, Receive
<1>2. ASSUME NEW x \in Exec, Dispatch(x) PROVE Places'
  BY <1>2 DEF IInv, Places, Dispatch
<1>3. ASSUME NEW x \in Exec, Has(x) PROVE Places'
  BY <1>3 DEF IInv, Places, Has
<1>4. ASSUME NEW x \in Exec, IsFull(x) PROVE Places'
  BY <1>4 DEF IInv, Places, IsFull
<1>5. ASSUME NEW x \in Exec, QuotesFor(x) PROVE Places'
  <2>1. PICK v \in {"ok", "no_quote", "failed"} :
           /\ quote' = [quote EXCEPT ![x] = v]
           /\ (v = "ok" /\ Goto(x, "lock")) \/ Goto(x, "send")
    BY <1>5 DEF QuotesFor
  <2>2. At(x, "quote") /\ UNCHANGED cmd
    BY <1>5 DEF QuotesFor
  <2> QED
    BY <2>1, <2>2 DEF IInv, Places
<1>6. ASSUME NEW x \in Exec, Acquire(x) PROVE Places'
  BY <1>6 DEF IInv, Places, Acquire, local
<1>7. ASSUME NEW x \in Exec, Busy(x) PROVE Places'
  BY <1>7 DEF IInv, Places, Busy
<1>8. ASSUME NEW x \in Exec, ReadUnderLock(x) PROVE Places'
  <2>1. At(x, "read") /\ (Goto(x, "release") \/ Goto(x, "write")) /\ UNCHANGED <<cmd, quote>>
    BY <1>8 DEF ReadUnderLock
  <2> QED
    BY <2>1 DEF IInv, Places
<1>9. ASSUME NEW x \in Exec, Write(x) PROVE Places'
  BY <1>9 DEF IInv, Places, Write
<1>10. ASSUME NEW x \in Exec, Release(x) PROVE Places'
  BY <1>10 DEF IInv, Places, Release, local
<1>11. ASSUME NEW x \in Exec, ListTickers(x) PROVE Places'
  BY <1>11 DEF IInv, Places, ListTickers
<1>12. ASSUME NEW x \in Exec, ListFlag(x) PROVE Places'
  BY <1>12 DEF IInv, Places, ListFlag
<1>13. ASSUME NEW x \in Exec, SendReply(x) PROVE Places'
  BY <1>13 DEF IInv, Places, SendReply, End
<1>14. ASSUME NEW x \in Exec, Die(x) PROVE Places'
  BY <1>14 DEF IInv, Places, Die, End
<1>15. CASE OtherLock \/ UNCHANGED vars
  BY <1>15 DEF IInv, Places, OtherLock, vars, local
<1> HIDE DEF TypeOK
<1> QED
  BY <1>1, <1>2, <1>3, <1>4, <1>5, <1>6, <1>7, <1>8, <1>9, <1>10, <1>11, <1>12, <1>13, <1>14,
     <1>15 DEF Next, Step

(* Only three kinds of step move the lock, or move an execution over the    *)
(* edges of the critical section; each does both at once.                   *)
LEMMA LockOwnershipNext == ASSUME IInv, [Next]_vars PROVE LockOwnership'
<1> USE DEF TypeOK, At, Goto, LockOwnership
<1>1. ASSUME NEW x \in Exec, Acquire(x) PROVE LockOwnership'
  BY <1>1, ExecAssumption DEF IInv, Acquire
<1>2. ASSUME NEW x \in Exec, Release(x) PROVE LockOwnership'
  BY <1>2, ExecAssumption DEF IInv, Release
<1>3. ASSUME NEW x \in Exec, Die(x) PROVE LockOwnership'
  BY <1>3, ExecAssumption DEF IInv, Die, End
<1>4. ASSUME NEW x \in Exec, ReadUnderLock(x) \/ Write(x) PROVE LockOwnership'
  <2>1. /\ pc[x] \in {"read", "write"} /\ lock' = lock
        /\ Goto(x, "release") \/ Goto(x, "write")
    BY <1>4 DEF ReadUnderLock, Write
  <2> QED
    BY <2>1 DEF IInv
<1>5. ASSUME NEW x \in Exec,
             \/ \E c \in Command : Receive(x, c)
             \/ Dispatch(x) \/ Has(x) \/ IsFull(x) \/ QuotesFor(x) \/ Busy(x)
             \/ ListTickers(x) \/ ListFlag(x) \/ SendReply(x)
      PROVE  LockOwnership'
  <2>1. /\ pc[x] \notin {"read", "write", "release"} /\ lock' = lock
        /\ \E l \in Locations \ {"read", "write", "release"} : Goto(x, l)
    BY <1>5 DEF Receive, Dispatch, Has, IsFull, QuotesFor, Busy, ListTickers, ListFlag, SendReply,
                End, Locations
  <2> QED
    BY <2>1 DEF IInv
<1>6. CASE OtherLock \/ UNCHANGED vars
  BY <1>6, ExecAssumption DEF IInv, OtherLock, vars, local
<1> HIDE DEF TypeOK
<1> QED
  BY <1>1, <1>2, <1>3, <1>4, <1>5, <1>6 DEF Next, Step

(* The property only changes under the lock, so nobody else is about to     *)
(* write when it does.                                                      *)
LEMMA ReadStaysCurrentNext == ASSUME IInv, [Next]_vars PROVE ReadStaysCurrent'
<1> USE DEF TypeOK, At, Goto, ReadStaysCurrent
<1>1. ASSUME NEW x \in Exec, Write(x) PROVE ReadStaysCurrent'
  <2>1. \A y \in Exec : pc'[y] # "write"
    BY <1>1 DEF IInv, Write, LockOwnership
  <2> QED
    BY <2>1
<1>2. ASSUME NEW x \in Exec, ReadUnderLock(x) PROVE ReadStaysCurrent'
  <2>1. /\ current' = [current EXCEPT ![x] = Tickers(stored)]
        /\ UNCHANGED <<stored, cmd>>
        /\ \E l \in {"release", "write"} : Goto(x, l)
    BY <1>2 DEF ReadUnderLock
  <2> QED
    BY <2>1 DEF IInv
<1>3. ASSUME NEW x \in Exec, Acquire(x) PROVE ReadStaysCurrent'
  <2>1. pc'[x] = "write" => cmd'[x].kind \notin {"add", "remove"}
    BY <1>3 DEF IInv, Acquire, local
  <2> QED
    BY <1>3, <2>1 DEF IInv, Acquire, local
<1>4. ASSUME NEW x \in Exec,
             \/ \E c \in Command : Receive(x, c)
             \/ Dispatch(x) \/ Has(x) \/ IsFull(x) \/ QuotesFor(x) \/ Busy(x) \/ Release(x)
             \/ ListTickers(x) \/ ListFlag(x) \/ SendReply(x) \/ Die(x)
      PROVE  ReadStaysCurrent'
  <2>1. /\ stored' = stored
        /\ pc'[x] # "write"
        /\ \A y \in Exec \ {x} : pc'[y] = pc[y] /\ cmd'[y] = cmd[y] /\ current'[y] = current[y]
    BY <1>4 DEF IInv, Receive, Dispatch, Has, IsFull, QuotesFor, Busy, Release, ListTickers,
                ListFlag, SendReply, Die, End, local
  <2> QED
    BY <2>1 DEF IInv
<1>5. CASE OtherLock \/ UNCHANGED vars
  BY <1>5 DEF IInv, OtherLock, vars, local
<1> HIDE DEF TypeOK
<1> QED
  BY <1>1, <1>2, <1>3, <1>4, <1>5 DEF Next, Step

LEMMA CheckedNext == ASSUME IInv, [Next]_vars PROVE Checked'
<1> USE DEF TypeOK, At, Goto, Checked, Symbol
<1>1. ASSUME NEW x \in Exec, ReadUnderLock(x) PROVE Checked'
  <2>1. /\ current' = [current EXCEPT ![x] = Tickers(stored)]
        /\ UNCHANGED cmd
        /\ \/ Goto(x, "release")
           \/ /\ Goto(x, "write")
              /\ \/ /\ cmd[x].kind = "add"
                    /\ ~Contains(current'[x], Symbol(x))
                    /\ Len(current'[x]) < MaxTickers
                 \/ cmd[x].kind = "remove" /\ Contains(current'[x], Symbol(x))
    BY <1>1 DEF ReadUnderLock
  <2> QED
    BY <2>1 DEF IInv
<1>2. ASSUME NEW x \in Exec, Acquire(x) PROVE Checked'
  <2>1. pc'[x] = "write" => cmd'[x].kind \notin {"add", "remove"}
    BY <1>2 DEF IInv, Acquire, local
  <2> QED
    BY <1>2, <2>1 DEF IInv, Acquire, local
<1>3. ASSUME NEW x \in Exec,
             \/ \E c \in Command : Receive(x, c)
             \/ Dispatch(x) \/ Has(x) \/ IsFull(x) \/ QuotesFor(x) \/ Busy(x) \/ Release(x)
             \/ Write(x) \/ ListTickers(x) \/ ListFlag(x) \/ SendReply(x) \/ Die(x)
      PROVE  Checked'
  <2>1. /\ pc'[x] # "write"
        /\ \A y \in Exec \ {x} : pc'[y] = pc[y] /\ cmd'[y] = cmd[y] /\ current'[y] = current[y]
    BY <1>3 DEF IInv, Receive, Dispatch, Has, IsFull, QuotesFor, Busy, Release, Write, ListTickers,
                ListFlag, SendReply, Die, End, local
  <2> QED
    BY <2>1 DEF IInv
<1>4. CASE OtherLock \/ UNCHANGED vars
  BY <1>4 DEF IInv, OtherLock, vars, local
<1> HIDE DEF TypeOK
<1> QED
  BY <1>1, <1>2, <1>3, <1>4 DEF Next, Step

LEMMA IInvNext == ASSUME IInv, [Next]_vars PROVE IInv'
BY TypeOKNext, PlacesNext, LockOwnershipNext, ReadStaysCurrentNext, CheckedNext DEF IInv

(* No fairness is needed, and doPost as a whole implements this much.       *)
Safety == Init /\ [][Next]_vars

LEMMA SpecIsSafe == Spec => Safety
BY DEF Spec, Safety

LEMMA Invariance == Safety => []IInv
<1>1. IInv /\ [Next]_vars => IInv'
  BY IInvNext
<1> QED
  BY IInvInit, <1>1, PTL DEF Safety

(* Every variable keeps its type; above all, what the commands read, write  *)
(* and report is a clean list, under the cap and without duplicates.        *)
THEOREM TypeCorrect == Spec => []TypeOK
<1>1. IInv => TypeOK
  BY DEF IInv
<1> QED
  BY Invariance, SpecIsSafe, <1>1, PTL

(* The lock excludes and is never left behind, however many texts overlap   *)
(* and wherever an execution dies.                                          *)
THEOREM LockCorrect == Spec => []LockOwnership
<1>1. IInv => LockOwnership
  BY DEF IInv
<1> QED
  BY Invariance, SpecIsSafe, <1>1, PTL

(* No update is lost: what a writer is about to replace is what it read.    *)
THEOREM NoLostUpdate == Spec => []ReadStaysCurrent
<1>1. IInv => ReadStaysCurrent
  BY DEF IInv
<1> QED
  BY Invariance, SpecIsSafe, <1>1, PTL

LEMMA CleanAlways == Safety => WritesAreClean
<1>1. IInv /\ [Next]_vars => [stored' \in WatchLists]_stored
  BY OnlyWrite, WriteFacts
<1> QED
  BY Invariance, <1>1, PTL DEF Safety, WritesAreClean

(* The bot never stores a list it would have to heal.                       *)
THEOREM CleanWrites == Spec => WritesAreClean
BY CleanAlways, SpecIsSafe, PTL

LEMMA ConfirmedAlways == Safety => AddsAreConfirmed
<1> DEFINE Confirmed ==
       \A t \in Ticker :
          ~Contains(Tickers(stored), t) /\ Contains(Tickers(stored'), t)
             => \E x \in Exec : /\ lock = x
                                /\ cmd[x].kind = "add"
                                /\ Symbol(x) = t
                                /\ quote[x] = "ok"
<1>1. IInv /\ [Next]_vars => [Confirmed]_stored
  <2> SUFFICES ASSUME IInv, [Next]_vars, stored' # stored,
                      NEW t \in Ticker,
                      ~Contains(Tickers(stored), t), Contains(Tickers(stored'), t)
               PROVE  \E x \in Exec : /\ lock = x
                                      /\ cmd[x].kind = "add"
                                      /\ Symbol(x) = t
                                      /\ quote[x] = "ok"
    OBVIOUS
  <2>1. PICK x \in Exec : Write(x) /\ cmd[x].kind \in {"add", "remove"}
    BY OnlyWrite
  <2>2. CASE cmd[x].kind = "add"
    BY <2>1, <2>2, WriteFacts, ContainsAdded
  <2>3. CASE cmd[x].kind = "remove"
    BY <2>1, <2>3, WriteFacts, ContainsRemoved
  <2> QED
    BY <2>1, <2>2, <2>3
<1> QED
  BY Invariance, <1>1, PTL DEF Safety, AddsAreConfirmed

(* No ticker enters the list without a paid check of its own that said ok.  *)
THEOREM ConfirmedAdds == Spec => AddsAreConfirmed
BY ConfirmedAlways, SpecIsSafe, PTL

-----------------------------------------------------------------------------
(***************************************************************************)
(* The watchlist commands keep the promises of WatchlistAbs: every step of *)
(* an execution is one step of the promise, or none.                       *)
(***************************************************************************)

(* A reply is decided at the step that the promise is kept by, and an idle  *)
(* execution has nothing to answer.                                         *)
Answers == \A x \in Exec : /\ pc[x] \notin {"release", "send"} => reply[x] = NoReply
                           /\ pc[x] = "idle" => cmd[x] = NoCommand

RInv == IInv /\ Answers

LEMMA AnswersNext == ASSUME RInv, [Next]_vars PROVE Answers'
<1> USE DEF TypeOK, At, Goto, Answers
<1>1. ASSUME NEW x \in Exec, NEW c \in Command, Receive(x, c) PROVE Answers'
  BY <1>1 DEF RInv, IInv, Receive
<1>2. ASSUME NEW x \in Exec, SendReply(x) \/ Die(x) PROVE Answers'
  BY <1>2 DEF RInv, IInv, SendReply, Die, End
<1>3. ASSUME NEW x \in Exec,
             \/ Dispatch(x) \/ Has(x) \/ IsFull(x) \/ QuotesFor(x) \/ Acquire(x) \/ Busy(x)
             \/ ReadUnderLock(x) \/ Write(x) \/ Release(x) \/ ListTickers(x) \/ ListFlag(x)
      PROVE  Answers'
  <2>1. /\ pc[x] # "idle" /\ UNCHANGED cmd
        /\ \/ \E l \in {"release", "send"} : Goto(x, l)
           \/ /\ UNCHANGED reply
              /\ pc[x] \notin {"release", "send"}
              /\ \E l \in Locations \ {"idle"} : Goto(x, l)
        /\ \A y \in Exec \ {x} : reply'[y] = reply[y]
    BY <1>3 DEF RInv, IInv, Dispatch, Has, IsFull, QuotesFor, Acquire, Busy, ReadUnderLock, Write,
                Release, ListTickers, ListFlag, Say, Locations, local
  <2> QED
    BY <2>1 DEF RInv, IInv
<1>4. CASE OtherLock \/ UNCHANGED vars
  BY <1>4 DEF RInv, IInv, OtherLock, vars, local
<1> HIDE DEF TypeOK
<1> QED
  BY <1>1, <1>2, <1>3, <1>4 DEF Next, Step

LEMMA RInvariance == Safety => []RInv
<1>1. Init => RInv
  BY IInvInit DEF Init, RInv, Answers
<1>2. RInv /\ [Next]_vars => RInv'
  BY IInvNext, AnswersNext DEF RInv
<1> QED
  BY <1>1, <1>2, PTL DEF Safety

LEMMA AbsData ==
    /\ Abs!WatchLists = WatchLists
    /\ \A l, t : Abs!Contains(l, t) = Contains(l, t)
    /\ \A l, t : Abs!Added(l, t) = Added(l, t)
    /\ \A l, t : Abs!Removed(l, t) = Removed(l, t)
    /\ \A e : Abs!IsValid(e) = IsValid(e)
BY DEF Abs!WatchLists, WatchLists, Abs!Contains, Contains, Abs!Added, Added, Abs!Removed, Removed,
       Abs!IsValid, IsValid

LEMMA AbsInit == ASSUME Init PROVE Abs!Init
<1>1. stored \in Raw
  BY ExecAssumption DEF Init
<1>2. Tickers(stored) \in WatchLists
  BY <1>1, TickersIsClean
<1>3. [x \in Exec |-> [read |-> pc[x] = "flag",
                       tickers |-> IF pc[x] = "flag" THEN current[x] ELSE <<>>]]
        = [x \in Exec |-> Abs!Unseen]
  BY DEF Init, Abs!Unseen
<1>4. reply = [x \in Exec |-> Abs!NoAnswer]
  BY DEF Init, NoReply, Abs!NoAnswer
<1> QED
  BY <1>2, <1>3, <1>4, AbsData DEF Init, Abs!Init

(* The list a LIST in progress has read, as a function of the state. *)
Looked == [x \in Exec |-> [read |-> pc[x] = "flag",
                           tickers |-> IF pc[x] = "flag" THEN current[x] ELSE <<>>]]

LEMMA LookedSame ==
    ASSUME RInv, RInv', NEW x \in Exec, NEW l, Goto(x, l), ~At(x, "flag"), l # "flag",
           \A y \in Exec \ {x} : current'[y] = current[y]
    PROVE  Looked' = Looked
BY DEF RInv, IInv, TypeOK, Goto, At, Looked

(* Steps that the promise does not see: they leave the mapped state alone.  *)
LEMMA Stutter ==
    ASSUME RInv, RInv', NEW x \in Exec,
           Tickers(stored') = Tickers(stored), UNCHANGED <<paused, cmd, reply>>,
           Looked' = Looked
    PROVE  UNCHANGED Abs!vars
BY DEF Abs!vars, Looked

(* An execution that has just decided on its answer, elsewhere in the code  *)
(* than inside LIST.                                                        *)
LEMMA AskedIs ==
    ASSUME RInv, NEW x \in Exec, pc[x] \notin {"idle", "release", "send"}, NEW K,
           cmd[x].kind \in K
    PROVE  Abs!Asked(x, K)
<1>1. cmd[x] \in Command /\ reply[x] = NoReply
  BY DEF RInv, IInv, Places, Answers
<1> QED
  BY <1>1, CommandFacts DEF Abs!Asked, NoReply, Abs!NoAnswer

LEMMA StepReceive ==
    ASSUME RInv, RInv', NEW x \in Exec, NEW c \in Command, Receive(x, c)
    PROVE  Abs!Next
<1>1. Looked' = Looked
  BY LookedSame DEF Receive, Goto, At
<1>2. cmd[x] = NoCommand
  BY DEF RInv, Answers, Receive, At
<1>3. Abs!Accept(x, c)
  BY <1>1, <1>2 DEF Receive, Abs!Accept, Looked
<1> QED
  BY <1>3 DEF Abs!Next

LEMMA StepDecline ==
    ASSUME RInv, RInv', NEW x \in Exec, NEW text \in {"unknown_symbol", "unreachable", "busy", "invalid", "help"},
           pc[x] \notin {"idle", "flag", "release", "send"}, Goto(x, "send"), Say(x, text, <<>>),
           UNCHANGED <<stored, paused, cmd, current>>,
           \/ cmd[x].kind = "add" /\ text \in {"unknown_symbol", "unreachable"}
           \/ cmd[x].kind \in {"add", "remove", "pause", "resume"} /\ text = "busy"
           \/ cmd[x].kind \in {"add", "remove"} /\ ~IsValid(cmd[x].arg) /\ text = "invalid"
           \/ cmd[x].kind = "help" /\ text = "help"
    PROVE  Abs!Next
<1>1. Looked' = Looked
  BY LookedSame DEF At
<1>2. \/ Abs!Asked(x, {"add"}) /\ text \in {"unknown_symbol", "unreachable"}
      \/ Abs!Asked(x, {"add", "remove", "pause", "resume"}) /\ text = "busy"
      \/ Abs!Asked(x, {"add", "remove"}) /\ ~Abs!IsValid(cmd[x].arg) /\ text = "invalid"
      \/ Abs!Asked(x, {"help"}) /\ text = "help"
  BY AskedIs, AbsData
<1>3. Abs!Decline(x, text)
  BY <1>1, <1>2 DEF Abs!Decline, Abs!Say, Say, Looked
<1> QED
  BY <1>3 DEF Abs!Next

(* The refusals of ADD and REMOVE that depend on the list, given on a fresh *)
(* read of it, locked or not.                                               *)
LEMMA StepRefuse ==
    ASSUME RInv, RInv', NEW x \in Exec, NEW l \in {"send", "release"}, NEW text,
           pc[x] \in {"has", "full", "read"}, Goto(x, l), Say(x, text, <<>>),
           UNCHANGED <<stored, paused, cmd>>,
           \A y \in Exec \ {x} : current'[y] = current[y],
           cmd[x].kind \in {"add", "remove"},
           \/ cmd[x].kind = "add" /\ Contains(Tickers(stored), Symbol(x)) /\ text = "duplicate"
           \/ cmd[x].kind = "add" /\ Len(Tickers(stored)) >= MaxTickers /\ text = "at_cap"
           \/ cmd[x].kind = "remove" /\ ~Contains(Tickers(stored), Symbol(x)) /\ text = "not_found"
    PROVE  Abs!Next
<1>1. Looked' = Looked
  BY LookedSame DEF At
<1>2. IsValid(cmd[x].arg)
  BY DEF RInv, IInv, Places
<1>3. Tickers(stored) \in WatchLists
  BY TickersIsClean DEF RInv, IInv, TypeOK
<1>4. Len(Tickers(stored)) >= MaxTickers => Len(Tickers(stored)) = MaxTickers
  BY <1>3, LenProperties, StoreAssumption DEF WatchLists
<1>5. CASE cmd[x].kind = "add"
  <2>1. Abs!Asked(x, {"add"})
    BY <1>5, AskedIs
  <2>2. Abs!Add(x)
    BY <1>1, <1>2, <1>4, <1>5, <2>1, AbsData DEF Abs!Add, Abs!Say, Say, Symbol, Looked
  <2> QED
    BY <2>2 DEF Abs!Next
<1>6. CASE cmd[x].kind = "remove"
  <2>1. Abs!Asked(x, {"remove"})
    BY <1>6, AskedIs
  <2>2. Abs!Remove(x)
    BY <1>1, <1>2, <1>6, <2>1, AbsData DEF Abs!Remove, Abs!Say, Say, Symbol, Looked
  <2> QED
    BY <2>2 DEF Abs!Next
<1> QED
  BY <1>5, <1>6

(* The write of the list is where ADD and REMOVE take effect. *)
LEMMA StepWrite ==
    ASSUME RInv, RInv', NEW x \in Exec, Write(x)
    PROVE  Abs!Next
<1>0. pc[x] = "write" /\ Goto(x, "release") /\ UNCHANGED <<cmd, current>>
  BY DEF Write, At
<1>1. Looked' = Looked
  BY <1>0, LookedSame DEF At
<1>2. CASE cmd[x].kind = "add"
  <2>1. Abs!Asked(x, {"add"})
    BY <1>0, <1>2, AskedIs
  <2>2. Abs!Add(x)
    BY <1>0, <1>1, <1>2, <2>1, WriteFacts, AbsData DEF RInv, Abs!Add, Abs!Say, Say, Symbol, Looked
  <2> QED
    BY <2>2 DEF Abs!Next
<1>3. CASE cmd[x].kind = "remove"
  <2>1. Abs!Asked(x, {"remove"})
    BY <1>0, <1>3, AskedIs
  <2>2. Abs!Remove(x)
    BY <1>0, <1>1, <1>3, <2>1, WriteFacts, AbsData DEF RInv, Abs!Remove, Abs!Say, Say, Symbol, Looked
  <2> QED
    BY <2>2 DEF Abs!Next
<1>4. CASE cmd[x].kind \in {"pause", "resume"}
  <2>1. Abs!Asked(x, {"pause", "resume"})
    BY <1>0, <1>4, AskedIs
  <2>2. /\ paused' = (cmd[x].kind = "pause") /\ stored' = stored
        /\ Say(x, IF paused' THEN "paused" ELSE "resumed", <<>>)
    BY <1>4 DEF Write
  <2>3. Abs!SetPaused(x)
    BY <1>0, <1>1, <2>1, <2>2 DEF Abs!SetPaused, Abs!Say, Say, Looked
  <2> QED
    BY <2>3 DEF Abs!Next
<1> QED
  BY <1>2, <1>3, <1>4, WriteKinds DEF RInv

LEMMA StepList ==
    ASSUME RInv, RInv', NEW x \in Exec, ListTickers(x) \/ ListFlag(x)
    PROVE  Abs!Next
<1> USE DEF At, Goto
<1>1. Abs!Asked(x, {"list"})
  <2>1. cmd[x].kind = "list" /\ pc[x] \in {"tickers", "flag"}
    BY DEF RInv, IInv, Places, ListTickers, ListFlag
  <2> QED
    BY <2>1, AskedIs
<1>2. CASE ListTickers(x)
  <2>1. Looked' = [Looked EXCEPT ![x] = [read |-> TRUE, tickers |-> Tickers(stored)]]
    BY <1>2 DEF RInv, IInv, TypeOK, ListTickers, Looked
  <2>2. Abs!LookAtList(x)
    BY <1>1, <1>2, <2>1 DEF Abs!LookAtList, ListTickers, Looked
  <2> QED
    BY <2>2 DEF Abs!Next
<1>3. CASE ListFlag(x)
  <2>1. Looked' = [Looked EXCEPT ![x] = Abs!Unseen]
    BY <1>3 DEF RInv, IInv, TypeOK, ListFlag, Looked, Abs!Unseen
  <2>2. Looked[x].read /\ Looked[x].tickers = current[x]
    BY <1>3 DEF ListFlag, Looked
  <2>3. Abs!LookAtFlag(x)
    BY <1>1, <1>3, <2>1, <2>2 DEF Abs!LookAtFlag, Abs!Say, Say, ListFlag, Looked
  <2> QED
    BY <2>3 DEF Abs!Next
<1> QED
  BY <1>2, <1>3

LEMMA StepEnd ==
    ASSUME RInv, RInv', NEW x \in Exec, SendReply(x) \/ Die(x)
    PROVE  Abs!Next
<1>1. /\ pc[x] # "idle" /\ End(x) /\ UNCHANGED <<stored, paused>>
  BY DEF SendReply, Die, At
<1>2. cmd[x] # NoCommand
  BY <1>1, CommandFacts DEF RInv, IInv, Places
<1>3. Looked' = [Looked EXCEPT ![x] = Abs!Unseen]
  BY <1>1 DEF RInv, IInv, TypeOK, End, Goto, Looked, Abs!Unseen
<1>4. Abs!Finish(x)
  BY <1>1, <1>2, <1>3 DEF Abs!Finish, End, NoReply, Abs!NoAnswer, Looked
<1> QED
  BY <1>4 DEF Abs!Next

LEMMA StepRefines ==
    ASSUME RInv, RInv', [Next]_vars
    PROVE  [Abs!Next]_(Abs!vars)
<1> USE DEF At
<1>1. ASSUME NEW x \in Exec, NEW c \in Command, Receive(x, c) PROVE Abs!Next
  BY <1>1, StepReceive
<1>2. ASSUME NEW x \in Exec, Dispatch(x) PROVE Abs!Next \/ UNCHANGED Abs!vars
  <2>1. pc[x] = "dispatch" /\ UNCHANGED <<stored, paused, cmd, current>>
    BY <1>2 DEF Dispatch
  <2>2. CASE cmd[x].kind \in {"add", "remove"} /\ ~IsValid(cmd[x].arg)
    <3>1. Say(x, "invalid", <<>>) /\ Goto(x, "send")
      BY <1>2, <2>2 DEF Dispatch
    <3> QED
      BY <2>1, <2>2, <3>1, StepDecline
  <2>3. CASE cmd[x].kind = "help"
    <3>1. Say(x, "help", <<>>) /\ Goto(x, "send")
      BY <1>2, <2>3 DEF Dispatch
    <3> QED
      BY <2>1, <2>3, <3>1, StepDecline
  <2>4. CASE /\ ~(cmd[x].kind \in {"add", "remove"} /\ ~IsValid(cmd[x].arg))
             /\ cmd[x].kind # "help"
    <3>1. UNCHANGED reply /\ \E l \in {"has", "lock", "tickers"} : Goto(x, l)
      BY <1>2, <2>4 DEF Dispatch
    <3>2. Looked' = Looked
      BY <2>1, <3>1, LookedSame
    <3> QED
      BY <2>1, <3>1, <3>2, Stutter
  <2> QED
    BY <2>2, <2>3, <2>4
<1>3. ASSUME NEW x \in Exec, Has(x) PROVE Abs!Next \/ UNCHANGED Abs!vars
  <2>1. pc[x] = "has" /\ UNCHANGED <<stored, paused, cmd, current>> /\ cmd[x].kind = "add"
    BY <1>3 DEF Has, RInv, IInv, Places
  <2>2. CASE Contains(Tickers(stored), Symbol(x))
    BY <1>3, <2>1, <2>2, StepRefuse DEF Has
  <2>3. CASE ~Contains(Tickers(stored), Symbol(x))
    <3>1. Goto(x, "full") /\ UNCHANGED reply
      BY <1>3, <2>3 DEF Has
    <3>2. Looked' = Looked
      BY <2>1, <3>1, LookedSame
    <3> QED
      BY <2>1, <3>1, <3>2, Stutter
  <2> QED
    BY <2>2, <2>3
<1>4. ASSUME NEW x \in Exec, IsFull(x) PROVE Abs!Next \/ UNCHANGED Abs!vars
  <2>1. pc[x] = "full" /\ UNCHANGED <<stored, paused, cmd, current>> /\ cmd[x].kind = "add"
    BY <1>4 DEF IsFull, RInv, IInv, Places
  <2>2. CASE Len(Tickers(stored)) >= MaxTickers
    BY <1>4, <2>1, <2>2, StepRefuse DEF IsFull
  <2>3. CASE ~(Len(Tickers(stored)) >= MaxTickers)
    <3>1. Goto(x, "quote") /\ UNCHANGED reply
      BY <1>4, <2>3 DEF IsFull
    <3>2. Looked' = Looked
      BY <2>1, <3>1, LookedSame
    <3> QED
      BY <2>1, <3>1, <3>2, Stutter
  <2> QED
    BY <2>2, <2>3
<1>5. ASSUME NEW x \in Exec, QuotesFor(x) PROVE Abs!Next \/ UNCHANGED Abs!vars
  <2>1. pc[x] = "quote" /\ UNCHANGED <<stored, paused, cmd, current>> /\ cmd[x].kind = "add"
    BY <1>5 DEF QuotesFor, RInv, IInv, Places
  <2>2. CASE \E text \in {"unknown_symbol", "unreachable"} : Say(x, text, <<>>) /\ Goto(x, "send")
    BY <2>1, <2>2, StepDecline
  <2>3. CASE Goto(x, "lock") /\ UNCHANGED reply
    <3>1. Looked' = Looked
      BY <2>1, <2>3, LookedSame
    <3> QED
      BY <2>1, <2>3, <3>1, Stutter
  <2> QED
    BY <1>5, <2>2, <2>3 DEF QuotesFor
<1>6. ASSUME NEW x \in Exec, Acquire(x) \/ Release(x) PROVE UNCHANGED Abs!vars
  <2>1. /\ pc[x] \in {"lock", "release"} /\ UNCHANGED <<stored, paused, cmd, current, reply>>
        /\ \E l \in {"read", "write", "send"} : Goto(x, l)
    BY <1>6 DEF Acquire, Release, local
  <2>2. Looked' = Looked
    BY <2>1, LookedSame
  <2> QED
    BY <2>1, <2>2, Stutter
<1>7. ASSUME NEW x \in Exec, Busy(x) PROVE Abs!Next
  <2>1. /\ pc[x] = "lock" /\ UNCHANGED <<stored, paused, cmd, current>>
        /\ cmd[x].kind \in {"add", "remove", "pause", "resume"}
        /\ Say(x, "busy", <<>>) /\ Goto(x, "send")
    BY <1>7 DEF Busy, RInv, IInv, Places
  <2> QED
    BY <2>1, StepDecline
<1>8. ASSUME NEW x \in Exec, ReadUnderLock(x) PROVE Abs!Next \/ UNCHANGED Abs!vars
  <2>1. /\ pc[x] = "read" /\ UNCHANGED <<stored, paused, cmd>>
        /\ current' = [current EXCEPT ![x] = Tickers(stored)]
        /\ current'[x] = Tickers(stored)
        /\ \A y \in Exec \ {x} : current'[y] = current[y]
        /\ cmd[x].kind \in {"add", "remove"}
    BY <1>8 DEF ReadUnderLock, RInv, IInv, TypeOK, Places
  <2>2. CASE Goto(x, "write") /\ UNCHANGED reply
    <3>1. Looked' = Looked
      BY <2>1, <2>2, LookedSame
    <3> QED
      BY <2>1, <2>2, <3>1, Stutter
  <2>3. CASE /\ Goto(x, "release")
             /\ \E text \in {"duplicate", "at_cap", "not_found"} :
                   /\ Say(x, text, <<>>)
                   /\ \/ /\ cmd[x].kind = "add" /\ text = "duplicate"
                         /\ Contains(Tickers(stored), Symbol(x))
                      \/ /\ cmd[x].kind = "add" /\ text = "at_cap"
                         /\ Len(Tickers(stored)) >= MaxTickers
                      \/ /\ cmd[x].kind = "remove" /\ text = "not_found"
                         /\ ~Contains(Tickers(stored), Symbol(x))
    BY <2>1, <2>3, StepRefuse
  <2> QED
    BY <1>8, <2>1, <2>2, <2>3 DEF ReadUnderLock
<1>9. ASSUME NEW x \in Exec, Write(x) PROVE Abs!Next
  BY <1>9, StepWrite
<1>10. ASSUME NEW x \in Exec, ListTickers(x) \/ ListFlag(x) PROVE Abs!Next
  BY <1>10, StepList
<1>11. ASSUME NEW x \in Exec, SendReply(x) \/ Die(x) PROVE Abs!Next
  BY <1>11, StepEnd
<1>12. CASE OtherLock \/ UNCHANGED vars
  BY <1>12 DEF OtherLock, local, vars, Abs!vars
<1> QED
  BY <1>1, <1>2, <1>3, <1>4, <1>5, <1>6, <1>7, <1>8, <1>9, <1>10, <1>11, <1>12 DEF Next, Step

LEMMA RefinementAlways == Safety => RepliesAreTrue
<1>1. Init => Abs!Init
  BY AbsInit
<1>2. RInv /\ RInv' /\ [Next]_vars => [Abs!Next]_(Abs!vars)
  BY StepRefines
<1> QED
  BY RInvariance, <1>1, <1>2, PTL DEF Safety, RepliesAreTrue, Abs!Spec

(* However many texts overlap and wherever executions die, each command     *)
(* acts on the list and the flag in one step, and its reply is the truth of *)
(* that step.                                                               *)
THEOREM Refinement == Spec => RepliesAreTrue
BY RefinementAlways, SpecIsSafe, PTL
===============================================================================
