----------------------------- MODULE Verifier_proofs -----------------------------
(***************************************************************************)
(* The verifier's memory, for any number of texts, clicks and restarts of  *)
(* the counter.                                                            *)
(*                                                                         *)
(* The invariant ties a click to the text it pasted, for as long as the    *)
(* HMAC is awaited and after, and every good verdict to the number on the  *)
(* device: a welcomed number is never ahead of it.                         *)
(***************************************************************************)
EXTENDS VerifierProps, SequenceTheorems, FiniteSetTheorems, TLAPS

BotTypes == /\ counter \in 0..MaxNumber
            /\ restarts \in 0..MaxRestarts
            /\ issued \in Seq(1..MaxNumber)
            /\ inbox \in Seq(1..Len(issued)) /\ Len(inbox) <= MaxInbox

ClickTypes == /\ last \in 1..MaxNumber \cup {Null}
              /\ pc \in [Click -> {"idle", "hashing", "done"}]
              /\ place \in [Click -> 0..Len(inbox)]
              /\ n \in [Click -> 0..MaxNumber]
              /\ verdict \in [Click -> Verdicts]
              /\ verified \in SUBSET (1..Len(issued))
              /\ orderly \in BOOLEAN

(* A click's number is the one in the text it was made on. *)
Pasted == \A x \in Click : /\ pc[x] = "idle" => place[x] = 0
                           /\ pc[x] # "done" => verdict[x] = "none"
                           /\ place[x] > 0 => n[x] = issued[inbox[place[x]]]

(* A number that was welcomed is at most the one on the device. *)
Behind == \A x \in Click : Welcomed(x) => last # Null /\ n[x] <= last

VInv == BotTypes /\ ClickTypes /\ Pasted /\ LastIsHighest /\ Behind /\ CountedOnce

LEMMA VInvInit == Init => VInv
<1> SUFFICES ASSUME Init PROVE VInv
  OBVIOUS
<1>1. BotTypes /\ ClickTypes
  BY VerifierAssumption DEF Init, BotTypes, ClickTypes, Verdicts
<1>2. Pasted /\ LastIsHighest
  BY DEF Init, Pasted, LastIsHighest
<1>3. Behind /\ CountedOnce
  BY DEF Init, Behind, CountedOnce, Welcomed
<1>. QED
  BY <1>1, <1>2, <1>3 DEF VInv

LEMMA Elements ==
    ASSUME BotTypes
    PROVE  /\ Len(issued) \in Nat /\ Len(inbox) \in Nat
           /\ \A i \in 1..Len(issued) : issued[i] \in 1..MaxNumber
           /\ \A k \in 1..Len(inbox) : inbox[k] \in 1..Len(issued) /\ issued[inbox[k]] \in 1..MaxNumber
<1>1. \A i \in 1..Len(issued) : issued[i] \in 1..MaxNumber
  BY ElementOfSeq DEF BotTypes
<1>2. \A k \in 1..Len(inbox) : inbox[k] \in 1..Len(issued)
  BY ElementOfSeq DEF BotTypes
<1>. QED
  BY <1>1, <1>2 DEF BotTypes

(* A step that leaves the clicks and the device alone, and what has been    *)
(* issued and has arrived where it is.                                      *)
LEMMA Elsewhere ==
    ASSUME VInv, BotTypes', UNCHANGED <<last, pc, pasted, verdict, verified, orderly>>,
           Len(issued) <= Len(issued'), \A i \in 1..Len(issued) : issued'[i] = issued[i],
           Len(inbox) <= Len(inbox'), \A k \in 1..Len(inbox) : inbox'[k] = inbox[k]
    PROVE  VInv'
<1> USE DEF pasted
<1>0. /\ Len(issued) \in Nat /\ Len(issued)' \in Nat /\ Len(inbox) \in Nat /\ Len(inbox)' \in Nat
      /\ \A k \in 1..Len(inbox) : inbox[k] \in 1..Len(issued)
  <2>1. issued \in Seq(1..MaxNumber) /\ issued' \in Seq(1..MaxNumber)
    BY DEF VInv, BotTypes
  <2>2. inbox \in Seq(1..Len(issued)) /\ inbox' \in Seq(1..Len(issued'))
    BY DEF VInv, BotTypes
  <2>. QED
    BY <2>1, <2>2
<1>1. ClickTypes'
  BY <1>0 DEF VInv, ClickTypes
<1>2. Pasted'
  BY <1>0 DEF VInv, Pasted, ClickTypes
<1>3. LastIsHighest'
  BY <1>0 DEF VInv, ClickTypes, LastIsHighest
<1>4. Behind' /\ CountedOnce'
  BY DEF VInv, Behind, CountedOnce, Welcomed, Authentic
<1>. QED
  BY <1>1, <1>2, <1>3, <1>4 DEF VInv

LEMMA IssueStep ==
    ASSUME VInv, Issue
    PROVE  VInv'
<1>1. counter' \in 1..MaxNumber /\ issued \in Seq(1..MaxNumber)
  BY VerifierAssumption DEF VInv, BotTypes, Issue
<1>2. /\ issued' \in Seq(1..MaxNumber)
      /\ Len(issued') = Len(issued) + 1 /\ Len(issued) \in Nat
      /\ \A i \in 1..Len(issued) : issued'[i] = issued[i]
  BY <1>1, AppendProperties DEF Issue
<1>3. inbox \in Seq(1..Len(issued'))
  BY <1>2 DEF VInv, BotTypes
<1>4. BotTypes'
  BY <1>1, <1>2, <1>3 DEF VInv, BotTypes, Issue
<1>. QED
  BY <1>2, <1>4, Elsewhere DEF Issue, VInv, BotTypes

LEMMA RestartStep ==
    ASSUME VInv, Restart
    PROVE  VInv'
<1>1. BotTypes'
  BY VerifierAssumption DEF VInv, BotTypes, Restart
<1>. QED
  BY <1>1, Elsewhere DEF Restart, VInv, BotTypes

LEMMA ArriveStep ==
    ASSUME VInv, NEW i \in 1..Len(issued), Arrive(i)
    PROVE  VInv'
<1>1. /\ inbox' \in Seq(1..Len(issued))
      /\ Len(inbox') = Len(inbox) + 1 /\ Len(inbox) \in Nat
      /\ \A k \in 1..Len(inbox) : inbox'[k] = inbox[k]
  BY AppendProperties DEF VInv, BotTypes, Arrive
<1>2. BotTypes'
  BY <1>1, VerifierAssumption DEF VInv, BotTypes, Arrive, bot
<1>. QED
  BY <1>1, <1>2, Elsewhere DEF Arrive, VInv, BotTypes, bot

(* A click that has just been made has no verdict. *)
LEMMA PasteStep ==
    ASSUME VInv, NEW x \in Click,
           \/ \E k \in 1..Len(inbox) : Paste(x, k)
           \/ \E m \in 0..MaxNumber : PasteAltered(x, m)
    PROVE  VInv'
<1>1. /\ pc[x] = "idle" /\ pc' = [pc EXCEPT ![x] = "hashing"]
      /\ UNCHANGED <<counter, restarts, issued, inbox, last, verdict, verified>>
  BY DEF Paste, PasteAltered, bot
<1>2. /\ \A y \in Click \ {x} : place'[y] = place[y] /\ n'[y] = n[y]
      /\ verdict'[x] = "none"
  BY <1>1 DEF Paste, PasteAltered, VInv, ClickTypes, Pasted
<1>3. BotTypes'
  BY <1>1 DEF VInv, BotTypes
<1>4. ClickTypes'
  <2>1. \A k \in 1..Len(inbox) : issued[inbox[k]] \in 0..MaxNumber
    BY Elements, VerifierAssumption DEF VInv
  <2>2. CASE \E k \in 1..Len(inbox) : Paste(x, k)
    BY <1>1, <2>1, <2>2 DEF VInv, ClickTypes, Paste
  <2>3. CASE \E m \in 0..MaxNumber : PasteAltered(x, m)
    BY <1>1, <2>3 DEF VInv, ClickTypes, PasteAltered
  <2>. QED
    BY <2>2, <2>3
<1>5. Pasted'
  <2>1. CASE \E k \in 1..Len(inbox) : Paste(x, k)
    BY <1>1, <1>2, <2>1 DEF VInv, ClickTypes, Pasted, Paste
  <2>2. CASE \E m \in 0..MaxNumber : PasteAltered(x, m)
    BY <1>1, <1>2, <2>2 DEF VInv, ClickTypes, Pasted, PasteAltered
  <2>. QED
    BY <2>1, <2>2
<1>6. LastIsHighest'
  BY <1>1 DEF VInv, LastIsHighest
<1>7. \A y \in Click : Welcomed(y)' => y # x /\ Welcomed(y)
  BY <1>1, <1>2 DEF Welcomed, Authentic
<1>8. Behind' /\ CountedOnce'
  BY <1>1, <1>2, <1>7 DEF VInv, Behind, CountedOnce
<1>. QED
  BY <1>3, <1>4, <1>5, <1>6, <1>8 DEF VInv

(* The verdict is given on the number that is on the device at that moment, *)
(* however long ago the click was.                                          *)
LEMMA JudgeStep ==
    ASSUME VInv, NEW x \in Click, Judge(x)
    PROVE  VInv'
<1> DEFINE news == last = Null \/ n[x] > last
<1>1. /\ pc[x] = "hashing" /\ pc' = [pc EXCEPT ![x] = "done"]
      /\ verdict' = [verdict EXCEPT ![x] = Compare(n[x], last)]
      /\ last' = IF Authentic(x) /\ news THEN n[x] ELSE last
      /\ verified' = IF Authentic(x) THEN verified \cup {inbox[place[x]]} ELSE verified
      /\ UNCHANGED <<counter, restarts, issued, inbox, place, n, orderly>>
  BY DEF Judge, bot, pasted
<1>2. Authentic(x) => /\ place[x] \in 1..Len(inbox)
                      /\ inbox[place[x]] \in 1..Len(issued)
                      /\ n[x] = issued[inbox[place[x]]]
                      /\ n[x] \in 1..MaxNumber
  <2>1. Authentic(x) => place[x] \in 1..Len(inbox) /\ n[x] = issued[inbox[place[x]]]
    BY Elements DEF VInv, ClickTypes, Pasted, Authentic
  <2>. QED
    BY <2>1, Elements DEF VInv
<1>3. n[x] \in Nat /\ (last # Null => last \in Nat)
  BY VerifierAssumption DEF VInv, ClickTypes
<1>4. BotTypes'
  BY <1>1 DEF VInv, BotTypes
<1>5. Compare(n[x], last) \in Verdicts \ {"none"}
  BY <1>3 DEF Compare, Verdicts
<1>6. ClickTypes'
  BY <1>1, <1>2, <1>5 DEF VInv, ClickTypes
<1>7. Pasted'
  BY <1>1 DEF VInv, ClickTypes, Pasted
<1>8. LastIsHighest'
  <2>1. CASE ~Authentic(x)
    BY <1>1, <2>1 DEF VInv, LastIsHighest
  <2>2. CASE Authentic(x) /\ news
    <3>1. last' = n[x] /\ verified' = verified \cup {inbox[place[x]]} /\ issued' = issued
      BY <1>1, <2>2
    <3>2. \A i \in verified : issued[i] <= n[x]
      <4>1. CASE verified = {}
        BY <4>1
      <4>2. CASE verified # {}
        <5>1. \A i \in verified : issued[i] \in Nat /\ issued[i] <= last
          BY <4>2, Elements DEF VInv, ClickTypes, LastIsHighest
        <5>2. PICK i \in verified : last = issued[i]
          BY <4>2 DEF VInv, LastIsHighest
        <5>3. last # Null
          BY <5>1, <5>2, VerifierAssumption
        <5>. QED
          BY <1>3, <2>2, <5>1, <5>3
      <4>. QED
        BY <4>1, <4>2
    <3>. QED
      BY <1>2, <2>2, <3>1, <3>2 DEF LastIsHighest
  <2>3. CASE Authentic(x) /\ ~news
    BY <1>1, <1>2, <1>3, <2>3 DEF VInv, LastIsHighest
  <2>. QED
    BY <2>1, <2>2, <2>3
<1>9. /\ Compare(n[x], last) \in {"first", "follows", "gap"} => news
      /\ last # Null => last' # Null /\ last <= last'
      /\ Authentic(x) /\ news => last' = n[x] /\ last' # Null
  BY <1>1, <1>2, <1>3, VerifierAssumption DEF Compare
<1>10. \A y \in Click \ {x} : Welcomed(y)' => Welcomed(y)
  BY <1>1 DEF Welcomed, Authentic, VInv, ClickTypes
<1>11. Welcomed(x)' => Authentic(x) /\ news
  BY <1>1, <1>9 DEF Welcomed, Authentic, VInv, ClickTypes
<1>12. Behind'
  BY <1>1, <1>3, <1>9, <1>10, <1>11 DEF VInv, ClickTypes, Behind
<1>13. \A y \in Click : Welcomed(y) => n[y] \in Nat /\ (news => n[y] < n[x])
  BY <1>3 DEF VInv, ClickTypes, Behind
<1>14. CountedOnce'
  BY <1>1, <1>3, <1>10, <1>11, <1>13 DEF VInv, CountedOnce
<1>. QED
  BY <1>4, <1>6, <1>7, <1>8, <1>12, <1>14 DEF VInv

LEMMA VInvStep == VInv /\ [Next]_vars => VInv'
<1> SUFFICES ASSUME VInv, [Next]_vars PROVE VInv'
  OBVIOUS
<1>1. CASE Issue
  BY <1>1, IssueStep
<1>2. CASE Restart
  BY <1>2, RestartStep
<1>3. CASE \E i \in 1..Len(issued) : Arrive(i)
  BY <1>3, ArriveStep
<1>4. CASE \E x \in Click : \/ \E k \in 1..Len(inbox) : Paste(x, k)
                            \/ \E m \in 0..MaxNumber : PasteAltered(x, m)
  BY <1>4, PasteStep
<1>5. CASE \E x \in Click : Judge(x)
  BY <1>5, JudgeStep
<1>6. CASE UNCHANGED vars
  BY <1>6, Elsewhere DEF vars, bot, VInv, BotTypes
<1>. QED
  BY <1>1, <1>2, <1>3, <1>4, <1>5, <1>6 DEF Next

LEMMA VInvAlways == Spec => []VInv
BY VInvInit, VInvStep, PTL DEF Spec

(* The verifier's state is of the stated shape. *)
THEOREM VerifierTypes == Spec => []TypeOK
<1>1. VInv => TypeOK
  BY DEF VInv, BotTypes, ClickTypes, TypeOK
<1>. QED
  BY VInvAlways, <1>1, PTL

(* The number on the device is the highest ever verified, in whatever order *)
(* overlapping clicks finish (the page's localStorage, read after the       *)
(* await).                                                                  *)
THEOREM LastIsHighestHolds == Spec => []LastIsHighest
<1>1. VInv => LastIsHighest
  BY DEF VInv
<1>. QED
  BY VInvAlways, <1>1, PTL

(* No two clicks on authentic texts are told that one number is new.        *)
THEOREM CountedOnceHolds == Spec => []CountedOnce
<1>1. VInv => CountedOnce
  BY DEF VInv
<1>. QED
  BY VInvAlways, <1>1, PTL

-----------------------------------------------------------------------------
(***************************************************************************)
(* The recipient who pastes every text once, in the order of arrival, and  *)
(* waits for each verdict.  The texts pasted are then the first of the     *)
(* inbox, all but the newest have been judged, and while they have come    *)
(* one after the other the device holds the number of the newest judged.   *)
(***************************************************************************)
Done == {x \in Clicked : pc[x] = "done"}

(* What has been verified is what was pasted and judged. *)
Found == IsFiniteSet(Clicked) /\ verified = {inbox[place[x]] : x \in Done}

(* The clicks on texts are on the places 1..c, each on its own, and one     *)
(* that waits is alone and is the newest.                                   *)
InTurn == orderly =>
             /\ \A x, y \in Hashing : x = y
             /\ \A x, y \in Clicked : place[x] = place[y] => x = y
             /\ \A k \in 1..Cardinality(Clicked) : \E x \in Clicked : place[x] = k
             /\ \A x \in Clicked : place[x] <= Cardinality(Clicked)
             /\ \A x \in Clicked \cap Hashing : place[x] = Cardinality(Clicked)

(* The first p texts of the inbox have each come right after the one        *)
(* numbered before it.                                                      *)
Chain(p) == \A k \in 2..p : issued[inbox[k]] = issued[inbox[k - 1]] + 1

Newest(x) == x \in Done /\ \A y \in Done : place[y] <= place[x]

InStep == orderly =>
             \A x \in Click : Newest(x) /\ Chain(place[x]) => last = issued[inbox[place[x]]]

OInv == VInv /\ Found /\ InTurn /\ InStep /\ NoFalseAlarm /\ NothingSlipsBy

LEMMA OInvInit == Init => OInv
<1> SUFFICES ASSUME Init PROVE OInv
  OBVIOUS
<1>1. Clicked = {} /\ Hashing = {} /\ Done = {} /\ verified = {}
  BY DEF Init, Clicked, Hashing, Done
<1>2. Found
  BY <1>1, FS_EmptySet DEF Found
<1>3. InTurn /\ InStep
  BY <1>1, FS_EmptySet DEF InTurn, InStep, Newest
<1>4. NoFalseAlarm /\ NothingSlipsBy
  BY DEF Init, NoFalseAlarm, NothingSlipsBy, Authentic
<1>. QED
  BY <1>2, <1>3, <1>4, VInvInit DEF OInv

(* A step that leaves the clicks and the device alone, and what has been    *)
(* issued and has arrived where it is.                                      *)
LEMMA OElsewhere ==
    ASSUME OInv, UNCHANGED <<last, pc, pasted, verdict, verified, orderly>>,
           Len(inbox) <= Len(inbox'), \A k \in 1..Len(inbox) : inbox'[k] = inbox[k],
           \A i \in 1..Len(issued) : issued'[i] = issued[i]
    PROVE  Found' /\ InTurn' /\ InStep' /\ NoFalseAlarm' /\ NothingSlipsBy'
<1> USE DEF pasted
<1>0. /\ Len(inbox) \in Nat /\ \A x \in Click : place[x] \in 0..Len(inbox)
      /\ \A k \in 1..Len(inbox) : /\ inbox'[k] = inbox[k]
                                  /\ issued'[inbox[k]] = issued[inbox[k]]
  BY Elements DEF OInv, VInv, ClickTypes
<1>1. Clicked' = Clicked /\ Hashing' = Hashing /\ Done' = Done
  BY DEF Clicked, Hashing, Done
<1>2. \A x \in Done : x \in Click /\ place[x] \in 1..Len(inbox)
  BY <1>0 DEF Done, Clicked
<1>3. Found'
  BY <1>0, <1>1, <1>2 DEF OInv, Found
<1>4. InTurn'
  BY <1>1 DEF OInv, InTurn
<1>5. ASSUME NEW x \in Click, NEW k \in 1..place[x]
      PROVE  k \in 1..Len(inbox) /\ inbox'[k] = inbox[k] /\ issued'[inbox'[k]] = issued[inbox[k]]
  BY <1>0
<1>6. ASSUME NEW x \in Click PROVE Chain(place[x])' <=> Chain(place[x])
  <2>1. ASSUME NEW k \in 2..place[x] PROVE k \in 1..place[x] /\ k - 1 \in 1..place[x]
    BY <1>0
  <2>. QED
    BY <1>5, <2>1 DEF Chain
<1>7. InStep'
  <2>1. ASSUME NEW x \in Done PROVE issued'[inbox'[place[x]]] = issued[inbox[place[x]]]
    BY <1>0, <1>2, <2>1
  <2>. QED
    BY <1>1, <1>6, <2>1 DEF OInv, InStep, Newest, Done
<1>8. NoFalseAlarm'
  BY <1>6 DEF OInv, NoFalseAlarm, Chain, Authentic
<1>9. NothingSlipsBy'
  <2>1. ASSUME NEW x \in Click, place[x] > 0
        PROVE  place[x] \in 1..place[x] /\ \A k \in 1..(place[x] - 1) : k \in 1..place[x]
    <3>1. place[x] \in Nat
      BY <1>0
    <3>. QED
      BY <2>1, <3>1
  <2>2. ASSUME NEW x \in Click, place[x] > 0
        PROVE  /\ inbox'[place[x]] = inbox[place[x]]
               /\ \A k \in 1..(place[x] - 1) : /\ inbox'[k] = inbox[k]
                                               /\ issued'[inbox'[k]] = issued[inbox[k]]
    BY <1>5, <2>1, <2>2
  <2> SUFFICES ASSUME orderly, NEW x \in Click, Authentic(x), verdict[x] = "follows"
               PROVE  /\ \E k \in 1..(place[x] - 1) : issued'[inbox'[k]] = n[x] - 1
                      /\ \A k \in 1..(place[x] - 1) :
                            inbox'[k] # inbox'[place[x]] /\ issued'[inbox'[k]] < n[x]
    BY DEF NothingSlipsBy, Authentic
  <2>3. /\ \E k \in 1..(place[x] - 1) : issued[inbox[k]] = n[x] - 1
        /\ \A k \in 1..(place[x] - 1) : inbox[k] # inbox[place[x]] /\ issued[inbox[k]] < n[x]
    BY DEF OInv, NothingSlipsBy
  <2>4. place[x] > 0
    BY DEF Authentic
  <2>. QED
    BY <2>2, <2>3, <2>4
<1>. QED
  BY <1>3, <1>4, <1>7, <1>8, <1>9

(* A new click: the next text if the recipient keeps to the order. *)
LEMMA OPaste ==
    ASSUME OInv, NEW x \in Click, NEW k \in 1..Len(inbox), Paste(x, k)
    PROVE  Found' /\ InTurn' /\ InStep' /\ NoFalseAlarm' /\ NothingSlipsBy'
<1> DEFINE c == Cardinality(Clicked)
<1>0. /\ pc[x] = "idle" /\ pc' = [pc EXCEPT ![x] = "hashing"]
      /\ place' = [place EXCEPT ![x] = k] /\ place'[x] = k /\ pc'[x] = "hashing"
      /\ \A y \in Click \ {x} : place'[y] = place[y] /\ n'[y] = n[y] /\ pc'[y] = pc[y]
      /\ orderly' = (orderly /\ Hashing = {} /\ k = c + 1)
      /\ UNCHANGED <<issued, inbox, last, verdict, verified>>
      /\ place[x] = 0 /\ verdict[x] = "none" /\ k \in Nat /\ k > 0
      /\ \A y \in Click : place[y] \in Nat
  BY Elements DEF Paste, OInv, VInv, ClickTypes, Pasted, bot
<1>1. x \notin Clicked /\ Clicked' = Clicked \cup {x} /\ x \notin Done /\ Done' = Done
  BY <1>0 DEF Clicked, Done
<1>2. IsFiniteSet(Clicked) /\ IsFiniteSet(Clicked') /\ c \in Nat /\ Cardinality(Clicked') = c + 1
  BY <1>1, FS_AddElement, FS_CardinalityType DEF OInv, Found
<1>3. Found'
  BY <1>0, <1>1, <1>2 DEF OInv, Found, Done, Clicked
<1>4. ASSUME orderly' PROVE orderly /\ Hashing = {} /\ Hashing' = {x} /\ k = c + 1
  BY <1>0, <1>4 DEF Hashing
<1>5. \A y \in Clicked : y \in Click /\ y # x /\ place'[y] = place[y] /\ place[y] \in Nat
  BY <1>0, <1>1 DEF Clicked
<1> HIDE DEF c
<1>6. InTurn'
  <2> SUFFICES ASSUME orderly' PROVE
             /\ \A y, z \in Hashing' : y = z
             /\ \A y, z \in Clicked' : place'[y] = place'[z] => y = z
             /\ \A j \in 1..(c + 1) : \E y \in Clicked' : place'[y] = j
             /\ \A y \in Clicked' : place'[y] <= c + 1
             /\ \A y \in Clicked' \cap Hashing' : place'[y] = c + 1
    BY <1>2 DEF InTurn
  <2>1. /\ \A y, z \in Clicked : place[y] = place[z] => y = z
        /\ \A j \in 1..c : \E y \in Clicked : place[y] = j
        /\ \A y \in Clicked : place[y] <= c
    BY <1>4 DEF OInv, InTurn, c
  <2>2. \A y \in Clicked' : y = x \/ y \in Clicked
    BY <1>1
  <2>3. \A y, z \in Clicked' : place'[y] = place'[z] => y = z
    BY <1>0, <1>2, <1>4, <1>5, <2>1, <2>2
  <2>4. ASSUME NEW j \in 1..(c + 1) PROVE \E y \in Clicked' : place'[y] = j
    <3>1. j \in 1..c \/ j = c + 1
      BY <1>2
    <3>. QED
      BY <1>0, <1>1, <1>4, <1>5, <2>1, <3>1
  <2>5. \A y \in Clicked' : place'[y] <= c + 1
    BY <1>0, <1>2, <1>4, <1>5, <2>1, <2>2
  <2>. QED
    BY <1>0, <1>4, <2>3, <2>4, <2>5
<1>7. InStep'
  <2>1. \A y \in Done : place'[y] = place[y]
    BY <1>5 DEF Done
  <2>2. \A p : Chain(p)' = Chain(p)
    BY <1>0 DEF Chain
  <2>3. \A y : Newest(y)' = Newest(y)
    BY <1>1, <2>1 DEF Newest
  <2>. QED
    BY <1>0, <1>4, <2>1, <2>2, <2>3 DEF OInv, InStep, Newest
<1>8. NoFalseAlarm'
  BY <1>0, <1>4 DEF OInv, NoFalseAlarm, Authentic
<1>9. NothingSlipsBy'
  BY <1>0, <1>4 DEF OInv, NothingSlipsBy, Authentic
<1>. QED
  BY <1>3, <1>6, <1>7, <1>8, <1>9

LEMMA OPasteAltered ==
    ASSUME OInv, NEW x \in Click, NEW m \in 0..MaxNumber, PasteAltered(x, m)
    PROVE  Found' /\ InTurn' /\ InStep' /\ NoFalseAlarm' /\ NothingSlipsBy'
<1>0. /\ pc[x] = "idle" /\ pc' = [pc EXCEPT ![x] = "hashing"] /\ pc'[x] = "hashing"
      /\ \A y \in Click \ {x} : n'[y] = n[y] /\ pc'[y] = pc[y]
      /\ orderly' = (orderly /\ Hashing = {})
      /\ UNCHANGED <<issued, inbox, last, place, verdict, verified>>
      /\ place[x] = 0
  BY DEF PasteAltered, OInv, VInv, ClickTypes, Pasted, bot
<1>1. Clicked' = Clicked /\ x \notin Clicked /\ Done' = Done
  BY <1>0 DEF Clicked, Done
<1>2. Found'
  BY <1>0, <1>1 DEF OInv, Found
<1>3. orderly' => orderly /\ Hashing' = {x}
  BY <1>0 DEF Hashing
<1>4. InTurn'
  BY <1>0, <1>1, <1>3 DEF OInv, InTurn
<1>5. InStep'
  BY <1>0, <1>1, <1>3 DEF OInv, InStep, Newest, Chain
<1>6. NoFalseAlarm'
  BY <1>0, <1>3 DEF OInv, NoFalseAlarm, Authentic
<1>7. NothingSlipsBy'
  BY <1>0, <1>3 DEF OInv, NothingSlipsBy, Authentic
<1>. QED
  BY <1>2, <1>4, <1>5, <1>6, <1>7

(* When the newest text in turn is judged, the texts before it are what has *)
(* been verified.                                                           *)
LEMMA BeforeIsVerified ==
    ASSUME OInv, orderly, NEW x \in Click, pc[x] = "hashing", place[x] > 0
    PROVE  /\ place[x] = Cardinality(Clicked) /\ place[x] \in Nat
           /\ \A k \in 1..(place[x] - 1) : \E y \in Done : place[y] = k
           /\ \A y \in Done : place[y] \in 1..(place[x] - 1)
           /\ verified = {inbox[k] : k \in 1..(place[x] - 1)}
<1>1. x \in Clicked \cap Hashing /\ \A y \in Click : place[y] \in Nat
  BY Elements DEF OInv, VInv, ClickTypes, Clicked, Hashing
<1>2. place[x] = Cardinality(Clicked) /\ place[x] \in Nat
  BY <1>1 DEF OInv, InTurn
<1>3. \A y \in Clicked : y # x => y \in Done
  BY <1>1 DEF OInv, InTurn, VInv, ClickTypes, Pasted, Clicked, Hashing, Done
<1>4. \A k \in 1..(place[x] - 1) : \E y \in Done : place[y] = k
  <2>1. ASSUME NEW k \in 1..(place[x] - 1) PROVE \E y \in Done : place[y] = k
    <3>1. k \in 1..Cardinality(Clicked) /\ k # place[x]
      BY <1>2
    <3>2. PICK y \in Clicked : place[y] = k
      BY <3>1 DEF OInv, InTurn
    <3>. QED
      BY <1>3, <3>1, <3>2
  <2>. QED
    BY <2>1
<1>5. \A y \in Done : place[y] \in 1..(place[x] - 1)
  <2>1. ASSUME NEW y \in Done PROVE place[y] \in 1..(place[x] - 1)
    <3>1. y \in Clicked /\ y # x /\ y \in Click
      BY DEF Done, Clicked
    <3>2. place[y] # place[x] /\ place[y] <= place[x]
      BY <1>1, <1>2, <3>1 DEF OInv, InTurn
    <3>3. place[y] > 0 /\ place[y] \in Nat
      BY <1>1, <3>1 DEF Clicked
    <3>. QED
      BY <1>2, <3>2, <3>3
  <2>. QED
    BY <2>1
<1>6. verified = {inbox[k] : k \in 1..(place[x] - 1)}
  BY <1>4, <1>5 DEF OInv, Found
<1>. QED
  BY <1>2, <1>4, <1>5, <1>6

LEMMA OJudge ==
    ASSUME OInv, NEW x \in Click, Judge(x)
    PROVE  Found' /\ InTurn' /\ InStep' /\ NoFalseAlarm' /\ NothingSlipsBy'
<1> DEFINE p == place[x]
<1>0. /\ pc[x] = "hashing" /\ pc'[x] = "done"
      /\ \A y \in Click \ {x} : pc'[y] = pc[y] /\ verdict'[y] = verdict[y]
      /\ verdict'[x] = Compare(n[x], last)
      /\ last' = IF Authentic(x) /\ (last = Null \/ n[x] > last) THEN n[x] ELSE last
      /\ verified' = IF Authentic(x) THEN verified \cup {inbox[p]} ELSE verified
      /\ UNCHANGED <<issued, inbox, place, n, orderly>>
      /\ p \in Nat
  BY Elements DEF Judge, bot, pasted, OInv, VInv, ClickTypes
<1>1. Clicked' = Clicked /\ Hashing' = Hashing \ {x} /\ x \notin Done
  BY <1>0 DEF Clicked, Hashing, Done
<1>2. Done' = IF Authentic(x) THEN Done \cup {x} ELSE Done
  BY <1>0, <1>1 DEF Clicked, Done, Authentic
<1>3. Found'
  BY <1>0, <1>1, <1>2 DEF OInv, Found
<1>4. InTurn'
  BY <1>0, <1>1 DEF OInv, InTurn
<1>5. \A k : Chain(k)' = Chain(k)
  BY <1>0 DEF Chain
<1>6. \A y \in Click \ {x} : y \in Done' <=> y \in Done
  BY <1>2
<1>7. ASSUME orderly, ~Authentic(x) PROVE InStep' /\ NoFalseAlarm' /\ NothingSlipsBy'
  <2>1. InStep'
    BY <1>0, <1>2, <1>5, <1>7 DEF OInv, InStep, Newest
  <2>2. NoFalseAlarm'
    BY <1>0, <1>5, <1>7 DEF OInv, NoFalseAlarm, Authentic, Chain
  <2>3. NothingSlipsBy'
    BY <1>0, <1>7 DEF OInv, NothingSlipsBy, Authentic
  <2>. QED
    BY <2>1, <2>2, <2>3
<1>8. ASSUME orderly, Authentic(x) PROVE InStep' /\ NoFalseAlarm' /\ NothingSlipsBy'
  <2>1. /\ \A k \in 1..(p - 1) : \E y \in Done : place[y] = k
        /\ \A y \in Done : place[y] \in 1..(p - 1)
        /\ verified = {inbox[k] : k \in 1..(p - 1)}
        /\ p > 0
    BY <1>0, <1>8, BeforeIsVerified DEF Authentic
  <2>2. /\ n[x] = issued[inbox[p]] /\ n[x] \in Nat
        /\ \A k \in 1..p : issued[inbox[k]] \in Nat
        /\ last = Null \/ last \in Nat
    <3>1. p \in 1..Len(inbox) /\ Len(inbox) \in Nat /\ n[x] = issued[inbox[p]]
      BY <1>0, <2>1, Elements DEF OInv, VInv, ClickTypes, Pasted
    <3>2. \A k \in 1..p : issued[inbox[k]] \in 1..MaxNumber
      BY <1>0, <3>1, Elements DEF OInv, VInv
    <3>3. last = Null \/ last \in Nat
      BY DEF OInv, VInv, ClickTypes
    <3>. QED
      BY <1>0, <2>1, <3>1, <3>2, <3>3
  <2>3. last = Null <=> p = 1
    <3>1. verified = {} <=> p = 1
      <4>1. p = 1 => 1..(p - 1) = {}
        BY <1>0
      <4>2. p # 1 => 1 \in 1..(p - 1)
        BY <1>0, <2>1
      <4>. QED
        BY <2>1, <4>1, <4>2
    <3>2. verified # {} => last # Null
      <4>1. ASSUME verified # {} PROVE last # Null
        <5>1. PICK k \in 1..(p - 1) : last = issued[inbox[k]]
          BY <2>1, <4>1 DEF OInv, VInv, LastIsHighest
        <5>2. last \in Nat
          BY <1>0, <2>2, <5>1
        <5>. QED
          BY <5>2, VerifierAssumption
      <4>. QED
        BY <4>1
    <3>. QED
      BY <3>1, <3>2 DEF OInv, VInv, LastIsHighest
  <2>4. \A k \in 1..(p - 1) : issued[inbox[k]] <= last
    BY <2>1 DEF OInv, VInv, LastIsHighest
  <2>5. p # 1 => \E k \in 1..(p - 1) : last = issued[inbox[k]]
    BY <2>1, <2>3 DEF OInv, VInv, LastIsHighest
  (* In an unbroken chain the device holds the number before this one.      *)
  <2>6. ASSUME Chain(p), p # 1 PROVE last \in Nat /\ n[x] = last + 1
    <3>1. p - 1 \in 1..(p - 1) /\ p \in 2..p /\ p - 1 \in Nat
      BY <1>0, <2>1, <2>6
    <3>2. PICK y \in Done : place[y] = p - 1
      BY <2>1, <3>1
    <3>3. Newest(y)
      <4>1. \A z \in Done : place[z] <= p - 1
        BY <1>0, <2>1
      <4>. QED
        BY <3>2, <4>1 DEF Newest
    <3>4. Chain(place[y])
      <4>1. \A k \in 2..(p - 1) : k \in 2..p
        BY <1>0
      <4>. QED
        BY <2>6, <3>2, <4>1 DEF Chain
    <3>5. y \in Click
      BY DEF Done, Clicked
    <3>6. last = issued[inbox[p - 1]]
      BY <1>8, <3>2, <3>3, <3>4, <3>5 DEF OInv, InStep
    <3>7. issued[inbox[p]] = issued[inbox[p - 1]] + 1
      BY <2>6, <3>1 DEF Chain
    <3>. QED
      BY <2>2, <2>3, <2>6, <3>6, <3>7
  <2>7. Chain(p) => verdict'[x] \in {"first", "follows"} /\ last' = n[x]
    <3>1. CASE p = 1
      BY <1>0, <1>8, <2>3, <3>1 DEF Compare
    <3>2. CASE Chain(p) /\ p # 1
      <4>1. last # Null /\ n[x] = last + 1 /\ n[x] > last /\ last \in Nat
        BY <2>2, <2>3, <2>6, <3>2
      <4>2. Compare(n[x], last) = "follows"
        BY <4>1 DEF Compare
      <4>. QED
        BY <1>0, <1>8, <4>1, <4>2
    <3>. QED
      BY <3>1, <3>2
  <2>8. verdict'[x] = "follows" => last \in Nat /\ n[x] = last + 1 /\ p # 1
    BY <1>0, <2>2, <2>3 DEF Compare
  <2>9. InStep'
    <3> SUFFICES ASSUME NEW y \in Click, Newest(y)', Chain(place[y])
                 PROVE  last' = issued[inbox[place[y]]]
      BY <1>0, <1>5 DEF InStep
    <3>1. x \in Done'
      BY <1>2, <1>8
    <3>2. y = x
      <4>1. y \in Done' /\ p <= place[y]
        BY <1>0, <3>1 DEF Newest
      <4>. QED
        BY <1>0, <1>2, <2>1, <4>1
    <3>. QED
      BY <2>2, <2>7, <3>2
  <2>10. NoFalseAlarm'
    <3> SUFFICES ASSUME NEW y \in Click, Authentic(y)', pc'[y] = "done", Chain(place[y])
                 PROVE  verdict'[y] \in {"first", "follows"}
      BY <1>0, <1>5 DEF NoFalseAlarm, Chain
    <3>1. CASE y = x
      BY <2>7, <3>1
    <3>2. CASE y # x
      BY <1>0, <1>8, <3>2 DEF OInv, NoFalseAlarm, Authentic, Chain
    <3>. QED
      BY <3>1, <3>2
  <2>11. NothingSlipsBy'
    <3> SUFFICES ASSUME NEW y \in Click, Authentic(y)', verdict'[y] = "follows"
                 PROVE  /\ \E k \in 1..(place[y] - 1) : issued[inbox[k]] = n[y] - 1
                        /\ \A k \in 1..(place[y] - 1) :
                              inbox[k] # inbox[place[y]] /\ issued[inbox[k]] < n[y]
      BY <1>0 DEF NothingSlipsBy
    <3>1. CASE y = x
      <4>1. PICK k \in 1..(p - 1) : last = issued[inbox[k]]
        BY <2>5, <2>8, <3>1
      <4>2. issued[inbox[k]] = n[x] - 1
        BY <2>8, <3>1, <4>1
      <4>3. ASSUME NEW j \in 1..(p - 1) PROVE inbox[j] # inbox[p] /\ issued[inbox[j]] < n[x]
        <5>1. j \in 1..p
          BY <1>0
        <5>2. issued[inbox[j]] < n[x]
          BY <2>2, <2>4, <2>8, <3>1, <5>1
        <5>. QED
          BY <2>2, <5>1, <5>2
      <4>. QED
        BY <3>1, <4>2, <4>3
    <3>2. CASE y # x
      BY <1>0, <1>8, <3>2 DEF OInv, NothingSlipsBy, Authentic
    <3>. QED
      BY <3>1, <3>2
  <2>. QED
    BY <2>9, <2>10, <2>11
<1>9. CASE ~orderly
  BY <1>0, <1>3, <1>4, <1>9 DEF InStep, NoFalseAlarm, NothingSlipsBy
<1>. QED
  BY <1>3, <1>4, <1>7, <1>8, <1>9

LEMMA OInvStep == OInv /\ [Next]_vars => OInv'
<1> SUFFICES ASSUME OInv, [Next]_vars PROVE OInv'
  OBVIOUS
<1>0. VInv /\ VInv'
  BY VInvStep DEF OInv
<1>1. CASE Issue
  <2>1. /\ \A i \in 1..Len(issued) : issued'[i] = issued[i]
        /\ UNCHANGED <<inbox, last, pc, pasted, verdict, verified, orderly>>
    <3>1. issued \in Seq(1..MaxNumber) /\ counter' \in 1..MaxNumber
      BY <1>0, <1>1, VerifierAssumption DEF VInv, BotTypes, Issue
    <3>. QED
      BY <1>1, <3>1, AppendProperties DEF Issue
  <2>. QED
    BY <1>0, <2>1, OElsewhere DEF OInv, VInv, BotTypes
<1>2. CASE Restart
  BY <1>0, <1>2, OElsewhere DEF Restart, OInv, VInv, BotTypes
<1>3. ASSUME NEW i \in 1..Len(issued), Arrive(i) PROVE OInv'
  <2>1. /\ Len(inbox) \in Nat /\ Len(inbox') = Len(inbox) + 1
        /\ \A k \in 1..Len(inbox) : inbox'[k] = inbox[k]
        /\ UNCHANGED <<issued, last, pc, pasted, verdict, verified, orderly>>
    BY <1>0, <1>3, AppendProperties DEF VInv, BotTypes, Arrive, bot
  <2>. QED
    BY <1>0, <2>1, OElsewhere DEF OInv
<1>4. ASSUME NEW x \in Click, NEW k \in 1..Len(inbox), Paste(x, k) PROVE OInv'
  BY <1>0, <1>4, OPaste DEF OInv
<1>5. ASSUME NEW x \in Click, NEW m \in 0..MaxNumber, PasteAltered(x, m) PROVE OInv'
  BY <1>0, <1>5, OPasteAltered DEF OInv
<1>6. ASSUME NEW x \in Click, Judge(x) PROVE OInv'
  BY <1>0, <1>6, OJudge DEF OInv
<1>7. CASE UNCHANGED vars
  BY <1>0, <1>7, OElsewhere DEF vars, bot, OInv, VInv, BotTypes
<1>. QED
  BY <1>1, <1>2, <1>3, <1>4, <1>5, <1>6, <1>7 DEF Next

LEMMA OInvAlways == Spec => []OInv
BY OInvInit, OInvStep, PTL DEF Spec

(* While every text in the inbox has come right after the one numbered      *)
(* before it, the page says "first" or "follows" of it, whatever altered    *)
(* texts were tried in between.                                             *)
THEOREM NoFalseAlarmHolds == Spec => []NoFalseAlarm
<1>1. OInv => NoFalseAlarm
  BY DEF OInv
<1>. QED
  BY OInvAlways, <1>1, PTL

(* A text that came twice, came late, or came after a number that is not in *)
(* the inbox before it is never said to follow, however often the bot has   *)
(* lost its counter.                                                        *)
THEOREM NothingSlipsByHolds == Spec => []NothingSlipsBy
<1>1. OInv => NothingSlipsBy
  BY DEF OInv
<1>. QED
  BY OInvAlways, <1>1, PTL
-----------------------------------------------------------------------------
(***************************************************************************)
(* Why a verdict is bad.  A number that is said to repeat was on another   *)
(* text, judged before; and for the orderly recipient a gap leaves out a   *)
(* number that is past the first text's and on none of the texts before.   *)
(***************************************************************************)
RepeatsAreKnown ==
    \A x \in Done : verdict[x] = "replay" => \E y \in Done \ {x} : n[y] = n[x]

GapsLeaveOut ==
    orderly =>
       \A x \in Done : verdict[x] = "gap" =>
          /\ \E k \in 1..(place[x] - 1) : issued[inbox[k]] < n[x] - 1
          /\ \A k \in 1..(place[x] - 1) : issued[inbox[k]] < n[x] - 1

CInv == OInv /\ RepeatsAreKnown /\ GapsLeaveOut

LEMMA CausesElsewhere ==
    ASSUME OInv, RepeatsAreKnown, GapsLeaveOut,
           UNCHANGED <<last, pc, pasted, verdict, verified, orderly>>,
           \A k \in 1..Len(inbox) : inbox'[k] = inbox[k],
           \A i \in 1..Len(issued) : issued'[i] = issued[i]
    PROVE  RepeatsAreKnown' /\ GapsLeaveOut'
<1> USE DEF pasted
<1>1. Done' = Done
  BY DEF Done, Clicked
<1>2. ASSUME NEW x \in Done, NEW k \in 1..(place[x] - 1)
      PROVE  issued'[inbox'[k]] = issued[inbox[k]]
  <2>1. place[x] \in 0..Len(inbox) /\ Len(inbox) \in Nat
    BY Elements DEF OInv, VInv, ClickTypes, Done, Clicked
  <2>2. k \in 1..Len(inbox)
    BY <2>1
  <2>. QED
    BY <2>2, Elements DEF OInv, VInv
<1>. QED
  BY <1>1, <1>2 DEF RepeatsAreKnown, GapsLeaveOut

LEMMA CausesPaste ==
    ASSUME OInv, RepeatsAreKnown, GapsLeaveOut, NEW x \in Click,
           \/ \E k \in 1..Len(inbox) : Paste(x, k)
           \/ \E m \in 0..MaxNumber : PasteAltered(x, m)
    PROVE  RepeatsAreKnown' /\ GapsLeaveOut'
<1>1. /\ pc[x] = "idle" /\ pc' = [pc EXCEPT ![x] = "hashing"] /\ place[x] = 0
      /\ \A y \in Click \ {x} : place'[y] = place[y] /\ n'[y] = n[y] /\ pc'[y] = pc[y]
      /\ pc'[x] = "hashing"
      /\ orderly' => orderly
      /\ UNCHANGED <<issued, inbox, last, verdict, verified>>
  BY DEF Paste, PasteAltered, OInv, VInv, ClickTypes, Pasted, bot
<1>2. Done' = Done /\ x \notin Done /\ \A y \in Done : y \in Click
  BY <1>1 DEF Done, Clicked
<1>. QED
  BY <1>1, <1>2 DEF RepeatsAreKnown, GapsLeaveOut

(* The device holds the number of a text judged before, and for the orderly *)
(* recipient that is the highest of all the texts before this one.          *)
LEMMA CausesJudge ==
    ASSUME OInv, RepeatsAreKnown, GapsLeaveOut, NEW x \in Click, Judge(x)
    PROVE  RepeatsAreKnown' /\ GapsLeaveOut'
<1>1. /\ pc[x] = "hashing" /\ pc' = [pc EXCEPT ![x] = "done"]
      /\ verdict' = [verdict EXCEPT ![x] = Compare(n[x], last)]
      /\ UNCHANGED <<issued, inbox, place, n, orderly>>
      /\ n[x] \in Nat
      /\ last = Null \/ last \in Nat
  BY DEF Judge, bot, pasted, OInv, VInv, ClickTypes
<1>2. /\ x \notin Done /\ Done \subseteq Done' /\ \A y \in Done' : y = x \/ y \in Done
      /\ \A y \in Done : verdict'[y] = verdict[y]
      /\ x \in Done' => place[x] > 0 /\ verdict'[x] = Compare(n[x], last)
  BY <1>1 DEF Done, Clicked, OInv, VInv, ClickTypes
<1>3. ASSUME last # Null PROVE \E y \in Done : n[y] = last
  <2>1. PICK i \in verified : last = issued[i]
    BY <1>3 DEF OInv, VInv, LastIsHighest
  <2>2. PICK y \in Done : i = inbox[place[y]]
    BY <2>1 DEF OInv, Found
  <2>3. n[y] = issued[inbox[place[y]]]
    BY DEF OInv, VInv, Pasted, Done, Clicked
  <2>. QED
    BY <2>1, <2>2, <2>3
<1>4. RepeatsAreKnown'
  <2>1. ASSUME x \in Done', verdict'[x] = "replay" PROVE \E y \in Done : n[y] = n[x]
    BY <1>1, <1>2, <1>3, <2>1 DEF Compare
  <2>. QED
    BY <1>1, <1>2, <2>1 DEF RepeatsAreKnown
<1>5. GapsLeaveOut'
  <2>1. ASSUME orderly, x \in Done', verdict'[x] = "gap"
        PROVE  /\ \E k \in 1..(place[x] - 1) : issued[inbox[k]] < n[x] - 1
               /\ \A k \in 1..(place[x] - 1) : issued[inbox[k]] < n[x] - 1
    <3>1. last # Null /\ last \in Nat /\ n[x] > last + 1
      BY <1>1, <1>2, <2>1 DEF Compare
    <3>2. verified = {inbox[k] : k \in 1..(place[x] - 1)}
      BY <1>1, <1>2, <2>1, BeforeIsVerified
    <3>3. /\ \E k \in 1..(place[x] - 1) : last = issued[inbox[k]]
          /\ \A k \in 1..(place[x] - 1) : issued[inbox[k]] <= last
      BY <3>1, <3>2 DEF OInv, VInv, LastIsHighest
    <3>4. \A k \in 1..(place[x] - 1) : issued[inbox[k]] \in Nat
      <4>1. place[x] \in 0..Len(inbox) /\ Len(inbox) \in Nat
        BY Elements DEF OInv, VInv, ClickTypes
      <4>2. \A k \in 1..(place[x] - 1) : k \in 1..Len(inbox)
        BY <4>1
      <4>3. \A m \in 1..MaxNumber : m \in Nat
        OBVIOUS
      <4>. QED
        BY <4>2, <4>3, Elements DEF OInv, VInv
    <3>. QED
      BY <1>1, <3>1, <3>3, <3>4
  <2>. QED
    BY <1>1, <1>2, <2>1 DEF GapsLeaveOut
<1>. QED
  BY <1>4, <1>5

LEMMA CInvStep == CInv /\ [Next]_vars => CInv'
<1> SUFFICES ASSUME CInv, [Next]_vars PROVE CInv'
  OBVIOUS
<1>0. OInv /\ OInv' /\ RepeatsAreKnown /\ GapsLeaveOut
  BY OInvStep DEF CInv
<1>1. CASE Issue
  <2>1. issued \in Seq(1..MaxNumber) /\ counter' \in 1..MaxNumber
    BY <1>0, <1>1, VerifierAssumption DEF OInv, VInv, BotTypes, Issue
  <2>2. \A i \in 1..Len(issued) : issued'[i] = issued[i]
    BY <1>1, <2>1, AppendProperties DEF Issue
  <2>. QED
    BY <1>0, <1>1, <2>2, CausesElsewhere DEF Issue, CInv
<1>2. CASE Restart
  BY <1>0, <1>2, CausesElsewhere DEF Restart, CInv
<1>3. ASSUME NEW i \in 1..Len(issued), Arrive(i) PROVE CInv'
  <2>1. \A k \in 1..Len(inbox) : inbox'[k] = inbox[k]
    BY <1>0, <1>3, AppendProperties DEF OInv, VInv, BotTypes, Arrive
  <2>. QED
    BY <1>0, <1>3, <2>1, CausesElsewhere DEF Arrive, bot, CInv
<1>4. ASSUME NEW x \in Click, \/ \E k \in 1..Len(inbox) : Paste(x, k)
                              \/ \E m \in 0..MaxNumber : PasteAltered(x, m)
      PROVE  CInv'
  BY <1>0, <1>4, CausesPaste DEF CInv
<1>5. ASSUME NEW x \in Click, Judge(x) PROVE CInv'
  BY <1>0, <1>5, CausesJudge DEF CInv
<1>6. CASE UNCHANGED vars
  BY <1>0, <1>6, CausesElsewhere DEF vars, bot, CInv
<1>. QED
  BY <1>1, <1>2, <1>3, <1>4, <1>5, <1>6 DEF Next

LEMMA CInvAlways == Spec => []CInv
<1>1. Init => CInv
  <2> SUFFICES ASSUME Init PROVE CInv
    OBVIOUS
  <2>1. Done = {}
    BY DEF Init, Done, Clicked
  <2>. QED
    BY <2>1, OInvInit DEF CInv, RepeatsAreKnown, GapsLeaveOut
<1>. QED
  BY <1>1, CInvStep, PTL DEF Spec

(* "Replay" is said only of a number that another text, judged before, has  *)
(* carried; and a gap, told to the orderly recipient, leaves a number out   *)
(* that no text before it carries (the page's badges).                      *)
THEOREM BadVerdictsHaveCauses == Spec => [](RepeatsAreKnown /\ GapsLeaveOut)
<1>1. CInv => RepeatsAreKnown /\ GapsLeaveOut
  BY DEF CInv
<1>. QED
  BY CInvAlways, <1>1, PTL
===================================================================================
