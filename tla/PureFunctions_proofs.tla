-------------------------- MODULE PureFunctions_proofs --------------------------
(***************************************************************************)
(* The functions that keep no state of their own, for every input.          *)
(*                                                                         *)
(* SecureCompare.equals, for strings of every length over every alphabet:  *)
(* the invariant says what the loop knows after i characters: `diff` is 0  *)
(* just when the lengths agree and none of those characters differs.       *)
(*                                                                         *)
(* CommandParser.parse, for every text: where in it the argument of UNLOCK *)
(* comes from.                                                             *)
(*                                                                         *)
(* Watchlist.tickers, for every stored array: what is left of it rank by   *)
(* rank is what the loop collects slot by slot.                            *)
(*                                                                         *)
(* Formatter._formatMoney, for every price below a billion: the text in    *)
(* closed form, character by character, and what a reader makes of it.     *)
(***************************************************************************)
EXTENDS PureFunctions, SequenceTheorems, FiniteSetTheorems, WellFoundedInduction, TLAPS

Known == diff = 0 <=> Len(a) = Len(b) /\ \A k \in 1..i : a[k] = b[k]

LoopInv ==
    /\ a \in String \cup {NotString} /\ b \in String \cup {NotString}
    /\ pc \in {"start", "walk", "done"}
    /\ i \in Nat
    /\ diff \in {0, 1}
    /\ pc = "start" => i = 0
    /\ pc = "walk" => /\ NotString \notin {a, b}
                      /\ i <= Len(a)
                      /\ Known
    /\ EqualsIsEquality

(* Two strings are equal when they have one length and no differing place. *)
LEMMA SameString ==
    ASSUME NEW s \in String, NEW t \in String,
           Len(s) = Len(t), \A k \in 1..Len(s) : s[k] = t[k]
    PROVE  s = t
BY StringAssumption, SeqEqual

LEMMA LoopInit == Init => LoopInv
BY StringAssumption DEF Init, LoopInv, EqualsIsEquality

LEMMA LoopStep == LoopInv /\ [Next]_vars => LoopInv'
<1> SUFFICES ASSUME LoopInv, [Next]_vars PROVE LoopInv'
  OBVIOUS
<1>1. CASE Start
  <2>1. CASE NotString \in {a, b} /\ Return(FALSE) /\ UNCHANGED diff
    BY <1>1, <2>1 DEF LoopInv, Start, Return, EqualsIsEquality
  <2>2. CASE NotString \notin {a, b} /\ diff' = LengthDiff /\ pc' = "walk"
             /\ UNCHANGED <<a, b, i, result>>
    <3>1. a \in Seq(Char) /\ i = 0
      BY <1>1, <2>2, StringAssumption DEF LoopInv, Start
    <3>2. i <= Len(a) /\ Known'
      BY <3>1, <2>2 DEF Known, LengthDiff
    <3>. QED
      BY <2>2, <3>1, <3>2 DEF LoopInv, EqualsIsEquality, LengthDiff
  <2>. QED
    BY <1>1, <2>1, <2>2 DEF Start
<1>2. CASE Walk
  <2>1. a \in Seq(Char) /\ b \in Seq(Char) /\ Len(a) \in Nat /\ i \in Nat
    BY <1>2, StringAssumption DEF LoopInv, Walk
  <2>2. i' <= Len(a) /\ i' \in Nat
    BY <1>2, <2>1 DEF Walk
  <2>3. Known'
    <3>1. CASE Len(a) = Len(b)
      BY <1>2, <2>1, <3>1 DEF LoopInv, Walk, Known, Counterpart
    <3>2. CASE Len(a) # Len(b)
      BY <1>2, <2>1, <3>2 DEF LoopInv, Walk, Known, Counterpart
    <3>. QED
      BY <3>1, <3>2
  <2>. QED
    BY <1>2, <2>2, <2>3 DEF LoopInv, Walk, EqualsIsEquality
<1>3. CASE Finish
  <2>1. a \in String /\ b \in String /\ i = Len(a) /\ Known
    BY <1>3 DEF LoopInv, Finish
  <2>2. diff = 0 <=> a = b
    BY <2>1, SameString DEF Known
  <2>. QED
    BY <1>3, <2>1, <2>2, StringAssumption
       DEF LoopInv, Finish, Return, EqualsIsEquality
<1>4. CASE UNCHANGED vars
  BY <1>4 DEF vars, LoopInv, Known, EqualsIsEquality
<1>. QED
  BY <1>1, <1>2, <1>3, <1>4 DEF Next

(* The answer is equality, whatever is compared (SecureCompare.equals). *)
THEOREM EqualsIsEqualityHolds == Spec => []EqualsIsEquality
<1>1. LoopInv => EqualsIsEquality
  BY DEF LoopInv
<1>. QED
  BY LoopInit, LoopStep, <1>1, PTL DEF Spec

-----------------------------------------------------------------------------
(* A set of positions has a first and a last.                               *)
LEMMA FirstPosition ==
    ASSUME NEW T \in SUBSET Nat, T # {}
    PROVE  \E n \in T : \A m \in T : n <= m
<1>1. PICK n \in T : \A m \in T : <<m, n>> \notin OpToRel(<, Nat)
  BY WFMin, NatLessThanWellFounded
<1>2. ASSUME NEW m \in T PROVE n <= m
  <2>1. <<m, n>> \notin {ss \in Nat \X Nat : ss[1] < ss[2]}
    BY <1>1 DEF OpToRel
  <2>. QED
    BY <2>1
<1>. QED
  BY <1>2

LEMMA LastPosition ==
    ASSUME NEW n \in Nat, NEW T \in SUBSET (1..n), T # {}
    PROVE  \E k \in T : \A m \in T : m <= k
<1> DEFINE mirror == {n - m : m \in T}
<1>1. mirror \in SUBSET Nat /\ mirror # {}
  <2>1. ASSUME NEW m \in T PROVE n - m \in Nat
    <3>1. m \in 1..n
      OBVIOUS
    <3>. QED
      BY <3>1
  <2>. QED
    BY <2>1
<1>2. PICK d \in mirror : \A e \in mirror : d <= e
  BY <1>1, FirstPosition
<1>3. PICK k \in T : d = n - k
  BY <1>2
<1>4. ASSUME NEW m \in T PROVE m <= k
  <2>1. d <= n - m
    BY <1>2
  <2>. QED
    BY <1>3, <2>1
<1>. QED
  BY <1>4

(* The first and the last word of a text, and what trimming leaves.         *)
LEMMA Ends ==
    ASSUME NEW s \in Parser!Bodies, Parser!WordsAt(s) # {}
    PROVE  /\ Parser!First(s) \in Parser!WordsAt(s)
           /\ Parser!Last(s) \in Parser!WordsAt(s)
           /\ \A k \in Parser!WordsAt(s) : Parser!First(s) <= k /\ k <= Parser!Last(s)
<1>1. Len(s) \in Nat /\ Parser!WordsAt(s) \in SUBSET (1..Len(s))
  BY DEF Parser!Bodies, Parser!WordsAt
<1>2. \E n \in Parser!WordsAt(s) : \A m \in Parser!WordsAt(s) : n <= m
  BY <1>1, FirstPosition
<1>3. \E k \in Parser!WordsAt(s) : \A m \in Parser!WordsAt(s) : k >= m
  BY <1>1, LastPosition
<1>. QED
  BY <1>1, <1>2, <1>3 DEF Parser!First, Parser!Last, Parser!Min, Parser!Max

LEMMA Trimmed ==
    ASSUME NEW s \in Parser!Bodies, Parser!WordsAt(s) # {}
    PROVE  /\ Parser!Trim(s) = SubSeq(s, Parser!First(s), Parser!Last(s))
           /\ Parser!Trim(s) \in Parser!Bodies
           /\ Len(Parser!Trim(s)) = Parser!Last(s) - Parser!First(s) + 1
           /\ \A k \in 1..Len(Parser!Trim(s)) : Parser!Trim(s)[k] = s[Parser!First(s) + k - 1]
<1>1. PICK f, l \in 1..Len(s) : f = Parser!First(s) /\ l = Parser!Last(s) /\ f <= l
  BY Ends DEF Parser!WordsAt
<1>2. \A k \in f..l : s[k] \in Word \cup Blank
  BY <1>1 DEF Parser!Bodies
<1>3. /\ SubSeq(s, f, l) \in Seq(Word \cup Blank)
      /\ Len(SubSeq(s, f, l)) = l - f + 1
      /\ \A k \in 1..(l - f + 1) : SubSeq(s, f, l)[k] = s[f + k - 1]
  BY <1>1, <1>2, SubSeqProperties
<1>. QED
  BY <1>1, <1>3 DEF Parser!Trim, Parser!Bodies

(* Cutting the verb off and trimming again leaves the text from its second  *)
(* word to its last, as it was typed.                                       *)
LEMMA RemainderIs ==
    ASSUME NEW s \in Parser!Bodies, Parser!WordsAt(s) # {}, Parser!First(s) # Parser!Last(s)
    PROVE  \E h \in (Parser!First(s) + 1)..Parser!Last(s) :
              /\ Parser!Remainder(s) = SubSeq(s, h, Parser!Last(s))
              /\ s[h] \in Word
              /\ \A k \in (Parser!First(s) + 1)..(h - 1) : s[k] \notin Word
<1>1. PICK f, l \in 1..Len(s) : f = Parser!First(s) /\ l = Parser!Last(s) /\ f < l /\ s[l] \in Word
  BY Ends DEF Parser!WordsAt
<1> DEFINE u == Parser!Trim(s)
           r == Tail(u)
<1>2. u \in Seq(Word \cup Blank) /\ Len(u) = l - f + 1 /\ \A k \in 1..(l - f + 1) : u[k] = s[f + k - 1]
  BY <1>1, Trimmed DEF Parser!Bodies
<1>. HIDE DEF u
<1>3. /\ r \in Seq(Word \cup Blank) /\ Len(r) = l - f
      /\ \A k \in 1..(l - f) : r[k] = s[f + k]
  <2>1. u # <<>>
    BY <1>1, <1>2
  <2>2. r \in Seq(Word \cup Blank) /\ Len(r) = Len(u) - 1 /\ \A k \in 1..Len(r) : r[k] = u[k + 1]
    BY <1>2, <2>1, HeadTailProperties
  <2>. QED
    BY <1>1, <1>2, <2>2
<1>. HIDE DEF r
<1>4. r \in Parser!Bodies /\ l - f \in Parser!WordsAt(r)
  BY <1>1, <1>3 DEF Parser!Bodies, Parser!WordsAt
<1>5. PICK g \in 1..(l - f) : g = Parser!First(r) /\ r[g] \in Word /\ \A k \in 1..(g - 1) : r[k] \notin Word
  <2>1. Parser!First(r) \in Parser!WordsAt(r) /\ \A k \in Parser!WordsAt(r) : Parser!First(r) <= k
    BY <1>4, Ends
  <2>2. Parser!First(r) \in 1..(l - f) /\ r[Parser!First(r)] \in Word
    BY <1>3, <2>1 DEF Parser!WordsAt
  <2>3. ASSUME NEW k \in 1..(Parser!First(r) - 1) PROVE r[k] \notin Word
    BY <1>1, <1>3, <2>1, <2>2 DEF Parser!WordsAt
  <2>. QED
    BY <2>2, <2>3
<1>6. Parser!Last(r) = l - f
  <2>1. Parser!Last(r) \in Parser!WordsAt(r) /\ l - f <= Parser!Last(r)
    BY <1>4, Ends
  <2>. QED
    BY <1>1, <1>3, <2>1 DEF Parser!WordsAt
<1>7. Parser!Trim(r) = SubSeq(r, g, l - f)
  BY <1>4, <1>5, <1>6, Trimmed
<1>8. f \in Int /\ g \in Int /\ l \in Int /\ 1 <= f /\ 1 <= g /\ f + g <= l
  BY <1>1
<1>9. SubSeq(r, g, l - f) = SubSeq(s, f + g, l)
  <2>1. /\ SubSeq(r, g, l - f) \in Seq(Word \cup Blank)
        /\ Len(SubSeq(r, g, l - f)) = l - f - g + 1
        /\ \A k \in 1..(l - f - g + 1) : SubSeq(r, g, l - f)[k] = r[g + k - 1]
    <3>1. \A k \in g..(l - f) : k \in 1..(l - f) /\ k \in 1..Len(r)
      BY <1>3, <1>8
    <3>2. \A k \in g..(l - f) : r[k] \in Word \cup Blank
      BY <1>3, <3>1
    <3>3. l - f \in Int
      BY <1>8
    <3>. QED
      BY <1>8, <3>2, <3>3, SubSeqProperties
  <2>2. /\ SubSeq(s, f + g, l) \in Seq(Word \cup Blank)
        /\ Len(SubSeq(s, f + g, l)) = l - (f + g) + 1
        /\ \A k \in 1..(l - (f + g) + 1) : SubSeq(s, f + g, l)[k] = s[f + g + k - 1]
    <3>1. \A k \in (f + g)..l : k \in 1..Len(s)
      BY <1>8
    <3>2. \A k \in (f + g)..l : s[k] \in Word \cup Blank
      BY <3>1 DEF Parser!Bodies
    <3> DEFINE h == f + g
    <3>3. h \in Int /\ l \in Int /\ h <= l
      BY <1>8
    <3>4. \A k \in h..l : s[k] \in Word \cup Blank
      BY <3>2
    <3>. HIDE DEF h
    <3>5. /\ SubSeq(s, h, l) \in Seq(Word \cup Blank)
          /\ Len(SubSeq(s, h, l)) = l - h + 1
          /\ \A k \in 1..(l - h + 1) : SubSeq(s, h, l)[k] = s[h + k - 1]
      BY <3>3, <3>4, SubSeqProperties
    <3>. QED
      BY <3>5 DEF h
  <2>3. \A k \in 1..(l - f - g + 1) : SubSeq(r, g, l - f)[k] = SubSeq(s, f + g, l)[k]
    <3> SUFFICES ASSUME NEW k \in 1..(l - f - g + 1)
                 PROVE  SubSeq(r, g, l - f)[k] = SubSeq(s, f + g, l)[k]
      OBVIOUS
    <3>1. g + k - 1 \in 1..(l - f) /\ f + (g + k - 1) = f + g + k - 1
      BY <1>8
    <3>2. r[g + k - 1] = s[f + g + k - 1]
      BY <1>3, <3>1
    <3>. QED
      BY <2>1, <2>2, <3>2
  <2>4. l - (f + g) + 1 = l - f - g + 1
    BY <1>8
  <2> DEFINE cut == SubSeq(r, g, l - f)
             whole == SubSeq(s, f + g, l)
  <2>5. /\ cut \in Seq(Word \cup Blank) /\ whole \in Seq(Word \cup Blank)
        /\ Len(cut) = Len(whole) /\ \A k \in 1..Len(cut) : cut[k] = whole[k]
    BY <2>1, <2>2, <2>3, <2>4
  <2> HIDE DEF cut, whole
  <2>6. cut = whole
    BY <2>5, SeqEqual
  <2>. QED
    BY <2>6 DEF cut, whole
<1>10. Parser!Remainder(s) = SubSeq(s, f + g, l)
  BY <1>7, <1>9 DEF Parser!Remainder, r, u
<1>11. f + g \in (f + 1)..l /\ s[f + g] \in Word
  BY <1>1, <1>3, <1>5
<1>12. ASSUME NEW k \in (f + 1)..(f + g - 1) PROVE s[k] \notin Word
  <2>1. k - f \in 1..(g - 1) /\ k - f \in 1..(l - f) /\ f + (k - f) = k
    BY <1>8
  <2>. QED
    BY <1>3, <1>5, <2>1
<1>13. \E h \in (f + 1)..l : /\ Parser!Remainder(s) = SubSeq(s, h, l)
                             /\ s[h] \in Word
                             /\ \A k \in (f + 1)..(h - 1) : s[k] \notin Word
  <2> DEFINE second == f + g
  <2>1. /\ second \in (f + 1)..l
        /\ Parser!Remainder(s) = SubSeq(s, second, l)
        /\ s[second] \in Word
        /\ \A k \in (f + 1)..(second - 1) : s[k] \notin Word
    BY <1>10, <1>11, <1>12
  <2> HIDE DEF second
  <2>. QED
    BY <2>1
<1>. QED
  BY <1>1, <1>13

(* When a text parses as UNLOCK, its verb is that word, it has a second     *)
(* word, and the argument is what cutting and trimming leave.               *)
LEMMA ParsedUnlock ==
    ASSUME NEW s, Parser!Parse(s).type = "unlock"
    PROVE  /\ s # NoBody /\ Parser!WordsAt(s) # {}
           /\ Parser!Verb(s) = "unlock"
           /\ ~(Cardinality(Parser!WordsAt(s)) < 2)
           /\ Parser!Parse(s).arg = Parser!Remainder(s)
<1>1. s # NoBody /\ Parser!WordsAt(s) # {}
  BY DEF Parser!Parse, Parser!Help
<1>2. Parser!Verb(s) \in DOMAIN Parser!Aliases
  BY <1>1 DEF Parser!Parse, Parser!Help
<1> DEFINE type == Parser!Aliases[Parser!Verb(s)]
<1>3. Parser!Parse(s) = CASE type \notin DOMAIN Parser!ArgSpecs -> [type |-> type, arg |-> <<>>]
                          [] type \in DOMAIN Parser!ArgSpecs /\ Cardinality(Parser!WordsAt(s)) < 2 -> Parser!Help
                          [] OTHER -> [type |-> type, arg |-> Parser!ArgOf(type, s)]
  <2>1. \A S : Parser!Cardinality(S) = Cardinality(S)
    BY DEF Parser!Cardinality, Cardinality
  <2>. QED
    BY <1>1, <1>2, <2>1 DEF Parser!Parse
<1>. HIDE DEF type
<1>4. type = "unlock"
  BY <1>3 DEF Parser!Help
<1>5. "unlock" \in DOMAIN Parser!ArgSpecs /\ Parser!ArgSpecs["unlock"] = "raw"
  BY DEF Parser!ArgSpecs
<1>6. ~(Cardinality(Parser!WordsAt(s)) < 2) /\ Parser!Parse(s).arg = Parser!ArgOf("unlock", s)
  BY <1>3, <1>4, <1>5 DEF Parser!Help
<1>7. Parser!ArgOf("unlock", s) = Parser!Remainder(s)
  BY <1>5 DEF Parser!ArgOf
<1>8. Parser!Verb(s) = "unlock"
  BY <1>2, <1>4 DEF type, Parser!Aliases
<1>. QED
  BY <1>1, <1>6, <1>7, <1>8

ParserInv == body \in Parser!Bodies \cup {NoBody} /\ intent = Parser!Parse(body)

LEMMA ParserInvAlways == Parser!Spec => []ParserInv
<1>1. Parser!Init => ParserInv
  <2>1. <<>> \in Parser!Bodies
    BY DEF Parser!Bodies
  <2>. QED
    BY <2>1 DEF Parser!Init, ParserInv
<1>2. ParserInv /\ [Parser!Next]_(Parser!vars) => ParserInv'
  BY DEF ParserInv, Parser!Next, Parser!Type, Parser!vars, Parser!Bodies
<1>. QED
  BY <1>1, <1>2, PTL DEF Parser!Spec

(* The unlock word reaches the gate as it was typed, however long the text, *)
(* whatever its words and its blanks (CommandParser.parse, ARG_SPECS).      *)
THEOREM UnlockVerbatimHolds == Parser!Spec => []UnlockVerbatim
<1>1. ParserInv => UnlockVerbatim
  <2> SUFFICES ASSUME ParserInv, intent.type = "unlock"
               PROVE  \E h, j \in 2..Len(body) :
                         /\ SubSeq(body, h, j) = intent.arg
                         /\ Parser!Bounded(intent.arg)
                         /\ Parser!AllBlank(SubSeq(body, j + 1, Len(body)))
                         /\ \E v \in 1..(h - 1) : /\ body[v] \in Word /\ Lower[body[v]] = "unlock"
                                                  /\ Parser!AllBlank(SubSeq(body, 1, v - 1))
                                                  /\ Parser!AllBlank(SubSeq(body, v + 1, h - 1))
    BY DEF UnlockVerbatim, Parser!UnlockVerbatim
  <2>1. /\ body \in Parser!Bodies /\ Parser!WordsAt(body) # {}
        /\ Parser!Verb(body) = "unlock"
        /\ ~(Cardinality(Parser!WordsAt(body)) < 2)
        /\ intent.arg = Parser!Remainder(body)
    BY ParsedUnlock DEF ParserInv
  <2>2. PICK v \in 1..Len(body), j \in 1..Len(body) :
           /\ v = Parser!First(body) /\ j = Parser!Last(body)
           /\ body[v] \in Word /\ body[j] \in Word
           /\ \A k \in 1..Len(body) : body[k] \in Word => v <= k /\ k <= j
    BY <2>1, Ends DEF Parser!WordsAt
  <2>3. v # j
    <3>1. CASE v = j
      <4>1. Parser!WordsAt(body) = {v}
        BY <2>2, <3>1 DEF Parser!WordsAt
      <4>2. Cardinality({v}) = 1
        BY FS_Singleton
      <4>. QED
        BY <2>1, <4>1, <4>2
    <3>. QED
      BY <3>1
  <2>4. PICK h \in (v + 1)..j : /\ intent.arg = SubSeq(body, h, j)
                                /\ body[h] \in Word
                                /\ \A k \in (v + 1)..(h - 1) : body[k] \notin Word
    BY <2>1, <2>2, <2>3, RemainderIs
  <2>5. ASSUME NEW m \in Int, NEW n \in Int, \A k \in m..n : k \in 1..Len(body) /\ body[k] \notin Word
        PROVE  Parser!AllBlank(SubSeq(body, m, n))
    <3>1. \A k \in m..n : body[k] \in Blank
      BY <2>1, <2>5 DEF Parser!Bodies
    <3>2. SubSeq(body, m, n) \in Seq(Blank)
      BY <3>1, SubSeqProperties
    <3>. QED
      BY <3>2 DEF Parser!AllBlank
  <2>6. Parser!AllBlank(SubSeq(body, j + 1, Len(body)))
    <3>1. Len(body) \in Int /\ \A k \in (j + 1)..Len(body) : k \in 1..Len(body) /\ body[k] \notin Word
      BY <2>1, <2>2 DEF Parser!Bodies
    <3>. QED
      BY <2>2, <2>5, <3>1
  <2>7. Parser!AllBlank(SubSeq(body, 1, v - 1)) /\ Parser!AllBlank(SubSeq(body, v + 1, h - 1))
    <3>1. \A k \in 1..(v - 1) : k \in 1..Len(body) /\ body[k] \notin Word
      BY <2>1, <2>2 DEF Parser!Bodies
    <3>2. \A k \in (v + 1)..(h - 1) : k \in 1..Len(body) /\ body[k] \notin Word
      BY <2>1, <2>2, <2>4 DEF Parser!Bodies
    <3>3. v - 1 \in Int /\ v + 1 \in Int /\ h - 1 \in Int
      BY <2>2, <2>4
    <3>. QED
      BY <2>5, <3>1, <3>2, <3>3
  <2>8. Parser!Bounded(intent.arg)
    <3>1. \A k \in h..j : body[k] \in Word \cup Blank
      BY <2>1, <2>2, <2>4 DEF Parser!Bodies
    <3>2. /\ Len(SubSeq(body, h, j)) = j - h + 1
          /\ \A k \in 1..(j - h + 1) : SubSeq(body, h, j)[k] = body[h + k - 1]
      BY <2>2, <2>4, <3>1, SubSeqProperties
    <3>3. SubSeq(body, h, j)[1] = body[h] /\ SubSeq(body, h, j)[j - h + 1] = body[j]
      <4>1. /\ 1 \in 1..(j - h + 1) /\ h + 1 - 1 = h
            /\ j - h + 1 \in 1..(j - h + 1) /\ h + (j - h + 1) - 1 = j
        <5>1. h \in Int /\ j \in Int /\ h <= j
          OBVIOUS
        <5>. QED
          BY <5>1
      <4>. QED
        BY <3>2, <4>1
    <3>. QED
      <4>1. Len(intent.arg) = j - h + 1 /\ j - h + 1 > 0
        BY <2>2, <2>4, <3>2
      <4>2. intent.arg[1] \in Word /\ intent.arg[Len(intent.arg)] \in Word
        BY <2>2, <2>4, <3>3, <4>1
      <4>. QED
        BY <4>1, <4>2 DEF Parser!Bounded
  <2>9. Lower[body[v]] = "unlock"
    BY <2>1, <2>2 DEF Parser!Verb
  <2>10. h \in 2..Len(body) /\ j \in 2..Len(body) /\ v \in 1..(h - 1)
    BY <2>2, <2>4
  <2>. QED
    BY <2>2, <2>4, <2>6, <2>7, <2>8, <2>9, <2>10
<1>. QED
  BY ParserInvAlways, <1>1, PTL

-----------------------------------------------------------------------------
(***************************************************************************)
(* The stored list.  What healing returns was proved once, for the          *)
(* overlapping commands; this is the same watchlist with nobody at work.    *)
(***************************************************************************)
NotACommand == CHOOSE c : c \notin [kind : {"add", "remove"}, arg : Entry]
                                    \cup [kind : {"pause", "resume", "list", "help"}]

W == INSTANCE Watchlist_proofs
       WITH Exec <- {}, NoExec <- "nobody", Other <- "somebody", NoCommand <- NotACommand,
            RawInit <- {}, stored <- array, paused <- FALSE, lock <- "nobody",
            pc <- <<>>, cmd <- <<>>, quote <- <<>>, current <- <<>>, reply <- <<>>

LEMMA Idle == W!ExecAssumption /\ W!CommandAssumption
<1>1. \A S : \E c : c \notin S
  <2>1. \A S : {x \in S : x \notin x} \notin S
    OBVIOUS
  <2>. QED
    BY <2>1
<1>2. W!CommandAssumption
  BY <1>1 DEF W!CommandAssumption, W!Command, NotACommand
<1>. QED
  BY <1>2 DEF W!ExecAssumption

(* What is said of the list there is what is said of it here.               *)
LEMMA SameStore ==
    /\ W!StoreAssumption
    /\ Store!WatchLists = W!WatchLists
    /\ \A s : Store!Kept(s) = W!Kept(s)
    /\ \A s, n : Store!KeptUpTo(s, n) = W!KeptUpTo(s, n)
    /\ \A s : Store!HealedLen(s) = W!HealedLen(s) /\ Store!Healed(s) = W!Healed(s)
    /\ \A raw : Store!Tickers(raw) = W!Tickers(raw)
    /\ \A l, t : /\ Store!Contains(l, t) = W!Contains(l, t)
                 /\ Store!Added(l, t) = W!Added(l, t)
                 /\ Store!Removed(l, t) = W!Removed(l, t)
<1>1. W!StoreAssumption /\ Store!WatchLists = W!WatchLists
  BY FunctionsAssumption DEF Store!StoreAssumption, W!StoreAssumption, Store!WatchLists, W!WatchLists
<1>2. \A s : Store!Kept(s) = W!Kept(s)
  BY DEF Store!Kept, W!Kept, Store!IsValid, W!IsValid
<1>3. \A s, n : Store!KeptUpTo(s, n) = W!KeptUpTo(s, n)
  <2>1. \A S : Store!Cardinality(S) = W!Cardinality(S)
    BY DEF Store!Cardinality, W!Cardinality
  <2>. QED
    BY <1>2, <2>1 DEF Store!KeptUpTo, W!KeptUpTo
<1>4. \A s : Store!HealedLen(s) = W!HealedLen(s)
  BY <1>3 DEF Store!HealedLen, W!HealedLen
<1>5. \A s : Store!Healed(s) = W!Healed(s)
  BY DEF Store!Healed, W!Healed, Store!HealedLen, W!HealedLen, Store!KeptUpTo, W!KeptUpTo,
         Store!Kept, W!Kept, Store!IsValid, W!IsValid, Store!Cardinality, W!Cardinality
<1>6. \A raw : Store!Tickers(raw) = W!Tickers(raw)
  BY <1>5 DEF Store!Tickers, W!Tickers
<1>7. \A l, t : /\ Store!Contains(l, t) = W!Contains(l, t)
               /\ Store!Added(l, t) = W!Added(l, t)
               /\ Store!Removed(l, t) = W!Removed(l, t)
  BY DEF Store!Contains, W!Contains, Store!Added, W!Added, Store!Removed, W!Removed
<1>. QED
  BY <1>1, <1>2, <1>3, <1>4, <1>5, <1>6, <1>7

(* How many slots survive up to each place: the count starts at 0, grows by *)
(* one at each surviving slot, and so tells the surviving slots apart.      *)
LEMMA Counts ==
    ASSUME NEW s \in Seq(Entry)
    PROVE  /\ Len(s) \in Nat
           /\ Store!KeptUpTo(s, 0) = 0
           /\ \A p \in 0..Len(s) : Store!KeptUpTo(s, p) \in Nat
           /\ \A p \in 1..Len(s) :
                 Store!KeptUpTo(s, p) = Store!KeptUpTo(s, p - 1)
                                          + (IF p \in Store!Kept(s) THEN 1 ELSE 0)
           /\ \A p, j \in 0..Len(s) : p <= j => Store!KeptUpTo(s, p) <= Store!KeptUpTo(s, j)
<1> USE SameStore, Idle
<1>1. Len(s) \in Nat /\ Store!KeptUpTo(s, 0) = 0
  BY W!KeptUpToZero, LenProperties
<1>2. \A p \in 0..Len(s) : /\ Store!KeptUpTo(s, p) \in Nat
                            /\ IsFiniteSet(Store!Kept(s) \cap 1..p)
                            /\ Store!KeptUpTo(s, p) = Cardinality(Store!Kept(s) \cap 1..p)
  <2> SUFFICES ASSUME NEW p \in 0..Len(s)
               PROVE  /\ Store!KeptUpTo(s, p) \in Nat
                      /\ IsFiniteSet(Store!Kept(s) \cap 1..p)
                      /\ Store!KeptUpTo(s, p) = Cardinality(Store!Kept(s) \cap 1..p)
    OBVIOUS
  <2>1. p \in Nat
    OBVIOUS
  <2>2. Store!KeptUpTo(s, p) \in Nat
    BY <2>1, W!KeptUpToType
  <2>3. IsFiniteSet(Store!Kept(s) \cap 1..p)
    <3>1. IsFiniteSet(1..p)
      BY <2>1, FS_Interval
    <3>. QED
      BY <3>1, FS_Intersection
  <2>4. Store!KeptUpTo(s, p) = Cardinality(Store!Kept(s) \cap 1..p)
    <3>1. \A S : Store!Cardinality(S) = Cardinality(S)
      BY DEF Store!Cardinality, Cardinality
    <3>. QED
      BY <3>1 DEF Store!KeptUpTo
  <2>. QED
    BY <2>2, <2>3, <2>4
<1>3. ASSUME NEW p \in 1..Len(s)
      PROVE  Store!KeptUpTo(s, p) = Store!KeptUpTo(s, p - 1) + (IF p \in Store!Kept(s) THEN 1 ELSE 0)
  <2>1. p - 1 \in Nat /\ (p - 1) + 1 = p
    BY <1>1
  <2>2. W!KeptUpTo(s, (p - 1) + 1) = W!KeptUpTo(s, p - 1)
                                      + (IF (p - 1) + 1 \in W!Kept(s) THEN 1 ELSE 0)
    BY <2>1, W!KeptUpToStep
  <2>. QED
    BY <2>1, <2>2
<1>4. ASSUME NEW p \in 0..Len(s), NEW j \in 0..Len(s), p <= j
      PROVE  Store!KeptUpTo(s, p) <= Store!KeptUpTo(s, j)
  <2>1. Store!Kept(s) \cap 1..p \subseteq Store!Kept(s) \cap 1..j
    BY <1>4
  <2>2. Cardinality(Store!Kept(s) \cap 1..p) <= Cardinality(Store!Kept(s) \cap 1..j)
    BY <1>2, <2>1, FS_Subset
  <2>. QED
    BY <1>2, <2>2
<1>. QED
  BY <1>1, <1>2, <1>3, <1>4

(* A slot survives just when its symbol is on the list that the surviving   *)
(* slots before it make: of the slots with one symbol the first survives.   *)
LEMMA FirstSurvives ==
    ASSUME NEW s \in Seq(Entry), NEW p \in 1..Len(s)
    PROVE  p \in Store!Kept(s) <=>
             /\ Store!IsValid(s[p])
             /\ \A j \in 1..(p - 1) : j \in Store!Kept(s) => Canon[s[j]] # Canon[s[p]]
<1> DEFINE T == {j \in 1..(p - 1) : Canon[s[j]] = Canon[s[p]]}
<1>1. CASE T = {}
  BY <1>1 DEF Store!Kept
<1>2. CASE T # {} /\ Store!IsValid(s[p])
  <2>1. Len(s) \in Nat /\ T \in SUBSET Nat
    BY LenProperties
  <2>2. PICK j \in T : \A m \in T : j <= m
    BY <1>2, <2>1, FirstPosition
  <2>3. j \in 1..Len(s) /\ Store!IsValid(s[j])
    BY <1>2, <2>1, <2>2 DEF Store!IsValid
  <2>4. ASSUME NEW m \in 1..(j - 1) PROVE Canon[s[m]] # Canon[s[j]]
    <3>1. m \in 1..(p - 1) /\ ~(j <= m)
      BY <2>1, <2>2
    <3>. QED
      BY <2>2, <3>1
  <2>5. j \in Store!Kept(s)
    BY <2>3, <2>4 DEF Store!Kept
  <2>. QED
    BY <2>2, <2>5 DEF Store!Kept
<1>3. CASE ~Store!IsValid(s[p])
  BY <1>3 DEF Store!Kept
<1>. QED
  BY <1>1, <1>2, <1>3

(* The list that the surviving slots up to place p make.                    *)
Survivors(s, p) == [k \in 1..Store!KeptUpTo(s, p) |->
                       Canon[s[CHOOSE h \in Store!Kept(s) : Store!KeptUpTo(s, h) = k]]]

(* Its symbols are those of the surviving slots, each at its rank.          *)
LEMMA SurvivorsAre ==
    ASSUME NEW s \in Seq(Entry), NEW p \in 0..Len(s)
    PROVE  /\ Survivors(s, p) \in Seq(Ticker)
           /\ Len(Survivors(s, p)) = Store!KeptUpTo(s, p)
           /\ \A h \in 1..p : h \in Store!Kept(s) =>
                 /\ Store!KeptUpTo(s, h) \in 1..Store!KeptUpTo(s, p)
                 /\ Survivors(s, p)[Store!KeptUpTo(s, h)] = Canon[s[h]]
           /\ \A k \in 1..Store!KeptUpTo(s, p) :
                 \E h \in 1..p : h \in Store!Kept(s) /\ Survivors(s, p)[k] = Canon[s[h]]
<1> DEFINE up(q) == Store!KeptUpTo(s, q)
           slot(k) == CHOOSE h \in Store!Kept(s) : up(h) = k
           kept == Store!Kept(s)
<1>1. /\ Len(s) \in Nat /\ up(0) = 0
      /\ \A q \in 0..Len(s) : up(q) \in Nat
      /\ \A q \in 1..Len(s) : up(q) = up(q - 1) + (IF q \in kept THEN 1 ELSE 0)
      /\ \A q, r \in 0..Len(s) : q <= r => up(q) <= up(r)
  BY Counts
<1>2. \A h \in kept : h \in 1..Len(s) /\ Canon[s[h]] \in Ticker
  BY DEF Store!Kept, Store!IsValid
<1>3. Survivors(s, p) = [k \in 1..up(p) |-> Canon[s[slot(k)]]]
  BY DEF Survivors
<1>4. ASSUME NEW k \in 1..up(p) PROVE slot(k) \in kept /\ up(slot(k)) = k
  <2>1. up(p) <= up(Len(s)) /\ up(p) \in Nat /\ up(Len(s)) \in Nat
    BY <1>1
  <2>2. k \in 1..up(Len(s))
    BY <2>1
  <2>3. \E h \in kept : up(h) = k
    <3>1. k \in 1..W!KeptUpTo(s, Len(s))
      BY <2>2, SameStore
    <3>2. \E h \in W!Kept(s) : W!KeptUpTo(s, h) = k
      BY <3>1, W!RankExists, Idle, SameStore
    <3>. QED
      BY <3>2, SameStore
  <2>. QED
    BY <2>3
<1> HIDE DEF up, slot, kept
<1>5. ASSUME NEW g \in kept, NEW h \in kept, g < h PROVE up(g) < up(h)
  <2>1. /\ g \in 0..Len(s) /\ h - 1 \in 0..Len(s) /\ g <= h - 1
        /\ h \in 1..Len(s) /\ h \in 0..Len(s)
    BY <1>1, <1>2, <1>5
  <2>2. up(g) <= up(h - 1) /\ up(h) = up(h - 1) + 1 /\ up(g) \in Nat /\ up(h - 1) \in Nat
    BY <1>1, <2>1
  <2>. QED
    BY <2>2
<1>6. ASSUME NEW g \in kept, NEW h \in kept, up(g) = up(h) PROVE g = h
  <2>1. up(g) \in Nat /\ g \in Nat /\ h \in Nat
    BY <1>1, <1>2
  <2>. QED
    BY <1>5, <1>6, <2>1
<1>7. ASSUME NEW k \in 1..up(p) PROVE slot(k) \in 1..p
  <2>1. slot(k) \in kept /\ up(slot(k)) = k /\ slot(k) \in 1..Len(s)
    BY <1>2, <1>4
  <2>2. CASE p < slot(k)
    <3>1. p \in 0..Len(s) /\ slot(k) - 1 \in 0..Len(s) /\ p <= slot(k) - 1
      BY <1>1, <2>1, <2>2
    <3>2. up(p) <= up(slot(k) - 1) /\ up(slot(k)) = up(slot(k) - 1) + 1
          /\ up(p) \in Nat /\ up(slot(k) - 1) \in Nat
      BY <1>1, <2>1, <3>1
    <3>. QED
      BY <2>1, <3>2
  <2>. QED
    BY <1>1, <2>1, <2>2
<1>8. Survivors(s, p) \in Seq(Ticker) /\ Len(Survivors(s, p)) = up(p)
  <2>1. up(p) \in Nat
    BY <1>1
  <2>2. Survivors(s, p) \in [1..up(p) -> Ticker]
    BY <1>2, <1>3, <1>4
  <2>. QED
    BY <1>3, <2>1, <2>2
<1>9. ASSUME NEW h \in 1..p, h \in kept
      PROVE  up(h) \in 1..up(p) /\ Survivors(s, p)[up(h)] = Canon[s[h]]
  <2>1. /\ h \in 0..Len(s) /\ h \in 1..Len(s) /\ h - 1 \in 0..Len(s) /\ h <= p
    BY <1>1
  <2>2. up(h) = up(h - 1) + 1 /\ up(h - 1) \in Nat /\ up(h) <= up(p) /\ up(p) \in Nat
    BY <1>1, <1>9, <2>1
  <2>3. up(h) \in 1..up(p)
    BY <2>2
  <2>4. slot(up(h)) = h
    BY <1>4, <1>6, <1>9, <2>3
  <2>. QED
    BY <1>3, <2>3, <2>4
<1>10. ASSUME NEW k \in 1..up(p)
       PROVE  slot(k) \in 1..p /\ slot(k) \in kept /\ Survivors(s, p)[k] = Canon[s[slot(k)]]
  BY <1>3, <1>4, <1>7
<1>. QED
  BY <1>8, <1>9, <1>10 DEF up, kept

(* Each round of the loop takes the survivors up to one slot to those up to *)
(* the next.                                                                *)
LEMMA RoundOfTheLoop ==
    ASSUME NEW s \in Seq(Entry), NEW p \in 1..Len(s)
    PROVE  Survivors(s, p) =
             IF ~Store!IsValid(s[p]) \/ Store!Contains(Survivors(s, p - 1), Canon[s[p]])
             THEN Survivors(s, p - 1)
             ELSE Append(Survivors(s, p - 1), Canon[s[p]])
<1> DEFINE before == Survivors(s, p - 1)
<1>1. /\ Len(s) \in Nat /\ p - 1 \in 0..Len(s) /\ p \in 0..Len(s)
      /\ Store!KeptUpTo(s, p - 1) \in Nat
      /\ Store!KeptUpTo(s, p) = Store!KeptUpTo(s, p - 1) + (IF p \in Store!Kept(s) THEN 1 ELSE 0)
  <2>1. Len(s) \in Nat
    BY LenProperties
  <2>2. p - 1 \in 0..Len(s) /\ p \in 0..Len(s)
    BY <2>1
  <2>. QED
    BY <2>1, <2>2, Counts
<1>2. /\ before \in Seq(Ticker) /\ Len(before) = Store!KeptUpTo(s, p - 1)
      /\ \A h \in 1..(p - 1) : h \in Store!Kept(s) =>
            \E k \in 1..Len(before) : before[k] = Canon[s[h]]
      /\ \A k \in 1..Len(before) :
            \E h \in 1..(p - 1) : h \in Store!Kept(s) /\ before[k] = Canon[s[h]]
  <2>1. /\ before \in Seq(Ticker) /\ Len(before) = Store!KeptUpTo(s, p - 1)
        /\ \A h \in 1..(p - 1) : h \in Store!Kept(s) =>
              /\ Store!KeptUpTo(s, h) \in 1..Store!KeptUpTo(s, p - 1)
              /\ before[Store!KeptUpTo(s, h)] = Canon[s[h]]
        /\ \A k \in 1..Store!KeptUpTo(s, p - 1) :
              \E h \in 1..(p - 1) : h \in Store!Kept(s) /\ before[k] = Canon[s[h]]
    <3>1. p - 1 \in 0..Len(s)
      BY <1>1
    <3> HIDE <1>1
    <3>. QED
      BY <3>1, SurvivorsAre
  <2> HIDE DEF before
  <2>2. ASSUME NEW h \in 1..(p - 1), h \in Store!Kept(s)
        PROVE  \E k \in 1..Len(before) : before[k] = Canon[s[h]]
    BY <2>1, <2>2
  <2>. QED
    BY <2>1, <2>2
<1>3. p \in Store!Kept(s) <=> Store!IsValid(s[p]) /\ ~Store!Contains(before, Canon[s[p]])
  <2>1. Store!Contains(before, Canon[s[p]])
          <=> \E h \in 1..(p - 1) : h \in Store!Kept(s) /\ Canon[s[h]] = Canon[s[p]]
    <3> HIDE DEF before
    <3>1. Store!Contains(before, Canon[s[p]]) <=> \E k \in 1..Len(before) : before[k] = Canon[s[p]]
      BY DEF Store!Contains
    <3>2. ASSUME NEW k \in 1..Len(before), before[k] = Canon[s[p]]
          PROVE  \E h \in 1..(p - 1) : h \in Store!Kept(s) /\ Canon[s[h]] = Canon[s[p]]
      <4>1. PICK h \in 1..(p - 1) : h \in Store!Kept(s) /\ before[k] = Canon[s[h]]
        BY <1>2
      <4>. QED
        BY <3>2, <4>1
    <3>3. ASSUME NEW h \in 1..(p - 1), h \in Store!Kept(s), Canon[s[h]] = Canon[s[p]]
          PROVE  \E k \in 1..Len(before) : before[k] = Canon[s[p]]
      <4>1. PICK k \in 1..Len(before) : before[k] = Canon[s[h]]
        BY <1>2, <3>3
      <4>. QED
        BY <3>3, <4>1
    <3>. QED
      BY <3>1, <3>2, <3>3
  <2>. QED
    BY <2>1, FirstSurvives
<1>4. CASE p \notin Store!Kept(s)
  <2>1. Survivors(s, p) = before
    BY <1>1, <1>4 DEF Survivors
  <2>. QED
    BY <1>3, <1>4, <2>1
<1>5. CASE p \in Store!Kept(s)
  <2> DEFINE now == Survivors(s, p)
  <2>1. /\ now \in Seq(Ticker) /\ Len(now) = Len(before) + 1
        /\ now[Len(before) + 1] = Canon[s[p]]
    <3>1. p \in 1..p /\ Store!KeptUpTo(s, p) = Len(before) + 1
      BY <1>1, <1>2, <1>5
    <3>. QED
      BY <1>1, <1>5, <3>1, SurvivorsAre
  <2>2. \A k \in 1..Len(before) : now[k] = before[k]
    BY <1>1, <1>2, <1>5 DEF Survivors
  <2>3. Canon[s[p]] \in Ticker
    BY <1>5 DEF Store!Kept, Store!IsValid
  <2>4. /\ Append(before, Canon[s[p]]) \in Seq(Ticker)
        /\ Len(Append(before, Canon[s[p]])) = Len(before) + 1
        /\ \A k \in 1..(Len(before) + 1) :
              Append(before, Canon[s[p]])[k] = IF k <= Len(before) THEN before[k] ELSE Canon[s[p]]
    <3> HIDE DEF before
    <3>. QED
      BY <1>2, <2>3, AppendProperties
  <2> HIDE DEF before, now
  <2>5. \A k \in 1..(Len(before) + 1) : now[k] = Append(before, Canon[s[p]])[k]
    <3>1. Len(before) \in Nat
      BY <1>2
    <3>. QED
      BY <2>1, <2>2, <2>4, <3>1
  <2>6. now = Append(before, Canon[s[p]])
    BY <2>1, <2>4, <2>5, SeqEqual
  <2>. QED
    BY <1>3, <1>5, <2>6 DEF before, now
<1>. QED
  BY <1>4, <1>5

(* So after p rounds the loop holds the survivors up to slot p.             *)
LEMMA CleanIsSurvivors ==
    ASSUME NEW s \in Seq(Entry)
    PROVE  \A p \in 0..Len(s) : Store!Clean(s)[p] = Survivors(s, p)
<1> DEFINE round(f) == [p \in 0..Len(s) |->
              IF p = 0 THEN <<>>
              ELSE IF ~Store!IsValid(s[p]) \/ Store!Contains(f[p - 1], Canon[s[p]]) THEN f[p - 1]
              ELSE Append(f[p - 1], Canon[s[p]])]
           all == [p \in 0..Len(s) |-> Survivors(s, p)]
           clean == Store!Clean(s)
<1>0. Len(s) \in Nat
  BY LenProperties
<1>1. Survivors(s, 0) = <<>>
  <2>1. Store!KeptUpTo(s, 0) = 0
    BY Counts
  <2>2. Survivors(s, 0) \in Seq(Ticker) /\ Len(Survivors(s, 0)) = 0
    BY <1>0, <2>1, SurvivorsAre
  <2>. QED
    BY <2>2, EmptySeq
<1>2. all = round(all)
  <2>1. ASSUME NEW p \in 0..Len(s) PROVE all[p] = round(all)[p]
    <3>1. CASE p = 0
      BY <1>0, <1>1, <3>1
    <3>2. CASE p # 0
      <4>1. p \in 1..Len(s) /\ p - 1 \in 0..Len(s)
        BY <1>0, <3>2
      <4>2. all[p - 1] = Survivors(s, p - 1) /\ all[p] = Survivors(s, p)
        BY <4>1
      <4>. QED
        BY <3>2, <4>1, <4>2, RoundOfTheLoop
    <3>. QED
      BY <3>1, <3>2
  <2>. QED
    BY <2>1
<1>3. clean = CHOOSE f : f = round(f)
  BY DEF Store!Clean
<1>4. clean = round(clean)
  <2> HIDE DEF all, round, clean
  <2>. QED
    BY <1>2, <1>3
<1>5. \A p \in 0..Len(s) :
         clean[p] = IF p = 0 THEN <<>>
                    ELSE IF ~Store!IsValid(s[p]) \/ Store!Contains(clean[p - 1], Canon[s[p]])
                         THEN clean[p - 1]
                    ELSE Append(clean[p - 1], Canon[s[p]])
  <2> HIDE DEF clean
  <2>. QED
    BY <1>4
<1> HIDE DEF clean, all, round
<1> DEFINE differ == {p \in 0..Len(s) : clean[p] # Survivors(s, p)}
<1>6. CASE differ # {}
  <2>0. differ \in SUBSET Nat
    BY <1>0
  <2>1. PICK p \in differ : \A k \in differ : p <= k
    <3> HIDE DEF differ
    <3>. QED
      BY <1>6, <2>0, FirstPosition
  <2>2. p # 0
    BY <1>0, <1>1, <1>5, <2>1
  <2>3. p \in 1..Len(s) /\ p - 1 \in 0..Len(s) /\ ~(p <= p - 1)
    BY <1>0, <2>1, <2>2
  <2>4. clean[p - 1] = Survivors(s, p - 1)
    BY <2>1, <2>3
  <2>5. clean[p] = Survivors(s, p)
    BY <1>5, <2>2, <2>3, <2>4, RoundOfTheLoop
  <2>. QED
    BY <2>1, <2>5
<1>. QED
  BY <1>6 DEF clean

(* Healing by ranks is the loop of Watchlist.tickers with its cap, for      *)
(* every array, however long and however dirty.                             *)
THEOREM HealingIsTheLoop ==
    ASSUME NEW s \in Seq(Entry)
    PROVE  Store!Healed(s) = Store!Loop(s)
<1> DEFINE all == Survivors(s, Len(s))
<1>1. Len(s) \in Nat /\ Store!KeptUpTo(s, Len(s)) \in Nat /\ MaxTickers \in Nat \ {0}
  BY Counts, LenProperties, FunctionsAssumption DEF Store!StoreAssumption
<1>2. Store!Clean(s)[Len(s)] = all
  BY <1>1, CleanIsSurvivors
<1>3. all \in Seq(Ticker) /\ Len(all) = Store!KeptUpTo(s, Len(s))
  BY <1>1, SurvivorsAre
<1>4. CASE Len(all) <= MaxTickers
  <2>1. Store!HealedLen(s) = Len(all) /\ Store!Loop(s) = all
    BY <1>1, <1>2, <1>3, <1>4 DEF Store!HealedLen, Store!Loop
  <2>2. Store!Healed(s) = all
    BY <1>3, <2>1 DEF Store!Healed, Survivors
  <2>. QED
    BY <2>1, <2>2
<1>5. CASE Len(all) > MaxTickers
  <2>1. Store!HealedLen(s) = MaxTickers /\ Store!Loop(s) = SubSeq(all, 1, MaxTickers)
    BY <1>1, <1>2, <1>3, <1>5 DEF Store!HealedLen, Store!Loop
  <2>2. /\ Store!Healed(s) = [k \in 1..MaxTickers |-> all[k]]
    <3>1. \A k \in 1..MaxTickers : k \in 1..Store!KeptUpTo(s, Len(s))
      BY <1>1, <1>3, <1>5
    <3>. QED
      BY <2>1, <3>1 DEF Store!Healed, Survivors
  <2>3. /\ SubSeq(all, 1, MaxTickers) \in Seq(Ticker)
        /\ Len(SubSeq(all, 1, MaxTickers)) = MaxTickers
        /\ \A k \in 1..MaxTickers : SubSeq(all, 1, MaxTickers)[k] = all[k]
    <3> HIDE DEF all
    <3>1. \A k \in 1..MaxTickers : all[k] \in Ticker
      BY <1>1, <1>3, <1>5
    <3>2. /\ SubSeq(all, 1, MaxTickers) \in Seq(Ticker)
          /\ Len(SubSeq(all, 1, MaxTickers)) = IF 1 <= MaxTickers THEN MaxTickers - 1 + 1 ELSE 0
          /\ \A k \in 1..(MaxTickers - 1 + 1) : SubSeq(all, 1, MaxTickers)[k] = all[1 + k - 1]
      BY <1>1, <3>1, SubSeqProperties
    <3>. QED
      BY <1>1, <3>2
  <2>4. SubSeq(all, 1, MaxTickers) = [k \in 1..MaxTickers |-> all[k]]
    <3> HIDE DEF all
    <3>. QED
      BY <2>3
  <2>. QED
    BY <2>1, <2>2, <2>4
<1>. QED
  BY <1>1, <1>3, <1>4, <1>5

-----------------------------------------------------------------------------
(* What filtering one ticker out has collected after the first p slots of a *)
(* list that holds it at place h only.                                      *)
Rest(l, h, p) == [k \in 1..(IF p < h THEN p ELSE p - 1) |-> IF k < h THEN l[k] ELSE l[k + 1]]

LEMMA RestGrows ==
    ASSUME NEW l \in Seq(Ticker), NEW h \in 1..Len(l), NEW p \in 1..Len(l)
    PROVE  Rest(l, h, p) = IF p = h THEN Rest(l, h, p - 1) ELSE Append(Rest(l, h, p - 1), l[p])
<1>0. Len(l) \in Nat /\ h \in Nat /\ p \in Nat /\ p - 1 \in Nat
  BY LenProperties
<1>1. CASE p = h
  <2>1. (IF p < h THEN p ELSE p - 1) = (IF p - 1 < h THEN p - 1 ELSE p - 1 - 1)
    BY <1>0, <1>1
  <2>. QED
    BY <1>1, <2>1 DEF Rest
<1>2. CASE p # h
  <2> DEFINE len == IF p - 1 < h THEN p - 1 ELSE p - 1 - 1
             before == Rest(l, h, p - 1)
             now == Rest(l, h, p)
  <2>1. len \in Nat /\ (IF p < h THEN p ELSE p - 1) = len + 1
    BY <1>0, <1>2
  <2>2. \A k \in 1..(len + 1) : (IF k < h THEN l[k] ELSE l[k + 1]) \in Ticker
    BY <1>0, <1>2
  <2>3. before \in [1..len -> Ticker] /\ now \in [1..(len + 1) -> Ticker]
    <3>1. \A k \in 1..len : k \in 1..(len + 1)
      BY <2>1
    <3>2. before = [k \in 1..len |-> IF k < h THEN l[k] ELSE l[k + 1]]
      BY DEF Rest
    <3>3. now = [k \in 1..(len + 1) |-> IF k < h THEN l[k] ELSE l[k + 1]]
      BY <2>1 DEF Rest
    <3> HIDE DEF len, before, now
    <3>. QED
      BY <2>2, <3>1, <3>2, <3>3
  <2>4. \A k \in 1..len : now[k] = before[k]
    <3>1. \A k \in 1..len : k \in 1..(len + 1)
      BY <2>1
    <3>. QED
      BY <2>1, <3>1 DEF Rest
  <2>5. now[len + 1] = l[p] /\ l[p] \in Ticker
    <3>1. now[len + 1] = IF len + 1 < h THEN l[len + 1] ELSE l[len + 1 + 1]
      BY <2>1 DEF Rest
    <3>2. IF len + 1 < h THEN len + 1 = p ELSE len + 1 + 1 = p
      BY <1>0, <1>2
    <3> HIDE DEF len, now
    <3>. QED
      BY <3>1, <3>2
  <2> HIDE DEF len, before, now
  <2>6. /\ before \in Seq(Ticker) /\ Len(before) = len
        /\ now \in Seq(Ticker) /\ Len(now) = len + 1
    BY <2>1, <2>3
  <2>7. /\ Append(before, l[p]) \in Seq(Ticker)
        /\ Len(Append(before, l[p])) = len + 1
        /\ \A k \in 1..len : Append(before, l[p])[k] = before[k]
        /\ Append(before, l[p])[len + 1] = l[p]
    BY <2>5, <2>6, AppendProperties
  <2>8. \A k \in 1..(len + 1) : now[k] = Append(before, l[p])[k]
    <3>1. \A k \in 1..(len + 1) : k \in 1..len \/ k = len + 1
      BY <2>1
    <3>. QED
      BY <2>4, <2>5, <2>7, <3>1
  <2>9. now = Append(before, l[p])
    BY <2>6, <2>7, <2>8, SeqEqual
  <2>. QED
    BY <1>2, <2>9 DEF before, now
<1>. QED
  BY <1>1, <1>2

(* Taking the one slot out is filtering the ticker out, the list being      *)
(* clean (Watchlist.remove).                                                *)
LEMMA RemovingIsFiltering ==
    ASSUME NEW l \in Store!WatchLists, NEW t, Store!Contains(l, t)
    PROVE  Store!Removed(l, t) = Store!Filtered(l, t)
<1>1. /\ l \in Seq(Ticker) /\ Len(l) \in Nat
      /\ \A k, m \in 1..Len(l) : l[k] = l[m] => k = m
  BY LenProperties DEF Store!WatchLists
<1>2. PICK h \in 1..Len(l) :
         /\ l[h] = t
         /\ Store!Removed(l, t) \in Seq(Ticker)
         /\ Len(Store!Removed(l, t)) = Len(l) - 1
         /\ \A k \in 1..(Len(l) - 1) :
               Store!Removed(l, t)[k] = IF k < h THEN l[k] ELSE l[k + 1]
  <2>1. l \in W!WatchLists /\ W!Contains(l, t)
    BY SameStore
  <2>. QED
    BY <2>1, W!RemovedSlots, SameStore, Idle
<1>3. \A p \in 1..Len(l) : l[p] = t <=> p = h
  BY <1>1, <1>2
<1> DEFINE round(f) == [p \in 0..Len(l) |-> IF p = 0 THEN <<>>
                                            ELSE IF l[p] = t THEN f[p - 1]
                                            ELSE Append(f[p - 1], l[p])]
           all == [p \in 0..Len(l) |-> Rest(l, h, p)]
           rest == CHOOSE f : f = round(f)
<1>4. Store!Filtered(l, t) = rest[Len(l)]
  BY DEF Store!Filtered
<1>5. Rest(l, h, 0) = <<>>
  <2>1. 1..(IF 0 < h THEN 0 ELSE 0 - 1) = {}
    BY <1>1
  <2>2. DOMAIN Rest(l, h, 0) = {}
    BY <2>1 DEF Rest
  <2>3. Rest(l, h, 0) = [k \in {} |-> IF k < h THEN l[k] ELSE l[k + 1]]
    BY <2>1 DEF Rest
  <2>. QED
    BY <2>3
<1>6. all = round(all)
  <2>1. ASSUME NEW p \in 0..Len(l) PROVE all[p] = round(all)[p]
    <3>1. CASE p = 0
      BY <1>1, <1>5, <3>1
    <3>2. CASE p # 0
      <4>1. p \in 1..Len(l) /\ p - 1 \in 0..Len(l)
        BY <1>1, <3>2
      <4>2. all[p - 1] = Rest(l, h, p - 1) /\ all[p] = Rest(l, h, p)
        BY <4>1
      <4>. QED
        BY <1>1, <1>3, <3>2, <4>1, <4>2, RestGrows
    <3>. QED
      BY <3>1, <3>2
  <2>. QED
    BY <2>1
<1>7. rest = round(rest)
  <2> HIDE DEF all, round
  <2>. QED
    BY <1>6
<1>8. \A p \in 0..Len(l) : rest[p] = IF p = 0 THEN <<>>
                                     ELSE IF l[p] = t THEN rest[p - 1]
                                     ELSE Append(rest[p - 1], l[p])
  <2> HIDE DEF rest
  <2>. QED
    BY <1>7
<1> HIDE DEF rest, all, round
<1> DEFINE differ == {p \in 0..Len(l) : rest[p] # Rest(l, h, p)}
<1>9. differ = {}
  <2> SUFFICES ASSUME differ # {} PROVE FALSE
    OBVIOUS
  <2>0. differ \in SUBSET Nat
    BY <1>1
  <2>1. PICK p \in differ : \A k \in differ : p <= k
    <3> HIDE DEF differ
    <3>. QED
      BY <2>0, FirstPosition
  <2>2. p # 0
    BY <1>1, <1>5, <1>8, <2>1
  <2>3. p \in 1..Len(l) /\ p - 1 \in 0..Len(l) /\ ~(p <= p - 1)
    BY <1>1, <2>1, <2>2
  <2>4. rest[p - 1] = Rest(l, h, p - 1)
    BY <2>1, <2>3
  <2>5. rest[p] = Rest(l, h, p)
    <3>1. p \in 0..Len(l) /\ p \in 1..Len(l)
      BY <2>1, <2>3
    <3>2. rest[p] = IF l[p] = t THEN rest[p - 1] ELSE Append(rest[p - 1], l[p])
      BY <1>8, <2>2, <3>1
    <3>3. Rest(l, h, p) = IF p = h THEN Rest(l, h, p - 1) ELSE Append(Rest(l, h, p - 1), l[p])
      BY <1>1, <3>1, RestGrows
    <3>. QED
      BY <1>3, <2>4, <3>1, <3>2, <3>3
  <2>. QED
    BY <2>1, <2>5
<1>10. rest[Len(l)] = Rest(l, h, Len(l))
  <2>1. Len(l) \in 0..Len(l) /\ Len(l) \notin differ
    BY <1>1, <1>9
  <2>. QED
    BY <2>1
<1>11. Rest(l, h, Len(l)) = [k \in 1..(Len(l) - 1) |-> IF k < h THEN l[k] ELSE l[k + 1]]
  <2>1. ~(Len(l) < h)
    BY <1>1
  <2>. QED
    BY <2>1 DEF Rest
<1>12. Store!Removed(l, t) = [k \in 1..(Len(l) - 1) |-> IF k < h THEN l[k] ELSE l[k + 1]]
  BY <1>2
<1>. QED
  BY <1>4, <1>10, <1>11, <1>12

StoreInv == array \in Seq(Entry)

(* A read of any array is a clean list, and of a clean list is that list.   *)
LEMMA ReadsAreClean ==
    /\ \A s \in Seq(Entry) : Store!Tickers(s) \in Store!WatchLists
    /\ \A l \in Store!WatchLists : l \in Seq(Entry) /\ Store!Tickers(l) = l
<1>1. ASSUME NEW s \in Seq(Entry) PROVE Store!Tickers(s) \in Store!WatchLists
  <2>1. s \in W!Raw
    BY DEF W!Raw
  <2>. QED
    BY <2>1, W!TickersIsClean, SameStore, Idle
<1>2. ASSUME NEW l \in Store!WatchLists PROVE l \in Seq(Entry) /\ Store!Tickers(l) = l
  <2>1. l \in W!WatchLists
    BY SameStore
  <2>2. l \in Seq(Entry) /\ W!Tickers(l) = l
    BY <2>1, W!CleanIsKept, W!TickersOfClean, SameStore, Idle
  <2>. QED
    BY <2>2, SameStore
<1>. QED
  BY <1>1, <1>2

(* What the bot stores is clean again, and is the list it read but for the  *)
(* one ticker.                                                              *)
LEMMA StoreStep ==
    ASSUME StoreInv, Store!Store
    PROVE  /\ array' \in Store!WatchLists
           /\ \E t \in Ticker :
                 \/ ~Store!Contains(Store!Tickers(array), t) /\ array' = Store!Tickers(array) \o <<t>>
                 \/ /\ Store!Contains(Store!Tickers(array), t)
                    /\ array' = Store!Filtered(Store!Tickers(array), t)
<1> DEFINE l == Store!Tickers(array)
<1>1. l \in Store!WatchLists /\ l \in W!WatchLists /\ l \in Seq(Ticker)
  BY ReadsAreClean, SameStore DEF StoreInv, Store!WatchLists
<1>2. PICK t \in Ticker : \/ /\ ~Store!Contains(l, t) /\ Len(l) < MaxTickers
                             /\ array' = Store!Added(l, t)
                          \/ Store!Contains(l, t) /\ array' = Store!Removed(l, t)
  BY DEF Store!Store
<1> HIDE DEF l
<1>3. CASE ~Store!Contains(l, t) /\ Len(l) < MaxTickers /\ array' = Store!Added(l, t)
  <2>1. W!Added(l, t) \in W!WatchLists
    <3>1. ~W!Contains(l, t)
      BY <1>3, SameStore
    <3>. QED
      BY <1>1, <1>3, <3>1, W!AddedIsClean, SameStore, Idle
  <2>2. Store!Added(l, t) = l \o <<t>>
    BY <1>1, AppendIsConcat DEF Store!Added
  <2>. QED
    BY <1>3, <2>1, <2>2, SameStore DEF l
<1>4. CASE Store!Contains(l, t) /\ array' = Store!Removed(l, t)
  <2>1. W!Removed(l, t) \in W!WatchLists
    <3>1. W!Contains(l, t)
      BY <1>4, SameStore
    <3>. QED
      BY <1>1, <3>1, W!RemovedIsClean, SameStore, Idle
  <2>2. Store!Removed(l, t) = Store!Filtered(l, t)
    BY <1>1, <1>4, RemovingIsFiltering
  <2>. QED
    BY <1>4, <2>1, <2>2, SameStore DEF l
<1>. QED
  BY <1>2, <1>3, <1>4

LEMMA StoreInvAlways == Store!Spec => []StoreInv
<1>1. Store!Init => StoreInv
  BY DEF Store!Init, StoreInv
<1>2. StoreInv /\ [Store!Next]_array => StoreInv'
  <2> SUFFICES ASSUME StoreInv, [Store!Next]_array PROVE StoreInv'
    OBVIOUS
  <2>1. CASE Store!Edit
    BY <2>1, AppendProperties DEF Store!Edit, StoreInv
  <2>2. CASE Store!Store
    BY <2>2, StoreStep, ReadsAreClean DEF StoreInv
  <2>. QED
    BY <2>1, <2>2 DEF Store!Next, StoreInv
<1>. QED
  BY <1>1, <1>2, PTL DEF Store!Spec

(* Healing is the loop of Watchlist.tickers whatever the owner left in the  *)
(* property and whatever the bot stored since.                              *)
THEOREM HealedIsTheLoopHolds == Store!Spec => []HealedIsTheLoop
<1>1. StoreInv => HealedIsTheLoop
  BY HealingIsTheLoop DEF StoreInv, HealedIsTheLoop, Store!HealedIsTheLoop
<1>. QED
  BY StoreInvAlways, <1>1, PTL

(* A write changes what everyone reads by its own ticker only, also when    *)
(* the array it read was dirty (Watchlist.add, Watchlist.remove).           *)
THEOREM StoreTouchesOneHolds == Store!Spec => StoreTouchesOne
<1>1. StoreInv /\ [Store!Next]_array =>
        [Store!Store => LET old == Store!Tickers(array)
                            new == Store!Tickers(array')
                        IN  \E t \in Ticker :
                               \/ ~Store!Contains(old, t) /\ new = old \o <<t>>
                               \/ Store!Contains(old, t) /\ new = Store!Filtered(old, t)]_array
  BY StoreStep, ReadsAreClean
<1>. QED
  BY StoreInvAlways, <1>1, PTL DEF Store!Spec, StoreTouchesOne, Store!StoreTouchesOne

-----------------------------------------------------------------------------
(* What holds at 0 and is handed on from each place to the next holds at    *)
(* every place.                                                             *)
LEMMA Climb ==
    ASSUME NEW n \in Nat, NEW T, 0 \in T,
           \A k \in 0..n : k # n /\ k \in T => k + 1 \in T
    PROVE  \A k \in 0..n : k \in T
<1> DEFINE missing == {k \in 0..n : k \notin T}
<1>1. CASE missing # {}
  <2>1. missing \in SUBSET Nat
    OBVIOUS
  <2>2. PICK k \in missing : \A m \in missing : k <= m
    <3> HIDE DEF missing
    <3>. QED
      BY <1>1, <2>1, FirstPosition
  <2>3. k # 0 /\ k \in 0..n
    BY <2>2
  <2>4. k - 1 \in 0..n /\ k - 1 # n /\ ~(k <= k - 1)
    BY <2>3
  <2>5. k - 1 \in T
    BY <2>2, <2>4
  <2>6. (k - 1) + 1 = k
    BY <2>3
  <2>. QED
    BY <2>2, <2>4, <2>5, <2>6
<1>. QED
  BY <1>1

(* Ten digits are room for n: what is left of n when its last m digits are  *)
(* cut off.                                                                 *)
Cut(n, m) == n \div 10^m

LEMMA Cuts ==
    ASSUME NEW n \in Nat, n < 10^10
    PROVE  /\ Cut(n, 0) = n
           /\ \A m \in 0..10 : Cut(n, m) \in Nat
           /\ \A m \in 0..9 : /\ Cut(n, m) % 10 \in 0..9
                              /\ Cut(n, m) = 10 * Cut(n, m + 1) + (Cut(n, m) % 10)
           /\ \A m \in 1..10 : n < 10^m => Cut(n, m) = 0
<1>1. /\ Cut(n, 0) = n /\ Cut(n, 1) = n \div 10 /\ Cut(n, 2) = n \div 100
      /\ Cut(n, 3) = n \div 1000 /\ Cut(n, 4) = n \div 10000 /\ Cut(n, 5) = n \div 100000
      /\ Cut(n, 6) = n \div 1000000 /\ Cut(n, 7) = n \div 10000000 /\ Cut(n, 8) = n \div 100000000
      /\ Cut(n, 9) = n \div 1000000000 /\ Cut(n, 10) = n \div 10000000000
  BY DEF Cut
<1>2. \A m \in 0..10 : Cut(n, m) \in Nat
  <2> SUFFICES ASSUME NEW m \in 0..10 PROVE Cut(n, m) \in Nat
    OBVIOUS
  <2>. QED
    BY <1>1
<1>3. ASSUME NEW m \in 0..9
      PROVE  /\ Cut(n, m) % 10 \in 0..9
             /\ Cut(n, m) = 10 * Cut(n, m + 1) + (Cut(n, m) % 10)
  <2>1. Cut(n, m) \in Nat /\ Cut(n, m + 1) = Cut(n, m) \div 10
    BY <1>1, <1>2
  <2>. QED
    BY <2>1
<1>4. ASSUME NEW m \in 1..10, n < 10^m PROVE Cut(n, m) = 0
  <2>1. CASE m = 1
    BY <1>1, <1>4, <2>1
  <2>2. CASE m = 2
    BY <1>1, <1>4, <2>2
  <2>3. CASE m = 3
    BY <1>1, <1>4, <2>3
  <2>4. CASE m = 4
    BY <1>1, <1>4, <2>4
  <2>5. CASE m = 5
    BY <1>1, <1>4, <2>5
  <2>6. CASE m = 6
    BY <1>1, <1>4, <2>6
  <2>7. CASE m = 7
    BY <1>1, <1>4, <2>7
  <2>8. CASE m = 8
    BY <1>1, <1>4, <2>8
  <2>9. CASE m = 9
    BY <1>1, <1>4, <2>9
  <2>10. CASE m = 10
    BY <1>1, <1>4, <2>10
  <2>. QED
    BY <2>1, <2>2, <2>3, <2>4, <2>5, <2>6, <2>7, <2>8, <2>9, <2>10
<1>. QED
  BY <1>1, <1>2, <1>3, <1>4

LEMMA Widths ==
    ASSUME NEW n \in Nat, n < 10^10
    PROVE  Line!Width(n) \in 1..10 /\ n < 10^Line!Width(n)
<1> DEFINE fits(w) == /\ w = 10 \/ n < 10^w
                      /\ \A v \in 1..(w - 1) : n >= 10^v
<1>1. \E w \in 1..10 : fits(w)
  OBVIOUS
<1>2. fits(Line!Width(n)) /\ Line!Width(n) \in 1..10
  BY <1>1 DEF Line!Width
<1>. QED
  BY <1>2
-----------------------------------------------------------------------------
(* The whole part of a price, of w digits: with its commas it has Room(w)   *)
(* characters.  Of r characters behind a place, every fourth is a comma,    *)
(* and Left(r) are digits.                                                  *)
Room(w) == w + ((w - 1) \div 3)
Left(r) == r - (r \div 4)

Chars == {"0", "1", "2", "3", "4", "5", "6", "7", "8", "9", ",", ".", "-"}

(* What Grouped has built when it has passed k of the digits: the end of    *)
(* the whole part is still to come.                                         *)
Passed(w, k) == IF k = 0 THEN 0 ELSE k + ((w - 1) \div 3) - ((w - k) \div 3)
Glyph(s, w, q) == IF (Room(w) - q) % 4 = 3 THEN "," ELSE s[w - Left(Room(w) - q)]
Built(s, w, k) == [q \in 1..Passed(w, k) |-> Glyph(s, w, q)]

LEMMA Rooms ==
    ASSUME NEW w \in 1..10
    PROVE  /\ Room(w) \in 1..13 /\ Passed(w, w) = Room(w) /\ Passed(w, 0) = 0
           /\ (Room(w) - 1) % 4 # 3
           /\ \A k \in 0..w : Passed(w, k) \in 0..Room(w)
           /\ \A k \in 1..w :
                 LET last == Passed(w, k) IN
                 /\ (Room(w) - last) % 4 # 3
                 /\ w - Left(Room(w) - last) = k
                 /\ k > 1 /\ (w - k + 1) % 3 = 0
                       => last = Passed(w, k - 1) + 2 /\ (Room(w) - (last - 1)) % 4 = 3
                 /\ ~(k > 1 /\ (w - k + 1) % 3 = 0) => last = Passed(w, k - 1) + 1
           /\ \A q \in 1..Room(w) : (Room(w) - q) % 4 # 3 => w - Left(Room(w) - q) \in 1..w
<1>1. /\ Room(w) \in 1..13 /\ Passed(w, w) = Room(w) /\ Passed(w, 0) = 0
      /\ (Room(w) - 1) % 4 # 3
  BY DEF Room, Passed
<1>2. \A k \in 0..w : Passed(w, k) \in 0..Room(w)
  BY DEF Room, Passed
<1>3. ASSUME NEW k \in 1..w
      PROVE  LET last == Passed(w, k) IN
                 /\ (Room(w) - last) % 4 # 3
                 /\ w - Left(Room(w) - last) = k
                 /\ k > 1 /\ (w - k + 1) % 3 = 0
                       => last = Passed(w, k - 1) + 2 /\ (Room(w) - (last - 1)) % 4 = 3
                 /\ ~(k > 1 /\ (w - k + 1) % 3 = 0) => last = Passed(w, k - 1) + 1
  BY DEF Room, Passed, Left
<1>4. \A q \in 1..Room(w) : (Room(w) - q) % 4 # 3 => w - Left(Room(w) - q) \in 1..w
  BY DEF Room, Left
<1>. QED
  BY <1>1, <1>2, <1>3, <1>4

LEMMA Appended ==
    ASSUME NEW before \in Seq(Chars), NEW now \in Seq(Chars), NEW c \in Chars,
           Len(now) = Len(before) + 1, now[Len(before) + 1] = c,
           \A q \in 1..Len(before) : now[q] = before[q]
    PROVE  now = Append(before, c)
<1>1. /\ Append(before, c) \in Seq(Chars) /\ Len(Append(before, c)) = Len(before) + 1
      /\ \A q \in 1..Len(before) : Append(before, c)[q] = before[q]
      /\ Append(before, c)[Len(before) + 1] = c
  BY AppendProperties
<1>2. \A q \in 1..Len(now) : now[q] = Append(before, c)[q]
  <2>1. Len(before) \in Nat
    BY LenProperties
  <2> SUFFICES ASSUME NEW q \in 1..Len(now) PROVE now[q] = Append(before, c)[q]
    OBVIOUS
  <2>2. q \in 1..Len(before) \/ q = Len(before) + 1
    BY <2>1
  <2>. QED
    BY <1>1, <2>2
<1>. QED
  BY <1>1, <1>2, SeqEqual

(* One more digit passed, with the comma before it if there is one.         *)
LEMMA Builds ==
    ASSUME NEW s \in Seq(Chars), NEW w \in 1..10, Len(s) = w
    PROVE  /\ \A k \in 0..w : Built(s, w, k) \in Seq(Chars) /\ Len(Built(s, w, k)) = Passed(w, k)
           /\ \A k \in 1..w :
                 Built(s, w, k) = IF Line!CommaBefore(s, k)
                                  THEN Append(Append(Built(s, w, k - 1), ","), s[k])
                                  ELSE Append(Built(s, w, k - 1), s[k])
<1>1. \A k \in 0..w : Built(s, w, k) \in Seq(Chars) /\ Len(Built(s, w, k)) = Passed(w, k)
  <2> SUFFICES ASSUME NEW k \in 0..w
               PROVE  Built(s, w, k) \in Seq(Chars) /\ Len(Built(s, w, k)) = Passed(w, k)
    OBVIOUS
  <2>1. Passed(w, k) \in 0..Room(w) /\ Room(w) \in 1..13
    BY Rooms
  <2>2. ASSUME NEW q \in 1..Passed(w, k) PROVE Glyph(s, w, q) \in Chars
    <3>1. q \in 1..Room(w)
      BY <2>1
    <3>2. CASE (Room(w) - q) % 4 = 3
      BY <3>2 DEF Glyph, Chars
    <3>3. CASE (Room(w) - q) % 4 # 3
      <4>1. w - Left(Room(w) - q) \in 1..Len(s)
        BY <3>1, <3>3, Rooms
      <4>2. s[w - Left(Room(w) - q)] \in Chars
        BY <4>1, ElementOfSeq
      <4>. QED
        BY <3>3, <4>2 DEF Glyph
    <3>. QED
      BY <3>2, <3>3
  <2>. QED
    BY <2>1, <2>2 DEF Built
<1>2. ASSUME NEW k \in 1..w
      PROVE  Built(s, w, k) = IF Line!CommaBefore(s, k)
                              THEN Append(Append(Built(s, w, k - 1), ","), s[k])
                              ELSE Append(Built(s, w, k - 1), s[k])
  <2> DEFINE before == Built(s, w, k - 1)
             now == Built(s, w, k)
             lo == Passed(w, k - 1)
             hi == Passed(w, k)
  <2>1. k - 1 \in 0..w /\ k \in 0..w /\ k \in 1..Len(s)
    OBVIOUS
  <2>2. lo \in Nat /\ hi \in Nat
    <3>1. lo \in 0..Room(w) /\ hi \in 0..Room(w) /\ Room(w) \in 1..13
      BY <2>1, Rooms
    <3>. QED
      BY <3>1
  <2>3. /\ before \in Seq(Chars) /\ Len(before) = lo
        /\ now \in Seq(Chars) /\ Len(now) = hi
    BY <1>1, <2>1
  <2>4. s[k] \in Chars /\ "," \in Chars
    BY <2>1, ElementOfSeq DEF Chars
  <2>5. /\ \A q \in 1..lo : before[q] = Glyph(s, w, q)
        /\ \A q \in 1..hi : now[q] = Glyph(s, w, q)
    BY DEF Built
  <2>6. /\ Glyph(s, w, hi) = s[k]
        /\ Line!CommaBefore(s, k) => Glyph(s, w, hi - 1) = ","
    BY Rooms DEF Glyph, Line!CommaBefore
  <2>7. IF Line!CommaBefore(s, k) THEN hi = lo + 2 ELSE hi = lo + 1
    BY Rooms DEF Line!CommaBefore
  <2> HIDE DEF before, now, lo, hi
  <2>8. CASE Line!CommaBefore(s, k)
    <3> DEFINE mid == [q \in 1..(lo + 1) |-> Glyph(s, w, q)]
    <3>1. hi - 1 = lo + 1 /\ hi = (lo + 1) + 1 /\ lo + 1 \in 1..hi /\ hi \in 1..hi
      BY <2>2, <2>7, <2>8
    <3>2. \A q \in 1..(lo + 1) : q \in 1..hi
      BY <2>2, <2>7, <2>8
    <3>3. \A q \in 1..(lo + 1) : Glyph(s, w, q) \in Chars
      BY <2>3, <2>5, <3>2, ElementOfSeq
    <3>4. mid \in Seq(Chars) /\ Len(mid) = lo + 1
      BY <2>2, <3>3
    <3>5. mid = Append(before, ",")
      <4>1. mid[lo + 1] = ","
        <5>1. lo + 1 \in 1..(lo + 1)
          BY <2>2
        <5>2. mid[lo + 1] = Glyph(s, w, lo + 1)
          BY <5>1
        <5>3. Glyph(s, w, hi - 1) = ","
          BY <2>6, <2>8
        <5>. QED
          BY <3>1, <5>2, <5>3
      <4>2. \A q \in 1..lo : mid[q] = before[q]
        <5>1. \A q \in 1..lo : q \in 1..(lo + 1)
          BY <2>2
        <5>. QED
          BY <2>5, <5>1
      <4> HIDE DEF mid
      <4>. QED
        BY <2>3, <2>4, <3>4, <4>1, <4>2, Appended
    <3>6. now = Append(mid, s[k])
      <4>1. \A q \in 1..(lo + 1) : now[q] = mid[q]
        BY <2>5, <3>2
      <4> HIDE DEF mid
      <4>2. now[Len(mid) + 1] = s[k]
        BY <2>5, <2>6, <3>1, <3>4
      <4>3. Len(now) = Len(mid) + 1
        BY <2>3, <3>1, <3>4
      <4>. QED
        <5>1. \A q \in 1..Len(mid) : now[q] = mid[q]
          BY <3>4, <4>1
        <5>. QED
          BY <2>3, <2>4, <3>4, <4>2, <4>3, <5>1, Appended
    <3>. QED
      BY <2>8, <3>5, <3>6 DEF before, now
  <2>9. CASE ~Line!CommaBefore(s, k)
    <3>1. hi = lo + 1 /\ hi \in 1..hi /\ \A q \in 1..lo : q \in 1..hi
      BY <2>2, <2>7, <2>9
    <3>2. \A q \in 1..lo : now[q] = before[q]
      BY <2>5, <3>1
    <3>3. now[Len(before) + 1] = s[k] /\ Len(now) = Len(before) + 1
      BY <2>3, <2>5, <2>6, <3>1
    <3>4. now = Append(before, s[k])
      BY <2>3, <2>4, <3>2, <3>3, Appended
    <3>. QED
      BY <2>9, <3>4 DEF before, now
  <2>. QED
    BY <2>8, <2>9
<1>. QED
  BY <1>1, <1>2

(* Grouped, for up to ten digits: the loop over the digits in closed form.  *)
LEMMA GroupedIs ==
    ASSUME NEW s \in Seq(Chars), NEW w \in 1..10, Len(s) = w
    PROVE  Line!Grouped(s) = Built(s, w, w)
<1> DEFINE round(f) == [k \in 0..Len(s) |->
              IF k = 0 THEN <<>>
              ELSE IF Line!CommaBefore(s, k) THEN Append(Append(f[k - 1], ","), s[k])
              ELSE Append(f[k - 1], s[k])]
           all == [k \in 0..Len(s) |-> Built(s, w, k)]
           loop == CHOOSE f : f = round(f)
<1>1. Built(s, w, 0) = <<>>
  <2>1. 0 \in 0..w
    OBVIOUS
  <2>2. Built(s, w, 0) \in Seq(Chars) /\ Len(Built(s, w, 0)) = 0
    BY <2>1, Builds, Rooms
  <2>. QED
    BY <2>2, EmptySeq
<1>2. \A k \in 1..w : Built(s, w, k) = IF Line!CommaBefore(s, k)
                                       THEN Append(Append(Built(s, w, k - 1), ","), s[k])
                                       ELSE Append(Built(s, w, k - 1), s[k])
  BY Builds
<1>3. all = round(all)
  <2>1. ASSUME NEW k \in 0..Len(s) PROVE all[k] = round(all)[k]
    <3>1. CASE k = 0
      BY <1>1, <3>1
    <3>2. CASE k # 0
      <4>1. k \in 1..w /\ k - 1 \in 0..Len(s)
        BY <3>2
      <4>2. all[k - 1] = Built(s, w, k - 1) /\ all[k] = Built(s, w, k)
        BY <4>1
      <4>. QED
        BY <1>2, <3>2, <4>1, <4>2
    <3>. QED
      BY <3>1, <3>2
  <2>. QED
    BY <2>1
<1>4. loop = round(loop)
  <2> HIDE DEF all, round
  <2>. QED
    BY <1>3
<1>5. \A k \in 0..w : loop[k] = IF k = 0 THEN <<>>
                               ELSE IF Line!CommaBefore(s, k)
                                    THEN Append(Append(loop[k - 1], ","), s[k])
                               ELSE Append(loop[k - 1], s[k])
  <2> HIDE DEF loop
  <2>. QED
    BY <1>4
<1> HIDE DEF loop
<1> DEFINE same == {k \in 0..w : loop[k] = Built(s, w, k)}
<1>6. \A k \in 0..w : k \in same
  <2>1. 0 \in same
    <3>1. 0 \in 0..w
      OBVIOUS
    <3>. QED
      BY <1>1, <1>5, <3>1
  <2>2. ASSUME NEW k \in 0..w, k # w, k \in same PROVE k + 1 \in same
    <3>1. k + 1 \in 0..w /\ k + 1 \in 1..w /\ k + 1 # 0 /\ (k + 1) - 1 = k
      BY <2>2
    <3>. QED
      BY <1>2, <1>5, <2>2, <3>1
  <2>3. w \in Nat
    OBVIOUS
  <2> HIDE DEF same
  <2>. QED
    BY <2>1, <2>2, <2>3, Climb
<1>7. Line!Grouped(s) = loop[w]
  BY DEF Line!Grouped, loop
<1>. QED
  BY <1>6, <1>7

(* A digit is read as what it stands for, and nothing else is a digit.      *)
Took(v, c) == IF \E k \in 1..10 : Line!Digit[k] = c
              THEN 10 * v + (CHOOSE k \in 1..10 : Line!Digit[k] = c) - 1
              ELSE v

LEMMA DigitsAndMarks ==
    /\ \A h \in 0..9 : /\ Line!Digit[h + 1] \in Chars \ {",", ".", "-"}
                       /\ \A v \in Int : Took(v, Line!Digit[h + 1]) = 10 * v + h
    /\ \A v : \A c \in {",", ".", "-"} : Took(v, c) = v
<1>1. /\ Line!Digit[1] = "0" /\ Line!Digit[2] = "1" /\ Line!Digit[3] = "2" /\ Line!Digit[4] = "3"
      /\ Line!Digit[5] = "4" /\ Line!Digit[6] = "5" /\ Line!Digit[7] = "6" /\ Line!Digit[8] = "7"
      /\ Line!Digit[9] = "8" /\ Line!Digit[10] = "9"
  BY DEF Line!Digit
<1>2. ASSUME NEW k \in 1..10
       PROVE  Line!Digit[k] \in {"0", "1", "2", "3", "4", "5", "6", "7", "8", "9"}
  <2>1. \/ k = 1 \/ k = 2 \/ k = 3 \/ k = 4 \/ k = 5
        \/ k = 6 \/ k = 7 \/ k = 8 \/ k = 9 \/ k = 10
    OBVIOUS
  <2>. QED
    BY <1>1, <2>1
<1>3. ASSUME NEW h \in 0..9
      PROVE  /\ Line!Digit[h + 1] \in Chars \ {",", ".", "-"}
             /\ \A k \in 1..10 : Line!Digit[k] = Line!Digit[h + 1] => k = h + 1
  <2>1. h + 1 \in 1..10
    OBVIOUS
  <2>2. Line!Digit[h + 1] \in Chars \ {",", ".", "-"}
    BY <1>2, <2>1 DEF Chars
  <2>3. ASSUME NEW k \in 1..10
        PROVE  /\ Line!Digit[k] = "0" <=> k = 1
               /\ Line!Digit[k] = "1" <=> k = 2
               /\ Line!Digit[k] = "2" <=> k = 3
               /\ Line!Digit[k] = "3" <=> k = 4
               /\ Line!Digit[k] = "4" <=> k = 5
               /\ Line!Digit[k] = "5" <=> k = 6
               /\ Line!Digit[k] = "6" <=> k = 7
               /\ Line!Digit[k] = "7" <=> k = 8
               /\ Line!Digit[k] = "8" <=> k = 9
               /\ Line!Digit[k] = "9" <=> k = 10
    <3>1. \/ k = 1 \/ k = 2 \/ k = 3 \/ k = 4 \/ k = 5
          \/ k = 6 \/ k = 7 \/ k = 8 \/ k = 9 \/ k = 10
      OBVIOUS
    <3>. QED
      BY <1>1, <3>1
  <2>4. Line!Digit[h + 1] \in {"0", "1", "2", "3", "4", "5", "6", "7", "8", "9"}
    BY <1>2, <2>1
  <2>5. ASSUME NEW k \in 1..10, Line!Digit[k] = Line!Digit[h + 1] PROVE k = h + 1
    BY <2>1, <2>3, <2>4, <2>5
  <2>. QED
    BY <2>2, <2>5
<1>4. ASSUME NEW h \in 0..9, NEW v \in Int
      PROVE  Took(v, Line!Digit[h + 1]) = 10 * v + h
  <2>1. h + 1 \in 1..10
    OBVIOUS
  <2>2. (CHOOSE k \in 1..10 : Line!Digit[k] = Line!Digit[h + 1]) = h + 1
    BY <1>3, <2>1
  <2>3. Took(v, Line!Digit[h + 1]) = 10 * v + (h + 1) - 1
    BY <2>1, <2>2 DEF Took
  <2>. QED
    BY <2>3
<1>5. ASSUME NEW c \in {",", ".", "-"}, NEW v PROVE Took(v, c) = v
  <2>1. \A k \in 1..10 : Line!Digit[k] # c
    BY <1>2
  <2>. QED
    BY <2>1 DEF Took
<1>. QED
  BY <1>3, <1>4, <1>5

LEMMA DigitRead ==
    ASSUME NEW h \in 0..9, NEW v \in Int
    PROVE  Line!Digit[h + 1] \in Chars /\ Took(v, Line!Digit[h + 1]) = 10 * v + h
BY DigitsAndMarks

LEMMA MarkRead ==
    ASSUME NEW c \in {",", ".", "-"}, NEW v
    PROVE  Took(v, c) = v
BY DigitsAndMarks

(* A whole number in digits.                                                *)
LEMMA DigitsAre ==
    ASSUME NEW n \in Nat, n < 10^10, NEW w \in 1..10
    PROVE  /\ Line!Padded(n, w) \in Seq(Chars) /\ Len(Line!Padded(n, w)) = w
           /\ \A k \in 1..w : /\ Cut(n, w - k) % 10 \in 0..9
                              /\ Line!Padded(n, w)[k] = Line!Digit[(Cut(n, w - k) % 10) + 1]
<1>1. ASSUME NEW k \in 1..w
      PROVE  /\ Cut(n, w - k) % 10 \in 0..9
             /\ Line!Padded(n, w)[k] = Line!Digit[(Cut(n, w - k) % 10) + 1]
             /\ Line!Padded(n, w)[k] \in Chars
  <2>1. w - k \in 0..9
    OBVIOUS
  <2>2. Cut(n, w - k) % 10 \in 0..9
    BY <2>1, Cuts
  <2>3. Line!Padded(n, w)[k] = Line!Digit[(Cut(n, w - k) % 10) + 1]
    BY DEF Line!Padded, Cut
  <2>4. PICK h \in 0..9 : h = Cut(n, w - k) % 10
    BY <2>2
  <2>5. Line!Digit[h + 1] \in Chars
    BY DigitsAndMarks
  <2>. QED
    BY <2>2, <2>3, <2>4, <2>5
<1>2. Line!Padded(n, w) = [k \in 1..w |-> Line!Padded(n, w)[k]]
  BY DEF Line!Padded
<1>. QED
  BY <1>1, <1>2

-----------------------------------------------------------------------------
(* How a price looks: g signs, the m of w digits in its whole part with the *)
(* commas, and e characters behind it, a point and the two digits of f or   *)
(* none.                                                                    *)
Looks(x, g, m, w, e, f) ==
    /\ g \in {0, 1} /\ m \in Nat /\ m < 10^10 /\ w \in 1..10 /\ Cut(m, w) = 0
    /\ e \in {0, 3} /\ f \in 0..99
    /\ x \in Seq(Chars) /\ Len(x) = g + Room(w) + e
    /\ g = 1 => x[1] = "-"
    /\ \A q \in 1..Room(w) :
          x[g + q] = IF (Room(w) - q) % 4 = 3 THEN ","
                     ELSE Line!Digit[(Cut(m, Left(Room(w) - q)) % 10) + 1]
    /\ e = 3 => /\ x[g + Room(w) + 1] = "."
                /\ x[g + Room(w) + 2] = Line!Digit[(f \div 10) + 1]
                /\ x[g + Room(w) + 3] = Line!Digit[(f % 10) + 1]

LEMMA WholeLooks ==
    ASSUME NEW m \in Nat, m < 10^10, NEW w \in 1..10
    PROVE  LET whole == Line!Grouped(Line!Padded(m, w))
           IN  /\ whole \in Seq(Chars) /\ Len(whole) = Room(w)
               /\ \A q \in 1..Room(w) :
                     whole[q] = IF (Room(w) - q) % 4 = 3 THEN ","
                                ELSE Line!Digit[(Cut(m, Left(Room(w) - q)) % 10) + 1]
<1> DEFINE s == Line!Padded(m, w)
<1>1. s \in Seq(Chars) /\ Len(s) = w
  BY DigitsAre
<1>2. Passed(w, w) = Room(w) /\ Room(w) \in 1..13
  BY Rooms
<1>3. /\ Built(s, w, w) \in Seq(Chars) /\ Len(Built(s, w, w)) = Room(w)
      /\ Line!Grouped(s) = Built(s, w, w)
  <2> HIDE DEF s
  <2>1. w \in 0..w
    OBVIOUS
  <2>. QED
    BY <1>1, <1>2, <2>1, Builds, GroupedIs
<1>4. ASSUME NEW q \in 1..Room(w)
      PROVE  Built(s, w, w)[q] = IF (Room(w) - q) % 4 = 3 THEN ","
                                 ELSE Line!Digit[(Cut(m, Left(Room(w) - q)) % 10) + 1]
  <2>1. Built(s, w, w)[q] = Glyph(s, w, q)
    BY <1>2 DEF Built
  <2>2. CASE (Room(w) - q) % 4 = 3
    BY <2>1, <2>2 DEF Glyph
  <2>3. CASE (Room(w) - q) % 4 # 3
    <3>1. w - Left(Room(w) - q) \in 1..w
      BY <2>3, Rooms
    <3>2. PICK k \in 1..w : k = w - Left(Room(w) - q)
      BY <3>1
    <3>3. Left(Room(w) - q) \in Int
      BY <1>2 DEF Left
    <3>4. w - k = Left(Room(w) - q)
      BY <3>2, <3>3
    <3>5. s[k] = Line!Digit[(Cut(m, w - k) % 10) + 1]
      BY DigitsAre
    <3>. QED
      BY <2>1, <2>3, <3>2, <3>4, <3>5 DEF Glyph
  <2>. QED
    BY <2>2, <2>3
<1>. QED
  BY <1>3, <1>4

LEMMA CentsLook ==
    ASSUME NEW f \in 0..99
    PROVE  LET cents == <<".">> \o Line!Padded(f, 2)
           IN  /\ cents \in Seq(Chars) /\ Len(cents) = 3
               /\ cents[1] = "."
               /\ cents[2] = Line!Digit[(f \div 10) + 1]
               /\ cents[3] = Line!Digit[(f % 10) + 1]
<1>1. /\ Line!Padded(f, 2) \in Seq(Chars) /\ Len(Line!Padded(f, 2)) = 2
      /\ Line!Padded(f, 2)[1] = Line!Digit[(Cut(f, 1) % 10) + 1]
      /\ Line!Padded(f, 2)[2] = Line!Digit[(Cut(f, 0) % 10) + 1]
  <2>1. f \in Nat /\ f < 10^10 /\ 2 - 1 = 1 /\ 2 - 2 = 0 /\ 2 \in 1..10 /\ 1 \in 1..2 /\ 2 \in 1..2
    OBVIOUS
  <2>2. /\ Line!Padded(f, 2) \in Seq(Chars) /\ Len(Line!Padded(f, 2)) = 2
        /\ \A k \in 1..2 : Line!Padded(f, 2)[k] = Line!Digit[(Cut(f, 2 - k) % 10) + 1]
    BY <2>1, DigitsAre
  <2>3. /\ Line!Padded(f, 2)[1] = Line!Digit[(Cut(f, 2 - 1) % 10) + 1]
        /\ Line!Padded(f, 2)[2] = Line!Digit[(Cut(f, 2 - 2) % 10) + 1]
    BY <2>1, <2>2
  <2>. QED
    BY <2>1, <2>2, <2>3
<1>2. Cut(f, 0) % 10 = f % 10 /\ Cut(f, 1) % 10 = f \div 10
  BY DEF Cut
<1>3. <<".">> \in Seq(Chars) /\ Len(<<".">>) = 1 /\ <<".">>[1] = "."
  BY DEF Chars
<1> DEFINE t == <<".">> \o Line!Padded(f, 2)
<1>4. /\ t \in Seq(Chars) /\ Len(t) = 1 + 2
      /\ \A k \in 1..(1 + 2) : t[k] = IF k <= 1 THEN <<".">>[k] ELSE Line!Padded(f, 2)[k - 1]
  BY <1>1, <1>3, ConcatProperties
<1> HIDE DEF t
<1>5. t[1] = "." /\ t[2] = Line!Padded(f, 2)[1] /\ t[3] = Line!Padded(f, 2)[2]
  BY <1>3, <1>4
<1>. QED
  BY <1>1, <1>2, <1>4, <1>5 DEF t

(* Three pieces of text one behind the other.                               *)
LEMMA ThreePieces ==
    ASSUME NEW head \in Seq(Chars), NEW middle \in Seq(Chars), NEW tail \in Seq(Chars)
    PROVE  LET x == head \o middle \o tail
               g == Len(head)
               room == Len(middle)
               e == Len(tail)
           IN  g \in {0, 1} /\ e \in {0, 3} =>
                 /\ x \in Seq(Chars) /\ Len(x) = g + room + e
                 /\ g = 1 => x[1] = head[1]
                 /\ \A q \in 1..room : x[g + q] = middle[q]
                 /\ e = 3 => /\ x[g + room + 1] = tail[1]
                             /\ x[g + room + 2] = tail[2]
                             /\ x[g + room + 3] = tail[3]
<1> SUFFICES ASSUME NEW g \in {0, 1}, NEW room \in Nat, NEW e \in {0, 3},
                    Len(head) = g, Len(middle) = room, Len(tail) = e
             PROVE  LET x == head \o middle \o tail
                    IN  /\ x \in Seq(Chars) /\ Len(x) = g + room + e
                        /\ g = 1 => x[1] = head[1]
                        /\ \A q \in 1..room : x[g + q] = middle[q]
                        /\ e = 3 => /\ x[g + room + 1] = tail[1]
                                    /\ x[g + room + 2] = tail[2]
                                    /\ x[g + room + 3] = tail[3]
  <2>1. Len(middle) \in Nat
    BY LenProperties
  <2>. QED
    BY <2>1
<1> DEFINE y == head \o middle
           x == y \o tail
<1>1. /\ y \in Seq(Chars) /\ Len(y) = g + room
      /\ \A k \in 1..(g + room) : y[k] = IF k <= g THEN head[k] ELSE middle[k - g]
  BY ConcatProperties
<1>2. /\ x \in Seq(Chars) /\ Len(x) = g + room + e
      /\ \A k \in 1..(g + room + e) : x[k] = IF k <= g + room THEN y[k] ELSE tail[k - (g + room)]
  <2> HIDE DEF y
  <2>. QED
    BY <1>1, ConcatProperties
<1> HIDE DEF x, y
<1>3. g = 1 => x[1] = head[1]
  <2>1. g = 1 => 1 \in 1..(g + room) /\ 1 \in 1..(g + room + e) /\ 1 <= g /\ 1 <= g + room
    OBVIOUS
  <2>. QED
    BY <1>1, <1>2, <2>1
<1>4. ASSUME NEW q \in 1..room PROVE x[g + q] = middle[q]
  <2>1. /\ g + q \in 1..(g + room) /\ g + q \in 1..(g + room + e)
        /\ ~(g + q <= g) /\ g + q <= g + room /\ (g + q) - g = q
    OBVIOUS
  <2>. QED
    BY <1>1, <1>2, <2>1
<1>5. ASSUME e = 3, NEW k \in 1..3 PROVE x[g + room + k] = tail[k]
  <2>1. /\ g + room + k \in 1..(g + room + e)
        /\ ~(g + room + k <= g + room) /\ (g + room + k) - (g + room) = k
    BY <1>5
  <2>. QED
    BY <1>2, <2>1
<1>6. e = 3 => /\ x[g + room + 1] = tail[1]
               /\ x[g + room + 2] = tail[2]
               /\ x[g + room + 3] = tail[3]
  <2>1. 1 \in 1..3 /\ 2 \in 1..3 /\ 3 \in 1..3
    OBVIOUS
  <2>. QED
    BY <1>5, <2>1
<1>. QED
  BY <1>2, <1>3, <1>4, <1>6 DEF x, y

LEMMA MoneyLooks ==
    ASSUME NEW p, NEW d, NEW n, p \in Int, d \in {0, 2}, n \in Nat /\ n \div 10^d < 10^10
    PROVE  Looks(Line!Money(p, d, n), IF p < 0 THEN 1 ELSE 0, n \div 10^d,
                 Line!Width(n \div 10^d), IF d = 0 THEN 0 ELSE 3, n % 10^d)
<1>1. n \div 10^d \in Nat /\ n % 10^d \in 0..99
  <2>1. CASE d = 0
    BY <2>1
  <2>2. CASE d = 2
    BY <2>2
  <2>. QED
    BY <2>1, <2>2
<1>2. PICK m \in Nat : m = n \div 10^d
  BY <1>1
<1>3. PICK f \in 0..99 : f = n % 10^d
  BY <1>1
<1>4. PICK w \in 1..10 : w = Line!Width(m)
  BY <1>2, Widths
<1>5. PICK g \in {0, 1} : g = IF p < 0 THEN 1 ELSE 0
  OBVIOUS
<1>6. PICK e \in {0, 3} : e = IF d = 0 THEN 0 ELSE 3
  OBVIOUS
<1> DEFINE whole == Line!Grouped(Line!Padded(m, w))
           sign == IF p < 0 THEN <<"-">> ELSE <<>>
           fraction == IF d = 0 THEN <<>> ELSE <<".">> \o Line!Padded(f, d)
           x == sign \o whole \o fraction
<1>7. Line!Money(p, d, n) = x
  BY <1>2, <1>3, <1>4 DEF Line!Money, Line!Digits
<1>8. /\ whole \in Seq(Chars) /\ Len(whole) = Room(w) /\ Room(w) \in 1..13
      /\ \A q \in 1..Room(w) :
            whole[q] = IF (Room(w) - q) % 4 = 3 THEN ","
                       ELSE Line!Digit[(Cut(m, Left(Room(w) - q)) % 10) + 1]
  BY <1>2, WholeLooks, Rooms
<1>9. sign \in Seq(Chars) /\ Len(sign) = g /\ (g = 1 => sign[1] = "-")
  <2>1. "-" \in Chars
    BY DEF Chars
  <2>2. CASE p < 0
    BY <1>5, <2>1, <2>2
  <2>3. CASE ~(p < 0)
    BY <1>5, <2>3
  <2>. QED
    BY <2>2, <2>3
<1>10. /\ fraction \in Seq(Chars) /\ Len(fraction) = e
       /\ e = 3 => /\ fraction[1] = "."
                   /\ fraction[2] = Line!Digit[(f \div 10) + 1]
                   /\ fraction[3] = Line!Digit[(f % 10) + 1]
  <2>1. CASE d = 0
    BY <1>6, <2>1
  <2>2. CASE d = 2
    <3>1. fraction = <<".">> \o Line!Padded(f, 2)
      BY <2>2
    <3>. QED
      BY <1>6, <2>2, <3>1, CentsLook
  <2>. QED
    BY <2>1, <2>2
<1> HIDE DEF whole, sign, fraction
<1>11. /\ x \in Seq(Chars) /\ Len(x) = g + Room(w) + e
       /\ g = 1 => x[1] = sign[1]
       /\ \A q \in 1..Room(w) : x[g + q] = whole[q]
       /\ e = 3 => /\ x[g + Room(w) + 1] = fraction[1]
                   /\ x[g + Room(w) + 2] = fraction[2]
                   /\ x[g + Room(w) + 3] = fraction[3]
  <2>1. PICK room \in 1..13 : room = Room(w)
    BY <1>8
  <2>2. Len(whole) = room /\ Len(sign) = g /\ Len(fraction) = e
    BY <1>8, <1>9, <1>10, <2>1
  <2>3. whole \in Seq(Chars) /\ sign \in Seq(Chars) /\ fraction \in Seq(Chars)
    BY <1>8, <1>9, <1>10
  <2>4. /\ x \in Seq(Chars) /\ Len(x) = g + room + e
        /\ g = 1 => x[1] = sign[1]
        /\ \A q \in 1..room : x[g + q] = whole[q]
        /\ e = 3 => /\ x[g + room + 1] = fraction[1]
                    /\ x[g + room + 2] = fraction[2]
                    /\ x[g + room + 3] = fraction[3]
    <3>1. Len(sign) \in {0, 1} /\ Len(fraction) \in {0, 3}
      BY <2>2
    <3>2. /\ x \in Seq(Chars) /\ Len(x) = Len(sign) + Len(whole) + Len(fraction)
          /\ Len(sign) = 1 => x[1] = sign[1]
          /\ \A q \in 1..Len(whole) : x[Len(sign) + q] = whole[q]
          /\ Len(fraction) = 3 => /\ x[Len(sign) + Len(whole) + 1] = fraction[1]
                                  /\ x[Len(sign) + Len(whole) + 2] = fraction[2]
                                  /\ x[Len(sign) + Len(whole) + 3] = fraction[3]
      BY <2>3, <3>1, ThreePieces
    <3> HIDE DEF x
    <3>. QED
      BY <2>2, <3>2
  <2>. QED
    BY <2>1, <2>4
<1> HIDE DEF x
<1>12. Looks(x, g, m, w, e, f)
  <2>1. m < 10^10 /\ Cut(m, w) = 0
    BY <1>2, <1>4, Widths, Cuts
  <2>2. g = 1 => x[1] = "-"
    BY <1>9, <1>11
  <2>3. \A q \in 1..Room(w) :
           x[g + q] = IF (Room(w) - q) % 4 = 3 THEN ","
                      ELSE Line!Digit[(Cut(m, Left(Room(w) - q)) % 10) + 1]
    BY <1>8, <1>11
  <2>4. e = 3 => /\ x[g + Room(w) + 1] = "."
                 /\ x[g + Room(w) + 2] = Line!Digit[(f \div 10) + 1]
                 /\ x[g + Room(w) + 3] = Line!Digit[(f % 10) + 1]
    BY <1>10, <1>11
  <2>5. x \in Seq(Chars) /\ Len(x) = g + Room(w) + e
    BY <1>11
  <2>. QED
    BY <2>1, <2>2, <2>3, <2>4, <2>5 DEF Looks
<1>. QED
  BY <1>2, <1>3, <1>4, <1>5, <1>6, <1>7, <1>12

LEMMA Lefts ==
    /\ \A w \in 1..10 : Left(Room(w)) = w
    /\ Left(0) = 0
    /\ \A r \in 0..12 : /\ Left(r) \in 0..9
                        /\ Left(r + 1) = IF r % 4 = 3 THEN Left(r) ELSE Left(r) + 1
<1>1. \A w \in 1..10 : Left(Room(w)) = w
  BY DEF Left, Room
<1>2. Left(0) = 0
  BY DEF Left
<1>3. \A r \in 0..12 : Left(r) \in 0..9
  BY DEF Left
<1>4. \A r \in 0..12 : Left(r + 1) = IF r % 4 = 3 THEN Left(r) ELSE Left(r) + 1
  BY DEF Left
<1>. QED
  BY <1>1, <1>2, <1>3, <1>4

(* What a reader has of a price after its first k characters.               *)
Upto(k, g, m, room, f) ==
    IF k <= g THEN 0
    ELSE IF k <= g + room THEN Cut(m, Left(g + room - k))
    ELSE IF k = g + room + 1 THEN m
    ELSE IF k = g + room + 2 THEN 10 * m + (f \div 10)
    ELSE 100 * m + f

LEMMA UptoNext ==
    ASSUME NEW x, NEW g, NEW m, NEW w, NEW e, NEW f, Looks(x, g, m, w, e, f)
    PROVE  \A k \in 1..(g + Room(w) + e) :
              Upto(k, g, m, Room(w), f) = Took(Upto(k - 1, g, m, Room(w), f), x[k])
<1>. /\ g \in {0, 1} /\ m \in Nat /\ m < 10^10 /\ w \in 1..10 /\ Cut(m, w) = 0
     /\ e \in {0, 3} /\ f \in 0..99
  BY DEF Looks
<1> SUFFICES ASSUME NEW room \in 1..13, room = Room(w), NEW k \in 1..(g + room + e)
             PROVE  Upto(k, g, m, room, f) = Took(Upto(k - 1, g, m, room, f), x[k])
  BY Rooms
<1>1. CASE k <= g
  <2>1. k = 1 /\ g = 1
    BY <1>1
  <2>2. Upto(k - 1, g, m, room, f) = 0 /\ Upto(k, g, m, room, f) = 0
    BY <1>1 DEF Upto
  <2>3. x[k] = "-"
    BY <2>1 DEF Looks
  <2>4. Took(0, "-") = 0
    BY MarkRead
  <2>. QED
    BY <2>2, <2>3, <2>4
<1>2. CASE k > g /\ k <= g + room
  <2>1. PICK r \in 0..12 : r = g + room - k
    BY <1>2
  <2>2. PICK q \in 1..room : q = k - g
    BY <1>2
  <2>3. r = room - q /\ g + q = k
    BY <2>1, <2>2
  <2>4. x[k] = IF r % 4 = 3 THEN "," ELSE Line!Digit[(Cut(m, Left(r)) % 10) + 1]
    BY <2>3 DEF Looks
  <2>5. Upto(k, g, m, room, f) = Cut(m, Left(r))
    BY <1>2, <2>1 DEF Upto
  <2>6. Upto(k - 1, g, m, room, f) = Cut(m, Left(r + 1))
    <3>1. CASE k - 1 <= g
      <4>1. k - 1 = g /\ r + 1 = room
        BY <1>2, <2>1, <3>1
      <4>2. Left(r + 1) = w
        BY <4>1, Lefts
      <4>. QED
        BY <3>1, <4>2 DEF Upto
    <3>2. CASE ~(k - 1 <= g)
      <4>1. k - 1 <= g + room
        BY <1>2
      <4>2. g + room - (k - 1) = r + 1
        BY <2>1
      <4>. QED
        BY <3>2, <4>1, <4>2 DEF Upto
    <3>. QED
      BY <3>1, <3>2
  <2>7. PICK t \in 0..9 : t = Left(r)
    BY Lefts
  <2>8. /\ Cut(m, t) \in Nat /\ Cut(m, t + 1) \in Nat
        /\ Cut(m, t) % 10 \in 0..9
        /\ Cut(m, t) = 10 * Cut(m, t + 1) + (Cut(m, t) % 10)
    <3>1. t \in 0..10 /\ t + 1 \in 0..10
      OBVIOUS
    <3>. QED
      BY <3>1, Cuts
  <2>9. CASE r % 4 = 3
    <3>1. Left(r + 1) = t
      BY <2>7, <2>9, Lefts
    <3>2. Took(Cut(m, t), ",") = Cut(m, t)
      <4>1. Cut(m, t) \in Int
        BY <2>8
      <4>. QED
        BY <4>1, MarkRead
    <3>3. x[k] = ","
      BY <2>4, <2>9
    <3>4. Upto(k - 1, g, m, room, f) = Cut(m, t) /\ Upto(k, g, m, room, f) = Cut(m, t)
      BY <2>5, <2>6, <2>7, <3>1
    <3>. QED
      BY <3>2, <3>3, <3>4
  <2>10. CASE r % 4 # 3
    <3>1. Left(r + 1) = t + 1
      BY <2>7, <2>10, Lefts
    <3>2. Upto(k - 1, g, m, room, f) = Cut(m, t + 1) /\ Upto(k, g, m, room, f) = Cut(m, t)
      BY <2>5, <2>6, <2>7, <3>1
    <3>3. x[k] = Line!Digit[(Cut(m, t) % 10) + 1]
      BY <2>4, <2>7, <2>10
    <3>4. Took(Cut(m, t + 1), x[k]) = 10 * Cut(m, t + 1) + (Cut(m, t) % 10)
      <4>1. Cut(m, t + 1) \in Int
        BY <2>8
      <4>2. PICK h \in 0..9 : h = Cut(m, t) % 10
        BY <2>8
      <4>3. Took(Cut(m, t + 1), Line!Digit[h + 1]) = 10 * Cut(m, t + 1) + h
        BY <4>1, DigitRead
      <4>. QED
        BY <3>3, <4>2, <4>3
    <3>. QED
      BY <2>8, <3>2, <3>4
  <2>. QED
    BY <2>9, <2>10
<1>3. CASE k > g + room
  <2>1. e = 3 /\ k \in {g + room + 1, g + room + 2, g + room + 3}
    BY <1>3
  <2>2. f \div 10 \in 0..9 /\ f % 10 \in 0..9 /\ f = 10 * (f \div 10) + (f % 10)
    OBVIOUS
  <2>3. CASE k = g + room + 1
    <3>1. x[k] = "."
      BY <2>1, <2>3 DEF Looks
    <3>2. Upto(k, g, m, room, f) = m
      BY <2>3 DEF Upto
    <3>3. Upto(k - 1, g, m, room, f) = m
      <4>1. ~(k - 1 <= g) /\ k - 1 <= g + room /\ g + room - (k - 1) = 0
        BY <2>3
      <4>2. Cut(m, Left(0)) = m
        BY Lefts, Cuts
      <4>. QED
        BY <4>1, <4>2 DEF Upto
    <3>4. Took(m, ".") = m
      BY MarkRead
    <3>. QED
      BY <3>1, <3>2, <3>3, <3>4
  <2>4. CASE k = g + room + 2
    <3>1. x[k] = Line!Digit[(f \div 10) + 1]
      BY <2>1, <2>4 DEF Looks
    <3>2. Upto(k, g, m, room, f) = 10 * m + (f \div 10)
      BY <2>4 DEF Upto
    <3>3. Upto(k - 1, g, m, room, f) = m
      BY <2>4 DEF Upto
    <3>4. Took(m, x[k]) = 10 * m + (f \div 10)
      <4>1. PICK h \in 0..9 : h = f \div 10
        BY <2>2
      <4>2. PICK v \in Int : v = m
        OBVIOUS
      <4>3. Took(v, Line!Digit[h + 1]) = 10 * v + h
        BY DigitRead
      <4>. QED
        BY <3>1, <4>1, <4>2, <4>3
    <3>. QED
      BY <3>2, <3>3, <3>4
  <2>5. CASE k = g + room + 3
    <3>1. x[k] = Line!Digit[(f % 10) + 1]
      BY <2>1, <2>5 DEF Looks
    <3>2. Upto(k, g, m, room, f) = 100 * m + f
      BY <2>5 DEF Upto
    <3>3. Upto(k - 1, g, m, room, f) = 10 * m + (f \div 10)
      BY <2>5 DEF Upto
    <3>4. Took(10 * m + (f \div 10), x[k]) = 10 * (10 * m + (f \div 10)) + (f % 10)
      <4>1. PICK h \in 0..9 : h = f % 10
        BY <2>2
      <4>2. PICK v \in Int : v = 10 * m + (f \div 10)
        BY <2>2
      <4>3. Took(v, Line!Digit[h + 1]) = 10 * v + h
        BY DigitRead
      <4>. QED
        BY <3>1, <4>1, <4>2, <4>3
    <3>. QED
      BY <2>2, <3>2, <3>3, <3>4
  <2>. QED
    BY <2>1, <2>3, <2>4, <2>5
<1>. QED
  BY <1>1, <1>2, <1>3

(* So a reader takes a price for the number it was formatted from.          *)
LEMMA ValueIs ==
    ASSUME NEW x, NEW g, NEW m, NEW w, NEW e, NEW f, Looks(x, g, m, w, e, f)
    PROVE  Line!Value(x) = IF e = 0 THEN m ELSE 100 * m + f
<1>. /\ g \in {0, 1} /\ m \in Nat /\ m < 10^10 /\ w \in 1..10 /\ Cut(m, w) = 0
     /\ e \in {0, 3} /\ f \in 0..99
  BY DEF Looks
<1>1. PICK room \in 1..13 : room = Room(w)
  BY Rooms
<1>2. PICK n \in Nat : n = g + room + e
  OBVIOUS
<1>3. Len(x) = n
  BY <1>1, <1>2 DEF Looks
<1>5. \A k \in 1..(g + room + e) : Upto(k, g, m, room, f) = Took(Upto(k - 1, g, m, room, f), x[k])
  <2>1. \A k \in 1..(g + Room(w) + e) :
           Upto(k, g, m, Room(w), f) = Took(Upto(k - 1, g, m, Room(w), f), x[k])
    BY UptoNext
  <2>. QED
    BY <1>1, <2>1
<1> DEFINE upto(k) == Upto(k, g, m, room, f)
           round(v) == [k \in 0..Len(x) |-> IF k = 0 THEN 0 ELSE Took(v[k - 1], x[k])]
           all == [k \in 0..Len(x) |-> upto(k)]
           value == CHOOSE v : v = round(v)
<1>4. upto(0) = 0
  BY DEF Upto
<1>6. \A k \in 1..n : upto(k) = Took(upto(k - 1), x[k])
  BY <1>2, <1>5
<1> HIDE DEF upto
<1>7. all = round(all)
  <2>1. ASSUME NEW k \in 0..n PROVE all[k] = round(all)[k]
    <3>1. CASE k = 0
      BY <1>3, <1>4, <3>1
    <3>2. CASE k # 0
      <4>1. k \in 1..n /\ k - 1 \in 0..n
        BY <3>2
      <4>2. all[k - 1] = upto(k - 1) /\ all[k] = upto(k)
        BY <1>3, <4>1
      <4>. QED
        BY <1>3, <1>6, <3>2, <4>1, <4>2
    <3>. QED
      BY <3>1, <3>2
  <2>. QED
    BY <1>3, <2>1
<1>8. value = round(value)
  <2> HIDE DEF all, round
  <2>. QED
    BY <1>7
<1>9. \A k \in 0..n : value[k] = IF k = 0 THEN 0 ELSE Took(value[k - 1], x[k])
  <2> HIDE DEF value
  <2>. QED
    BY <1>3, <1>8
<1>10. Line!Value(x) = value[n]
  BY <1>3 DEF Line!Value, Took
<1> HIDE DEF value
<1> DEFINE same == {k \in 0..n : value[k] = upto(k)}
<1>11. \A k \in 0..n : k \in same
  <2>1. 0 \in same
    <3>1. 0 \in 0..n
      OBVIOUS
    <3>. QED
      BY <1>4, <1>9, <3>1
  <2>2. ASSUME NEW k \in 0..n, k # n, k \in same PROVE k + 1 \in same
    <3>1. k + 1 \in 0..n /\ k + 1 \in 1..n /\ k + 1 # 0 /\ (k + 1) - 1 = k
      BY <2>2
    <3>. QED
      BY <1>6, <1>9, <2>2, <3>1
  <2> HIDE DEF same
  <2>. QED
    BY <2>1, <2>2, Climb
<1>12. upto(n) = IF e = 0 THEN m ELSE 100 * m + f
  <2>1. CASE e = 0
    <3>1. ~(n <= g) /\ n <= g + room /\ g + room - n = 0
      BY <1>2, <2>1
    <3>2. Cut(m, Left(0)) = m
      BY Lefts, Cuts
    <3>. QED
      BY <2>1, <3>1, <3>2 DEF upto, Upto
  <2>2. CASE e = 3
    BY <1>2, <2>2 DEF upto, Upto
  <2>. QED
    BY <2>1, <2>2
<1>. QED
  BY <1>10, <1>11, <1>12

(* Which characters of a price are which.                                   *)
Places(x, g, w) ==
    \A k \in 1..Len(x) :
       /\ x[k] \in Chars
       /\ x[k] = "-" <=> k <= g
       /\ x[k] = "." <=> k = g + Room(w) + 1
       /\ x[k] = "," <=> k > g /\ k <= g + Room(w) /\ (g + Room(w) - k) % 4 = 3

LEMMA PlacesAre ==
    ASSUME NEW x, NEW g, NEW m, NEW w, NEW e, NEW f, Looks(x, g, m, w, e, f)
    PROVE  Places(x, g, w)
<1>. /\ g \in {0, 1} /\ m \in Nat /\ m < 10^10 /\ w \in 1..10
     /\ e \in {0, 3} /\ f \in 0..99
  BY DEF Looks
<1> SUFFICES ASSUME NEW room \in 1..13, room = Room(w), NEW k \in 1..(g + room + e)
             PROVE  /\ x[k] \in Chars
                    /\ x[k] = "-" <=> k <= g
                    /\ x[k] = "." <=> k = g + room + 1
                    /\ x[k] = "," <=> k > g /\ k <= g + room /\ (g + room - k) % 4 = 3
  <2>1. Len(x) = g + Room(w) + e /\ Room(w) \in 1..13
    BY Rooms DEF Looks
  <2>. QED
    BY <2>1 DEF Places
<1>1. x[k] \in Chars
  BY ElementOfSeq DEF Looks
<1>2. \A h \in 0..9 : Line!Digit[h + 1] \notin {",", ".", "-"}
  BY DigitsAndMarks
<1>3. CASE k <= g
  <2>1. k = 1 /\ g = 1 /\ k # g + room + 1 /\ ~(k > g)
    BY <1>3
  <2>2. x[k] = "-"
    BY <2>1 DEF Looks
  <2>. QED
    BY <1>1, <1>3, <2>1, <2>2
<1>4. CASE k > g /\ k <= g + room
  <2>1. PICK r \in 0..12 : r = g + room - k
    BY <1>4
  <2>2. PICK q \in 1..room : q = k - g
    BY <1>4
  <2>3. r = room - q /\ g + q = k
    BY <2>1, <2>2
  <2>4. k # g + room + 1 /\ ~(k <= g)
    BY <1>4
  <2>5. x[k] = IF r % 4 = 3 THEN "," ELSE Line!Digit[(Cut(m, Left(r)) % 10) + 1]
    BY <2>3 DEF Looks
  <2>6. PICK h \in 0..9 : h = Cut(m, Left(r)) % 10
    <3>1. PICK t \in 0..9 : t = Left(r)
      BY Lefts
    <3>2. Cut(m, t) % 10 \in 0..9
      BY Cuts
    <3>. QED
      BY <3>1, <3>2
  <2>7. CASE r % 4 = 3
    BY <1>1, <1>4, <2>4, <2>1, <2>5, <2>7
  <2>8. CASE r % 4 # 3
    <3>1. x[k] \notin {",", ".", "-"}
      BY <1>2, <2>5, <2>6, <2>8
    <3>. QED
      BY <1>1, <2>4, <2>1, <2>8, <3>1
  <2>. QED
    BY <2>7, <2>8
<1>5. CASE k > g + room
  <2>1. e = 3 /\ k \in {g + room + 1, g + room + 2, g + room + 3} /\ ~(k <= g) /\ ~(k <= g + room)
    BY <1>5
  <2>2. CASE k = g + room + 1
    <3>1. x[k] = "."
      BY <2>1, <2>2 DEF Looks
    <3>. QED
      BY <1>1, <2>1, <2>2, <3>1
  <2>3. CASE k # g + room + 1
    <3>1. PICK h \in 0..9 : x[k] = Line!Digit[h + 1]
      <4>1. f \div 10 \in 0..9 /\ f % 10 \in 0..9
        OBVIOUS
      <4>2. x[k] = Line!Digit[(f \div 10) + 1] \/ x[k] = Line!Digit[(f % 10) + 1]
        BY <2>1, <2>3 DEF Looks
      <4>. QED
        BY <4>1, <4>2
    <3>2. x[k] \notin {",", ".", "-"}
      BY <1>2, <3>1
    <3>. QED
      BY <1>1, <2>1, <2>3, <3>2
  <2>. QED
    BY <2>2, <2>3
<1>6. k <= g \/ (k > g /\ k <= g + room) \/ k > g + room
  OBVIOUS
<1>. QED
  BY <1>3, <1>4, <1>5, <1>6, Zenon

LEMMA PriceIsRead ==
    ASSUME NEW x, NEW g, NEW m, NEW w, NEW e, NEW f, Looks(x, g, m, w, e, f)
    PROVE  /\ x # Line!NA
           /\ Line!Point(x) = g + Room(w) + 1
           /\ Line!Behind(x) = IF e = 0 THEN 0 ELSE 2
           /\ Line!Read(x) = (IF g = 1 THEN -1 ELSE 1) * (IF e = 0 THEN m * 1000 ELSE (100 * m + f) * 10)
<1>. /\ g \in {0, 1} /\ m \in Nat /\ m < 10^10 /\ w \in 1..10
     /\ e \in {0, 3} /\ f \in 0..99
  BY DEF Looks
<1>1. PICK room \in 1..13 : room = Room(w)
  BY Rooms
<1>2. Len(x) = g + room + e /\ 1 \in 1..Len(x)
  <2>1. Len(x) = g + room + e
    BY <1>1 DEF Looks
  <2>. QED
    BY <2>1
<1>3. \A k \in 1..Len(x) : /\ x[k] \in Chars
                           /\ x[k] = "-" <=> k <= g
                           /\ x[k] = "." <=> k = g + room + 1
  <2>1. Places(x, g, w)
    BY PlacesAre
  <2>. QED
    BY <1>1, <2>1 DEF Places
<1>4. x # Line!NA
  <2>1. x[1] # "n"
    BY <1>2, <1>3 DEF Chars
  <2>2. Line!NA[1] = "n"
    BY DEF Line!NA
  <2>. QED
    BY <2>1, <2>2
<1>5. Line!Point(x) = g + room + 1
  <2>1. CASE e = 0
    <3>1. ~\E k \in 1..Len(x) : x[k] = "."
      BY <1>2, <1>3, <2>1
    <3>. QED
      BY <1>2, <2>1, <3>1 DEF Line!Point
  <2>2. CASE e = 3
    <3>1. g + room + 1 \in 1..Len(x)
      BY <1>2, <2>2
    <3>2. (CHOOSE k \in 1..Len(x) : x[k] = ".") = g + room + 1
      BY <1>3, <3>1
    <3>. QED
      BY <1>3, <3>1, <3>2 DEF Line!Point
  <2>. QED
    BY <2>1, <2>2
<1>6. Line!Behind(x) = IF e = 0 THEN 0 ELSE 2
  <2>1. CASE e = 0
    BY <1>2, <1>5, <2>1 DEF Line!Behind
  <2>2. CASE e = 3
    BY <1>2, <1>5, <2>2 DEF Line!Behind
  <2>. QED
    BY <2>1, <2>2
<1>7. x[1] = "-" <=> g = 1
  BY <1>2, <1>3
<1>8. Line!Value(x) = IF e = 0 THEN m ELSE 100 * m + f
  BY ValueIs
<1>9. Line!Read(x) = (IF g = 1 THEN -1 ELSE 1) * (IF e = 0 THEN m * 1000 ELSE (100 * m + f) * 10)
  <2>1. CASE e = 0
    <3>1. Line!Value(x) = m /\ Line!Behind(x) = 0
      BY <1>6, <1>8, <2>1
    <3>. QED
      BY <1>7, <2>1, <3>1 DEF Line!Read
  <2>2. CASE e = 3
    <3>1. Line!Value(x) = 100 * m + f /\ Line!Behind(x) = 2
      BY <1>6, <1>8, <2>2
    <3>. QED
      BY <1>7, <2>2, <3>1 DEF Line!Read
  <2>. QED
    BY <2>1, <2>2
<1>. QED
  BY <1>1, <1>4, <1>5, <1>6, <1>9

WellGrouped(x) ==
    LET whole == {k \in 1..(Line!Point(x) - 1) : x[k] # "-"}
        commas == {k \in 1..Len(x) : x[k] = ","}
    IN  /\ commas \subseteq whole
        /\ \A k \in whole : Cardinality({h \in whole : h >= k}) % 4 = 0 <=> k \in commas
        /\ \A k \in commas : {h \in whole : h < k} # {}

LEMMA PriceIsGrouped ==
    ASSUME NEW x, NEW g, NEW m, NEW w, NEW e, NEW f, Looks(x, g, m, w, e, f)
    PROVE  WellGrouped(x)
<1>1. PICK room \in 1..13 : room = Room(w)
  <2>1. w \in 1..10
    BY DEF Looks
  <2>. QED
    BY <2>1, Rooms
<1>2. PICK s \in 0..1 : s = g
  <2>1. g \in {0, 1}
    BY DEF Looks
  <2>. QED
    BY <2>1
<1>3. PICK n \in Nat : n = s + room + e /\ n >= s + room
  <2>1. e \in {0, 3}
    BY DEF Looks
  <2>2. s + room + e \in Nat /\ s + room + e >= s + room
    BY <2>1
  <2>. QED
    BY <2>2
<1>4. Len(x) = n
  BY <1>1, <1>2, <1>3 DEF Looks
<1>5. \A k \in 1..n : /\ x[k] = "-" <=> k <= s
                      /\ x[k] = "," <=> k > s /\ k <= s + room /\ (s + room - k) % 4 = 3
  <2>1. Places(x, g, w)
    BY PlacesAre
  <2>. QED
    BY <1>1, <1>2, <1>4, <2>1 DEF Places
<1>6. Line!Point(x) - 1 = s + room
  <2>1. Line!Point(x) = s + room + 1
    BY <1>1, <1>2, PriceIsRead
  <2>. QED
    BY <2>1
<1> DEFINE whole == {k \in 1..(Line!Point(x) - 1) : x[k] # "-"}
           commas == {k \in 1..Len(x) : x[k] = ","}
<1>7. whole = (s + 1)..(s + room)
  <2>1. whole = {k \in 1..(s + room) : ~(k <= s)}
    <3>1. \A k \in 1..(s + room) : k \in 1..n
      BY <1>3
    <3>. QED
      BY <1>5, <1>6, <3>1
  <2>2. ASSUME NEW k PROVE k \in {h \in 1..(s + room) : ~(h <= s)} <=> k \in (s + 1)..(s + room)
    OBVIOUS
  <2>. QED
    BY <2>1, <2>2
<1>8. commas = {k \in (s + 1)..(s + room) : (s + room - k) % 4 = 3}
  <2>1. commas = {k \in 1..n : k > s /\ k <= s + room /\ (s + room - k) % 4 = 3}
    BY <1>4, <1>5
  <2>2. ASSUME NEW k
        PROVE  k \in 1..n /\ k > s /\ k <= s + room <=> k \in (s + 1)..(s + room)
    BY <1>3
  <2>. QED
    BY <2>1, <2>2
<1> HIDE DEF whole, commas
<1>9. ASSUME NEW k \in whole
      PROVE  Cardinality({h \in whole : h >= k}) % 4 = 0 <=> k \in commas
  <2>1. k \in (s + 1)..(s + room)
    BY <1>7
  <2>2. {h \in whole : h >= k} = k..(s + room)
    BY <1>7, <2>1
  <2>3. Cardinality(k..(s + room)) = (s + room) - k + 1
    BY <2>1, FS_Interval
  <2>4. ((s + room) - k + 1) % 4 = 0 <=> (s + room - k) % 4 = 3
    BY <2>1
  <2>. QED
    BY <1>8, <2>1, <2>2, <2>3, <2>4
<1>10. ASSUME NEW k \in commas
       PROVE  {h \in whole : h < k} # {}
  <2>1. k \in (s + 1)..(s + room) /\ (s + room - k) % 4 = 3
    BY <1>8
  <2>2. (room - 1) % 4 # 3
    <3>1. w \in 1..10
      BY DEF Looks
    <3>. QED
      BY <1>1, <3>1, Rooms
  <2>3. k # s + 1
    <3>1. s + room - (s + 1) = room - 1
      OBVIOUS
    <3>. QED
      BY <2>1, <2>2, <3>1
  <2>4. s + 1 \in (s + 1)..(s + room) /\ s + 1 < k
    BY <2>1, <2>3
  <2>. QED
    BY <1>7, <2>4
<1>11. commas \subseteq whole
  BY <1>7, <1>8
<1>. QED
  BY <1>9, <1>10, <1>11 DEF whole, commas, WellGrouped

-----------------------------------------------------------------------------
(* Rounding stays within half a unit, and a price below a billion has a     *)
(* whole part of at most ten digits also when it is rounded up.             *)
LEMMA RoundedIsNear ==
    ASSUME NEW p, NEW d, NEW n, p \in Int /\ Line!Abs(p) \div 1000 < 10^9, d \in {0, 2},
           n \in Line!Rounded(p, d)
    PROVE  /\ n \in Nat /\ n \div 10^d < 10^10
           /\ d = 0 => 2 * Line!Abs(n * 1000 - Line!Abs(p)) <= 1000
           /\ d = 2 => 2 * Line!Abs(n * 10 - Line!Abs(p)) <= 10
<1>1. PICK q \in Nat : q = Line!Abs(p)
  BY DEF Line!Abs
<1>2. CASE d = 0
  <2>1. Line!Unit(d) = 1000
    BY <1>2 DEF Line!Unit
  <2>2. \/ n = q \div 1000 /\ 2 * (q % 1000) <= 1000
        \/ n = (q \div 1000) + 1 /\ 2 * (q % 1000) >= 1000
    <3>1. PICK down \in Nat : down = q \div 1000
      OBVIOUS
    <3>2. PICK rest \in Nat : rest = q % 1000
      OBVIOUS
    <3>3. \/ 2 * rest < 1000 /\ Line!Rounded(p, d) = {down}
          \/ 2 * rest > 1000 /\ Line!Rounded(p, d) = {down + 1}
          \/ 2 * rest = 1000 /\ Line!Rounded(p, d) \subseteq {down, down + 1}
      <4>1. CASE 2 * rest < 1000
        BY <1>1, <2>1, <3>1, <3>2, <4>1 DEF Line!Rounded
      <4>2. CASE 2 * rest > 1000
        BY <1>1, <2>1, <3>1, <3>2, <4>2 DEF Line!Rounded
      <4>3. CASE 2 * rest = 1000
        BY <1>1, <2>1, <3>1, <3>2, <4>3 DEF Line!Rounded
      <4>. QED
        BY <4>1, <4>2, <4>3
    <3>4. \/ n = down /\ 2 * rest <= 1000
          \/ n = down + 1 /\ 2 * rest >= 1000
      BY <3>3
    <3>. QED
      BY <3>1, <3>2, <3>4
  <2>3. n \in Nat /\ n < 10^10
    BY <1>1, <2>2
  <2>4. 2 * (n * 1000 - q) <= 1000 /\ 2 * (q - n * 1000) <= 1000
    BY <2>2
  <2>. QED
    BY <1>1, <1>2, <2>3, <2>4 DEF Line!Abs
<1>3. CASE d = 2
  <2>1. Line!Unit(d) = 10
    BY <1>3 DEF Line!Unit
  <2>2. \/ n = q \div 10 /\ 2 * (q % 10) <= 10
        \/ n = (q \div 10) + 1 /\ 2 * (q % 10) >= 10
    <3>1. PICK down \in Nat : down = q \div 10
      OBVIOUS
    <3>2. PICK rest \in Nat : rest = q % 10
      OBVIOUS
    <3>3. \/ 2 * rest < 10 /\ Line!Rounded(p, d) = {down}
          \/ 2 * rest > 10 /\ Line!Rounded(p, d) = {down + 1}
          \/ 2 * rest = 10 /\ Line!Rounded(p, d) \subseteq {down, down + 1}
      <4>1. CASE 2 * rest < 10
        BY <1>1, <2>1, <3>1, <3>2, <4>1 DEF Line!Rounded
      <4>2. CASE 2 * rest > 10
        BY <1>1, <2>1, <3>1, <3>2, <4>2 DEF Line!Rounded
      <4>3. CASE 2 * rest = 10
        BY <1>1, <2>1, <3>1, <3>2, <4>3 DEF Line!Rounded
      <4>. QED
        BY <4>1, <4>2, <4>3
    <3>4. \/ n = down /\ 2 * rest <= 10
          \/ n = down + 1 /\ 2 * rest >= 10
      BY <3>3
    <3>. QED
      BY <3>1, <3>2, <3>4
  <2>3. n \in Nat /\ n \div 100 < 10^10
    BY <1>1, <2>2
  <2>4. 2 * (n * 10 - q) <= 10 /\ 2 * (q - n * 10) <= 10
    BY <2>2
  <2>. QED
    BY <1>1, <1>3, <2>3, <2>4 DEF Line!Abs
<1>. QED
  BY <1>2, <1>3

(* So a price is read back to within half a unit, and grouped.              *)
LEMMA MoneyIsRead ==
    ASSUME NEW p, NEW d, NEW n, NEW x, p \in Int /\ Line!Abs(p) \div 1000 < 10^9, d \in {0, 2},
           n \in Line!Rounded(p, d), x = Line!Money(p, d, n)
    PROVE  /\ x # Line!NA
           /\ Line!Behind(x) = d
           /\ 2 * Line!Abs(Line!Read(x) - p) <= 1000 \div 10^d
           /\ WellGrouped(x)
<1>1. /\ n \in Nat /\ n \div 10^d < 10^10
      /\ d = 0 => 2 * Line!Abs(n * 1000 - Line!Abs(p)) <= 1000
      /\ d = 2 => 2 * Line!Abs(n * 10 - Line!Abs(p)) <= 10
  BY RoundedIsNear
<1> DEFINE g == IF p < 0 THEN 1 ELSE 0
           m == n \div 10^d
           w == Line!Width(n \div 10^d)
           e == IF d = 0 THEN 0 ELSE 3
           f == n % 10^d
<1>2. Looks(x, g, m, w, e, f)
  <2>1. Looks(Line!Money(p, d, n), IF p < 0 THEN 1 ELSE 0, n \div 10^d,
              Line!Width(n \div 10^d), IF d = 0 THEN 0 ELSE 3, n % 10^d)
    BY <1>1, MoneyLooks
  <2>. QED
    BY <2>1
<1>3. /\ x # Line!NA
      /\ Line!Behind(x) = IF e = 0 THEN 0 ELSE 2
      /\ Line!Read(x) = (IF g = 1 THEN -1 ELSE 1) * (IF e = 0 THEN m * 1000 ELSE (100 * m + f) * 10)
  <2> HIDE DEF g, m, w, e, f
  <2>. QED
    BY <1>2, PriceIsRead
<1>4. /\ Line!Behind(x) = d
      /\ 2 * Line!Abs(Line!Read(x) - p) <= 1000 \div 10^d
  <2>1. CASE d = 0
    <3>1. Line!Read(x) = IF p < 0 THEN -(n * 1000) ELSE n * 1000
      BY <1>1, <1>3, <2>1
    <3>. QED
      BY <1>1, <1>3, <2>1, <3>1 DEF Line!Abs
  <2>2. CASE d = 2
    <3>1. Line!Read(x) = IF p < 0 THEN -(n * 10) ELSE n * 10
      BY <1>1, <1>3, <2>2
    <3>. QED
      BY <1>1, <1>3, <2>2, <3>1 DEF Line!Abs
  <2>. QED
    BY <2>1, <2>2
<1>5. WellGrouped(x)
  <2> HIDE DEF g, m, w, e, f
  <2>. QED
    BY <1>2, PriceIsGrouped
<1>. QED
  BY <1>3, <1>4, <1>5

(* The slot shows what _segment made of the last answer.                    *)
LineInv == /\ answer \in Line!Answers
           /\ quote = Line!Quote(answer)
           /\ shown \in Line!Segment(ticker, answer, quote)

LEMMA LineInvAlways == Line!Spec => []LineInv
<1>1. Line!Init => LineInv
  BY DEF Line!Init, LineInv, Line!Answers, Line!Trouble
<1>2. LineInv /\ [Line!Next]_(Line!vars) => LineInv'
  BY DEF LineInv, Line!Next, Line!NextRun, Line!vars
<1>. QED
  BY <1>1, <1>2, PTL DEF Line!Spec

(* A shown price is a plain answer's, rounded.                              *)
LEMMA ShownIsMoney ==
    ASSUME LineInv
    PROVE  /\ Line!Decimals(ticker) \in {0, 2}
           /\ answer.kind # "plain" => shown = Line!NA
           /\ answer.kind = "plain" =>
                 /\ answer.price \in Int /\ Line!Abs(answer.price) \div 1000 < 10^9
                 /\ \E n \in Line!Rounded(answer.price, Line!Decimals(ticker)) :
                       shown = Line!Money(answer.price, Line!Decimals(ticker), n)
<1>1. Line!Decimals(ticker) \in {0, 2}
  BY FunctionsAssumption DEF Line!LineAssumption, Line!Decimals
<1>2. ASSUME answer.kind # "plain" PROVE shown = Line!NA
  <2>1. answer.kind \in Line!Trouble \cup {"loose", "huge"}
    BY <1>2 DEF LineInv, Line!Answers
  <2>2. ~quote.ok \/ answer.kind \in {"loose", "huge"}
    BY <2>1 DEF LineInv, Line!Quote, Line!Reason, Line!Trouble
  <2>. QED
    BY <2>2 DEF LineInv, Line!Segment
<1>3. ASSUME answer.kind = "plain"
      PROVE  /\ answer.price \in Int /\ Line!Abs(answer.price) \div 1000 < 10^9
             /\ \E n \in Line!Rounded(answer.price, Line!Decimals(ticker)) :
                   shown = Line!Money(answer.price, Line!Decimals(ticker), n)
  <2>1. answer.price \in Prices
    BY <1>3 DEF LineInv, Line!Answers, Line!Trouble
  <2>2. answer.price \in Int /\ Line!Abs(answer.price) \div 1000 < 10^9
    <3>1. \A p \in Prices : p \in Int /\ Line!Abs(p) \div 1000 < 10^9
      BY FunctionsAssumption DEF Line!LineAssumption
    <3>. QED
      BY <2>1, <3>1
  <2>3. quote.ok
    BY <1>3 DEF LineInv, Line!Quote, Line!Reason
  <2>. QED
    BY <1>3, <2>2, <2>3 DEF LineInv, Line!Segment
<1>. QED
  BY <1>1, <1>2, <1>3

(* A price that is read off the line is the quoted one to within half of    *)
(* the last place its ticker is shown with, for every price below a         *)
(* billion; what is not plainly a price is never read as one                *)
(* (Formatter._segment, _formatMoney).                                      *)
THEOREM ReadsAsThePriceHolds == Line!Spec => []ReadsAsThePrice
<1>1. LineInv => ReadsAsThePrice
  <2> SUFFICES ASSUME LineInv PROVE ReadsAsThePrice
    OBVIOUS
  <2>1. CASE answer.kind = "plain"
    <3>1. PICK n \in Line!Rounded(answer.price, Line!Decimals(ticker)) :
             shown = Line!Money(answer.price, Line!Decimals(ticker), n)
      BY <2>1, ShownIsMoney
    <3>2. /\ answer.price \in Int /\ Line!Abs(answer.price) \div 1000 < 10^9
          /\ Line!Decimals(ticker) \in {0, 2}
      BY <2>1, ShownIsMoney
    <3>3. /\ shown # Line!NA
          /\ Line!Behind(shown) = Line!Decimals(ticker)
          /\ 2 * Line!Abs(Line!Read(shown) - answer.price) <= 1000 \div 10^Line!Decimals(ticker)
      BY <3>1, <3>2, MoneyIsRead
    <3>. QED
      BY <2>1, <3>3 DEF ReadsAsThePrice, Line!ReadsAsThePrice
  <2>2. CASE answer.kind # "plain"
    BY <2>2, ShownIsMoney DEF ReadsAsThePrice, Line!ReadsAsThePrice
  <2>. QED
    BY <2>1, <2>2
<1>. QED
  BY LineInvAlways, <1>1, PTL

(* Commas stand before every third digit of the whole part and nowhere      *)
(* else, also when rounding adds a digit (Formatter._formatMoney).          *)
THEOREM GroupedByThousandsHolds == Line!Spec => []GroupedByThousands
<1>1. LineInv => GroupedByThousands
  <2> SUFFICES ASSUME LineInv, shown # Line!NA PROVE Line!GroupedByThousands
    BY DEF GroupedByThousands, Line!GroupedByThousands
  <2>1. PICK n \in Line!Rounded(answer.price, Line!Decimals(ticker)) :
           shown = Line!Money(answer.price, Line!Decimals(ticker), n)
    <3>1. answer.kind = "plain"
      BY ShownIsMoney
    <3>. QED
      BY <3>1, ShownIsMoney
  <2>2. /\ answer.price \in Int /\ Line!Abs(answer.price) \div 1000 < 10^9
        /\ Line!Decimals(ticker) \in {0, 2}
    <3>1. answer.kind = "plain"
      BY ShownIsMoney
    <3>. QED
      BY <3>1, ShownIsMoney
  <2>3. WellGrouped(shown)
    BY <2>1, <2>2, MoneyIsRead
  <2>4. \A S : Line!Cardinality(S) = Cardinality(S)
    BY DEF Line!Cardinality, Cardinality
  <2>. QED
    BY <2>3, <2>4, Zenon DEF Line!GroupedByThousands, WellGrouped
<1>. QED
  BY LineInvAlways, <1>1, PTL
=================================================================================
