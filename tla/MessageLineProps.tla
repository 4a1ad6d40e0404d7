--------------------------- MODULE MessageLineProps ---------------------------
(***************************************************************************)
(* What the recipient may rely on when reading one slot of the line.       *)
(***************************************************************************)
EXTENDS MessageLine, FiniteSets

(* How a reader takes a price: the commas are passed over, the point counts *)
(* the digits behind it.                                                    *)
Value(s) ==
    LET value[i \in 0..Len(s)] ==
            IF i = 0 THEN 0
            ELSE IF \E k \in 1..10 : Digit[k] = s[i]
                 THEN 10 * value[i - 1] + (CHOOSE k \in 1..10 : Digit[k] = s[i]) - 1
            ELSE value[i - 1]
    IN  value[Len(s)]
Point(s) == IF \E i \in 1..Len(s) : s[i] = "." THEN CHOOSE i \in 1..Len(s) : s[i] = "."
            ELSE Len(s) + 1
Behind(s) == IF Point(s) > Len(s) THEN 0 ELSE Len(s) - Point(s)
Read(s) == (IF s[1] = "-" THEN -1 ELSE 1) * Value(s) * (1000 \div 10^Behind(s))

(* A price that is read off the line is the quoted one to within half of    *)
(* the last place its ticker is shown with, and nothing that is not plainly *)
(* a price is read as one (Formatter._segment: no fabricated prices).       *)
ReadsAsThePrice ==
    /\ shown # NA <=> answer.kind = "plain"
    /\ shown # NA => /\ Behind(shown) = Decimals(ticker)
                     /\ 2 * Abs(Read(shown) - answer.price) <= 1000 \div 10^Decimals(ticker)

(* Commas stand before every third digit of the whole part and nowhere      *)
(* else, also when rounding adds a digit (Formatter._formatMoney: round     *)
(* first, then group).                                                      *)
GroupedByThousands ==
    shown # NA =>
       LET whole == {i \in 1..(Point(shown) - 1) : shown[i] # "-"}
           commas == {i \in 1..Len(shown) : shown[i] = ","}
           before(i) == {j \in whole : j < i}
           after(i) == {j \in whole : j >= i}
       IN  /\ commas \subseteq whole
           /\ \A i \in whole : Cardinality(after(i)) % 4 = 0 <=> i \in commas
           /\ \A i \in commas : before(i) # {}
===============================================================================
