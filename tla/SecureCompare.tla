------------------------------- MODULE SecureCompare -------------------------------
(***************************************************************************)
(* core/SecureCompare.equals: the loop that compares what a text carries   *)
(* with a secret, one character at a time, without leaving early.          *)
(***************************************************************************)
EXTENDS Naturals, Sequences

CONSTANTS
    Char,      \* characters
    String,    \* the strings compared
    NotString  \* any other value

ASSUME StringAssumption == String \subseteq Seq(Char) /\ NotString \notin Seq(Char)

VARIABLES
    a,      \* the caller's value
    b,      \* the value it is compared with
    i,      \* how many characters have been looked at
    diff,   \* 0 as long as nothing has differed, else 1
    pc,     \* where the loop is
    result  \* what `equals` returns

vars == <<a, b, i, diff, pc, result>>

Init == /\ a \in String \cup {NotString}
        /\ b \in String \cup {NotString}
        /\ i = 0
        /\ diff = 0
        /\ pc = "start"
        /\ result = FALSE

-----------------------------------------------------------------------------
(* `diff` before the loop; a slip leaves the lengths out. *)
LengthIgnored == 0
LengthDiff == IF Len(a) = Len(b) THEN 0 ELSE 1

(* Strings of another length are compared with themselves. *)
Counterpart == IF Len(a) = Len(b) THEN b ELSE a

Return(r) == /\ pc' = "done"
             /\ result' = r
             /\ UNCHANGED <<a, b, i>>

Start == /\ pc = "start"
         /\ \/ NotString \in {a, b} /\ Return(FALSE) /\ UNCHANGED diff
            \/ /\ NotString \notin {a, b}
               /\ diff' = LengthDiff
               /\ pc' = "walk"
               /\ UNCHANGED <<a, b, i, result>>

(* `diff |= x ^ y`: what differs once is not forgotten. *)
Walk == /\ pc = "walk"
        /\ i < Len(a)
        /\ i' = i + 1
        /\ diff' = IF a[i + 1] = Counterpart[i + 1] THEN diff ELSE 1
        /\ UNCHANGED <<a, b, pc, result>>

Finish == /\ pc = "walk"
          /\ i = Len(a)
          /\ Return(diff = 0)
          /\ UNCHANGED diff

Next == Start \/ Walk \/ Finish

Spec == Init /\ [][Next]_vars

-----------------------------------------------------------------------------
(* The answer is the equality of the two values, and FALSE for what is not *)
(* a string (equals: "Non-strings are never equal to anything").           *)
EqualsIsEquality == pc = "done" => (result <=> a = b /\ a # NotString)
===================================================================================
