--------------------------- MODULE CommandParserProps ---------------------------
(***************************************************************************)
(* What the webhook relies on in the parser, for every text that can be    *)
(* typed.                                                                  *)
(***************************************************************************)
EXTENDS CommandParser

AllBlank(s) == \A i \in 1..Len(s) : s[i] \in Blank
Bounded(s) == Len(s) > 0 /\ s[1] \in Word /\ s[Len(s)] \in Word

(* The unlock word reaches the gate as it was typed: the text is the verb,  *)
(* blanks, and the argument, each of its words and each blank between them  *)
(* untouched, with nothing but blanks around (ARG_SPECS, 'raw').            *)
UnlockVerbatim ==
    intent.type = "unlock" =>
       \E i, j \in 2..Len(body) :
          /\ SubSeq(body, i, j) = intent.arg
          /\ Bounded(intent.arg)
          /\ AllBlank(SubSeq(body, j + 1, Len(body)))
          /\ \E v \in 1..(i - 1) : /\ body[v] \in Word /\ Lower[body[v]] = "unlock"
                                   /\ AllBlank(SubSeq(body, 1, v - 1))
                                   /\ AllBlank(SubSeq(body, v + 1, i - 1))
=================================================================================
