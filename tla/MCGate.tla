--------------------------------- MODULE MCGate ---------------------------------
(***************************************************************************)
(* Small instances of the gate for TLC.                                    *)
(***************************************************************************)
EXTENDS GateProps, TLC

CONSTANTS probe, ask, show, word, anon, spam, typo

(* The replay memory: a command, LOG, a command without an id, and a POST  *)
(* without the token.                                                      *)
RepeatTexts == {ask, show, anon, spam}
RepeatKinds == [t \in RepeatTexts |-> CASE t = show -> "log"
                                        [] t = spam -> "junk"
                                        [] OTHER -> "command"]
RepeatBlank == {anon}

(* The seal: a stranger's text, the word that opens, and another word. *)
SealTexts == {probe, typo, word}
SealKinds == [t \in SealTexts |-> CASE t = probe -> "stranger"
                                    [] t = typo -> "mistyped"
                                    [] t = word -> "unlock"]
NoneBlank == {}

DeliverySymmetry == Permutations(Delivery)
===============================================================================
