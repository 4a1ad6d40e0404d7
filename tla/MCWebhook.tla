------------------------------- MODULE MCWebhook -------------------------------
(***************************************************************************)
(* A small instance of the webhook for TLC.                                 *)
(***************************************************************************)
EXTENDS WebhookProps

CONSTANTS adds, halts, probe, word, t1

MCText == {adds, halts, probe, word}
MCKind == [t \in MCText |-> CASE t = probe -> "stranger"
                              [] t = word -> "unlock"
                              [] OTHER -> "command"]
(* A second ADD of one ticker finds it listed; a second PAUSE writes again. *)
MCCommand == [t \in {adds, halts} |-> IF t = adds THEN [kind |-> "add", arg |-> t1]
                                      ELSE [kind |-> "pause"]]
NoBlank == {}
OneTicker == {t1}
SameSpelling == [e \in OneTicker |-> e]
NoDefault == <<>>
EmptyStart == {<<>>}
===============================================================================
