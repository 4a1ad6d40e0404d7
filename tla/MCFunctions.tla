------------------------------ MODULE MCFunctions ------------------------------
(* Instance of PureFunctions for TLC. *)
EXTENDS PureFunctions

CONSTANTS MaxLength,               \* of a string
          t1, t2, t3, lower1, junk \* entries of the stored array

(* All strings of up to MaxLength characters. *)
MCString == UNION {[1..n -> Char] : n \in 0..MaxLength}

(* A verb of each sort of argument, in two cases, and a word that is none. *)
MCWord == {"add", "ADD", "unlock", "UNLOCK", "stop", "STOP", "tsla", "TSLA"}
MCBlank == {" ", "newline"}
MCLower == [w \in MCWord |-> CASE w = "ADD" -> "add" [] w = "UNLOCK" -> "unlock"
                               [] w = "STOP" -> "stop" [] w = "TSLA" -> "tsla" [] OTHER -> w]
MCUpper == [w \in MCWord |-> CASE w = "add" -> "ADD" [] w = "unlock" -> "UNLOCK"
                               [] w = "stop" -> "STOP" [] w = "tsla" -> "TSLA" [] OTHER -> w]

(* Prices around every place where a digit, a comma or the sign appears. *)
Around(n) == {n - 6, n - 5, n - 4, n, n + 4, n + 5, n + 6}
MCPrices == UNION {Around(n) : n \in {0, 500, 1000, 1125, 9500, 10000, 99500, 100000, 999500,
                                      1000000, 1234560, 9999500, 999999500, 1000000000, 0 - 1000000}}
MCRules == [s \in {"SPY"} |-> 0]

(* Three symbols, one of them in another spelling, and junk. *)
MCTicker == {t1, t2, t3}
MCEntry == MCTicker \cup {lower1, junk}
MCCanon == [e \in MCEntry |-> IF e = lower1 THEN t1 ELSE e]
OneDefault == <<t1>>
================================================================================
