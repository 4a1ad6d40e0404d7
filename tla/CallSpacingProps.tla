---------------------------- MODULE CallSpacingProps ----------------------------
(***************************************************************************)
(* What the spacing of calls is for, and where it does not reach.          *)
(***************************************************************************)
EXTENDS CallSpacing

(* An execution that is told "over the limit" is never the cause alone:    *)
(* within the minute somebody else made calls too                          *)
(* (PriceService.MIN_CALL_SPACING_MS), however fast the answers come.      *)
LimitHasCompany ==
    [][\A x \in Exec : ~limited[x] /\ limited'[x] => \E c \in recent : c.by # x]_limited

(* No execution runs into the platform's limit while it sleeps and waits   *)
(* for its quotes, whatever list quotesFor is given (MIN_CALL_SPACING_MS   *)
(* and MAX_TICKERS_PER_RUN together), unless a call of its own hangs.      *)
FitsTheLimit == \A x \in Exec : Running(x) /\ ~slow[x] => now - began[x] < Limit
===============================================================================
