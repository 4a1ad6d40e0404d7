----------------------------- MODULE MCWatchlist -----------------------------
(***************************************************************************)
(* A small instance of the watchlist commands for TLC.                     *)
(***************************************************************************)
EXTENDS WatchlistProps

CONSTANTS t1, t2, \* ticker symbols
          lower1, \* t1 as somebody would text it
          junk    \* text no ticker looks like

(* One symbol more than the cap, so that adds race for the last slot. *)
MCTicker == {t1, t2}
MCEntry == MCTicker \cup {lower1, junk}
MCCanon == [e \in MCEntry |-> IF e = lower1 THEN t1 ELSE e]

OneDefault == <<t1>>

(* Nothing stored, nothing readable, and what somebody has edited: another *)
(* spelling, a duplicate, junk, and more than the cap.                     *)
MCRaw == {Unset, Corrupt, <<>>, <<junk, t2>>, <<lower1, t1, junk, t2>>}
===============================================================================
