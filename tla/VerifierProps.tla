----------------------------- MODULE VerifierProps -----------------------------
(***************************************************************************)
(* What the verifier's verdicts are worth.                                 *)
(***************************************************************************)
EXTENDS Verifier

(* The number on the device is the highest of all texts ever found         *)
(* authentic, in whatever order overlapping clicks finish, and whatever    *)
(* altered texts were tried in between.                                    *)
LastIsHighest ==
    IF verified = {} THEN last = Null
    ELSE /\ \E i \in verified : last = issued[i]
         /\ \A i \in verified : issued[i] <= last

(* One number gets one good verdict: of the clicks on authentic texts that *)
(* carry it, at most one is told that it is the first, that it follows, or *)
(* that it leaves a gap.  The others hear of a repeat, even when they were *)
(* clicked at the same time.                                               *)
Welcomed(x) == Authentic(x) /\ verdict[x] \in {"first", "follows", "gap"}
CountedOnce == \A x, y \in Click : x # y /\ Welcomed(x) /\ Welcomed(y) => n[x] # n[y]

(* A recipient who pastes every text once, in the order of arrival, is not *)
(* alarmed for nothing: while each text in the inbox has come right after  *)
(* the one numbered before it, its verdict is "first" or "follows",        *)
(* whatever altered texts were tried.                                      *)
NoFalseAlarm ==
    orderly =>
       \A x \in Click :
          /\ Authentic(x) /\ pc[x] = "done"
          /\ \A k \in 2..place[x] : issued[inbox[k]] = issued[inbox[k - 1]] + 1
          => verdict[x] \in {"first", "follows"}

(* The same recipient is warned of everything: a text that came twice,     *)
(* came late, or came after a number that is not in the inbox before it,   *)
(* is never said to follow, even if the bot has lost its counter meanwhile.*)
NothingSlipsBy ==
    orderly =>
       \A x \in Click :
          Authentic(x) /\ verdict[x] = "follows" =>
             /\ \E k \in 1..(place[x] - 1) : issued[inbox[k]] = n[x] - 1
             /\ \A k \in 1..(place[x] - 1) : inbox[k] # inbox[place[x]] /\ issued[inbox[k]] < n[x]
===============================================================================
