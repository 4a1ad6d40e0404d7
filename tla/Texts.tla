---------------------------------- MODULE Texts ----------------------------------
(***************************************************************************)
(* The daily texts from end to end: what the runs of Alert send, the       *)
(* carrier delivers late, again, out of order or not at all, and what the  *)
(* recipient's verifier then says of the numbers.                          *)
(*                                                                         *)
(* The clicks are those of Verifier, made on the texts of runs.  V is that *)
(* verifier over this state: the numbers issued are those above            *)
(* FirstNumber, up to the counter, and a text of the inbox is the number   *)
(* of its run.  While no number is used twice, every step here is one of   *)
(* V's (TextsAreNumbered in Alert_proofs).                                 *)
(***************************************************************************)
EXTENDS AlertProps

CONSTANTS
    Click,     \* clicks on Verify; each happens once
    Null,      \* nothing verified on the recipient's device yet
    MaxNumber, \* bound on the numbers a text may be altered to carry
    MaxInbox   \* bound on the texts that arrive

VARIABLES
    inbox,    \* the runs whose texts have arrived, in order of arrival
    last,     \* localStorage spz_lastN_v1
    click,    \* where each click is
    place,    \* which text of the inbox is pasted, 0 for an altered one
    num,      \* p.n, the number in the pasted text
    verdict,  \* what is painted of the number
    verified, \* the texts found authentic (history)
    orderly   \* every text was pasted once, in the order of arrival (history)

device == <<last, click, place, num, verdict, verified, orderly>>
tvars == <<vars, inbox, device>>

V == INSTANCE VerifierProps WITH
        MaxRestarts <- 0,
        restarts <- 0,
        issued <- [k \in 1..(counter - FirstNumber) |-> FirstNumber + k],
        inbox <- [k \in 1..Len(inbox) |-> number[inbox[k]] - FirstNumber],
        pc <- click,
        n <- num

TInit == /\ Init
         /\ inbox = <<>>
         /\ last = Null
         /\ click = [x \in Click |-> "idle"]
         /\ place = [x \in Click |-> 0]
         /\ num = [x \in Click |-> 0]
         /\ verdict = [x \in Click |-> "none"]
         /\ verified = {}
         /\ orderly = TRUE

-----------------------------------------------------------------------------
(* The text of a run arrives, late, again or overtaken by others.  A text   *)
(* without a signature has nothing to verify, and is left out.              *)
Arrive(r) == /\ texts[r] > 0
             /\ number[r] # 0
             /\ Len(inbox) < MaxInbox
             /\ inbox' = Append(inbox, r)
             /\ UNCHANGED <<vars, device>>

(* Verify is clicked on the k-th text of the inbox (V!Paste).               *)
Paste(x, k) == /\ click[x] = "idle"
               /\ place' = [place EXCEPT ![x] = k]
               /\ num' = [num EXCEPT ![x] = number[inbox[k]]]
               /\ click' = [click EXCEPT ![x] = "hashing"]
               /\ orderly' = (orderly /\ V!Hashing = {} /\ k = Cardinality(V!Clicked) + 1)
               /\ UNCHANGED <<vars, inbox, last, verdict, verified>>

Verify(x) == /\ UNCHANGED <<vars, inbox>>
             /\ \/ \E m \in 0..MaxNumber : V!PasteAltered(x, m)
                \/ V!Judge(x)

TNext == \/ Next /\ UNCHANGED <<inbox, device>>
         \/ \E r \in Run : Arrive(r)
         \/ \E x \in Click : \/ \E k \in 1..Len(inbox) : Paste(x, k)
                             \/ Verify(x)

TSpec == TInit /\ [][TNext]_tvars

-----------------------------------------------------------------------------
(* "Replay" is said of nothing but a replay: the same run's text has been   *)
(* pasted before, from the same place in the inbox or because it arrived    *)
(* twice (the page's "a repeat = replay"; SecurityVault.nextSequence never  *)
(* gives two texts one number).                                             *)
ReplayIsReplay ==
    \A x \in Click :
       V!Authentic(x) /\ verdict[x] = "replay" =>
          \E y \in Click \ {x} : V!Authentic(y) /\ inbox[place[y]] = inbox[place[x]]

(* A recipient who pastes every text once, in the order of arrival, and is  *)
(* told of a gap has missed a text: the number before this one belongs to a *)
(* run whose text is not in the inbox before it, for a cause that           *)
(* GapsHaveCauses admits (the page's "a jump = missed texts").              *)
Missed(r, p) == /\ mode[r] = "live"
                /\ \A k \in 1..(p - 1) : inbox[k] # r
                /\ texts[r] > 0 \/ pc[r] \notin {"idle", "green"} \/ outcome[r] = "failed"
GapIsLoss ==
    orderly =>
       \A x \in Click :
          V!Authentic(x) /\ verdict[x] = "gap" =>
             \E r \in Run : number[r] = num[x] - 1 /\ Missed(r, place[x])
===============================================================================
