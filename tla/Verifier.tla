-------------------------------- MODULE Verifier --------------------------------
(***************************************************************************)
(* The recipient's verifier (tools/spazito-verifier.html) at the far end   *)
(* of the numbered daily texts.                                            *)
(*                                                                         *)
(* The bot numbers its texts from a counter (Texts shows that the runs of  *)
(* Alert do issue one number after another).  A number may never become a  *)
(* text, and a text may be lost, arrive twice or be overtaken: of what was *)
(* issued, anything may arrive in any order, or nothing.  The recipient    *)
(* pastes what is in the inbox, or a text somebody altered, and clicks.    *)
(* The click handler reads the text, awaits the HMAC, and only then        *)
(* compares the number with the last one this device has verified; so      *)
(* clicks overlap.                                                         *)
(***************************************************************************)
EXTENDS Naturals, Sequences, FiniteSets

CONSTANTS
    Click,       \* clicks on Verify; each happens once
    Null,        \* nothing verified on this device yet
    FirstNumber, \* the counter when this device begins to verify
    MaxNumber,   \* bound on the numbers
    MaxInbox,    \* bound on the texts that arrive
    MaxRestarts  \* bound on the counter's loss

ASSUME VerifierAssumption == /\ Null \notin Nat
                             /\ MaxNumber \in Nat /\ FirstNumber \in 0..MaxNumber
                             /\ MaxInbox \in Nat /\ MaxRestarts \in Nat

VARIABLES
    counter,  \* Script Property SEC_MSG_COUNT
    restarts, \* how often it has been lost (bounded)
    issued,   \* the numbers claimed by daily runs, in order (history)
    inbox,    \* which of them has arrived, in order of arrival
    last,     \* localStorage spz_lastN_v1
    pc,       \* where each click is
    place,    \* which text of the inbox is pasted, 0 for an altered one
    n,        \* p.n, the number in the pasted text
    verdict,  \* what is painted of the number
    verified, \* the texts found authentic, by their place in `issued` (history)
    orderly   \* so far every text has been pasted once, in the order of arrival,
              \* and every click has waited for the one before (history)

bot == <<counter, restarts, issued>>
pasted == <<place, n>>
vars == <<bot, inbox, last, pc, pasted, verdict, verified, orderly>>

Verdicts == {"none", "first", "replay", "older", "follows", "gap"}

TypeOK == /\ counter \in 0..MaxNumber
          /\ restarts \in 0..MaxRestarts
          /\ issued \in Seq(1..MaxNumber)
          /\ inbox \in Seq(1..Len(issued)) /\ Len(inbox) <= MaxInbox
          /\ last \in 1..MaxNumber \cup {Null}
          /\ pc \in [Click -> {"idle", "hashing", "done"}]
          /\ place \in [Click -> 0..Len(inbox)]
          /\ n \in [Click -> 0..MaxNumber]
          /\ verdict \in [Click -> Verdicts]
          /\ verified \in SUBSET (1..Len(issued))
          /\ orderly \in BOOLEAN

Init == /\ counter = FirstNumber
        /\ restarts = 0
        /\ issued = <<>>
        /\ inbox = <<>>
        /\ last = Null
        /\ pc = [x \in Click |-> "idle"]
        /\ place = [x \in Click |-> 0]
        /\ n = [x \in Click |-> 0]
        /\ verdict = [x \in Click |-> "none"]
        /\ verified = {}
        /\ orderly = TRUE

-----------------------------------------------------------------------------
(* A daily run claims the next number.                                      *)
Issue == /\ counter < MaxNumber
         /\ counter' = counter + 1
         /\ issued' = Append(issued, counter')
         /\ UNCHANGED <<restarts, inbox, last, pc, pasted, verdict, verified, orderly>>

(* SecurityVault.currentSequence: a counter that does not parse counts as 0. *)
Restart == /\ restarts < MaxRestarts
           /\ restarts' = restarts + 1
           /\ counter' = 0
           /\ UNCHANGED <<issued, inbox, last, pc, pasted, verdict, verified, orderly>>

(* The text with the i-th number arrives: late, again, or overtaken by      *)
(* others; some were never sent, and some never arrive.                     *)
Arrive(i) == /\ Len(inbox) < MaxInbox
             /\ inbox' = Append(inbox, i)
             /\ UNCHANGED <<bot, last, pc, pasted, verdict, verified, orderly>>

Hashing == {x \in Click : pc[x] = "hashing"}
Clicked == {x \in Click : place[x] > 0}

(* Verify is clicked on the k-th text of the inbox: the text and the key    *)
(* are read, and the HMAC is awaited.                                       *)
Paste(x, k) == /\ pc[x] = "idle"
               /\ place' = [place EXCEPT ![x] = k]
               /\ n' = [n EXCEPT ![x] = issued[inbox[k]]]
               /\ pc' = [pc EXCEPT ![x] = "hashing"]
               /\ orderly' = (orderly /\ Hashing = {} /\ k = Cardinality(Clicked) + 1)
               /\ UNCHANGED <<bot, inbox, last, verdict, verified>>

(* Verify is clicked on a text that is not the bot's, or was altered, and   *)
(* may carry any number; or with another key.                               *)
PasteAltered(x, m) == /\ pc[x] = "idle"
                      /\ n' = [n EXCEPT ![x] = m]
                      /\ pc' = [pc EXCEPT ![x] = "hashing"]
                      /\ orderly' = (orderly /\ Hashing = {})
                      /\ UNCHANGED <<bot, inbox, last, place, verdict, verified>>

(* A slip: one missing text is not noticed. *)
CompareLoose(m, before) == CASE before = Null -> "first"
                             [] before # Null /\ m = before -> "replay"
                             [] before # Null /\ m < before -> "older"
                             [] before # Null /\ m \in (before + 1)..(before + 2) -> "follows"
                             [] before # Null /\ m > before + 2 -> "gap"

(* What the page says of a number, the last one being `before`.             *)
Compare(m, before) == CASE before = Null -> "first"
                        [] before # Null /\ m = before -> "replay"
                        [] before # Null /\ m < before -> "older"
                        [] before # Null /\ m = before + 1 -> "follows"
                        [] before # Null /\ m > before + 1 -> "gap"

Authentic(x) == place[x] > 0

(* Slips: the last number becomes whatever was verified last; it moves only *)
(* when the count follows; texts that are not the bot's move it too.        *)
JudgeAlways(x) ==
    /\ pc[x] = "hashing"
    /\ verdict' = [verdict EXCEPT ![x] = Compare(n[x], last)]
    /\ last' = IF Authentic(x) THEN n[x] ELSE last
    /\ verified' = IF Authentic(x) THEN verified \cup {inbox[place[x]]} ELSE verified
    /\ pc' = [pc EXCEPT ![x] = "done"]
    /\ UNCHANGED <<bot, inbox, pasted, orderly>>
JudgeFollowing(x) ==
    /\ pc[x] = "hashing"
    /\ verdict' = [verdict EXCEPT ![x] = Compare(n[x], last)]
    /\ last' = IF Authentic(x) /\ (last = Null \/ n[x] = last + 1) THEN n[x] ELSE last
    /\ verified' = IF Authentic(x) THEN verified \cup {inbox[place[x]]} ELSE verified
    /\ pc' = [pc EXCEPT ![x] = "done"]
    /\ UNCHANGED <<bot, inbox, pasted, orderly>>
JudgeAltered(x) ==
    /\ pc[x] = "hashing"
    /\ verdict' = [verdict EXCEPT ![x] = Compare(n[x], last)]
    /\ last' = IF last = Null \/ n[x] > last THEN n[x] ELSE last
    /\ verified' = IF Authentic(x) THEN verified \cup {inbox[place[x]]} ELSE verified
    /\ pc' = [pc EXCEPT ![x] = "done"]
    /\ UNCHANGED <<bot, inbox, pasted, orderly>>

(* The HMAC is there: the number is compared, painted, and, if the text is  *)
(* authentic and ahead, remembered.                                         *)
Judge(x) ==
    /\ pc[x] = "hashing"
    /\ verdict' = [verdict EXCEPT ![x] = Compare(n[x], last)]
    /\ last' = IF Authentic(x) /\ (last = Null \/ n[x] > last) THEN n[x] ELSE last
    /\ verified' = IF Authentic(x) THEN verified \cup {inbox[place[x]]} ELSE verified
    /\ pc' = [pc EXCEPT ![x] = "done"]
    /\ UNCHANGED <<bot, inbox, pasted, orderly>>

Next == \/ Issue
        \/ Restart
        \/ \E i \in 1..Len(issued) : Arrive(i)
        \/ \E x \in Click : \/ \E k \in 1..Len(inbox) : Paste(x, k)
                            \/ \E m \in 0..MaxNumber : PasteAltered(x, m)
                            \/ Judge(x)

Spec == Init /\ [][Next]_vars
===============================================================================
