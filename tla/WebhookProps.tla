------------------------------ MODULE WebhookProps ------------------------------
(***************************************************************************)
(* What the gate and the commands promise together.                        *)
(***************************************************************************)
EXTENDS Webhook

(* Twilio may deliver a text twice, and executions may overlap and die:    *)
(* the list is written for it once, unless the replay memory had to forget *)
(* its id in between (SecurityGate layer 4 in front of Watchlist).         *)
WrittenOnce ==
    \A x, y \in wrote : x # y /\ text[x] = text[y] =>
       \E i, j \in 1..Len(granted) :
          /\ {granted[i].by, granted[j].by} = {x, y}
          /\ i < j
          /\ \/ granted[j].at - granted[i].at >= Ttl
             \/ j - i > MaxSids
             \/ i <= lost

(* The list and the flag change only for a command of the recipient's,     *)
(* under the lock, whose id has been recorded, and whose delivery found    *)
(* the bot open when it came in (CommandHandler.doPost: authorize first).  *)
OnlyAuthorizedChange ==
    [][\E x \in Delivery : /\ lock = x
                           /\ KindOf[text[x]] = "command"
                           /\ route[x] = "open"
                           /\ \E i \in 1..Len(granted) : granted[i].by = x]_<<stored, paused>>

(* Every delivery comes to an end, command and all.                        *)
WebhooksEnd == \A x \in Delivery : pc[x] # "idle" ~> pc[x] \in Over /\ wpc[x] = "idle"
===============================================================================
