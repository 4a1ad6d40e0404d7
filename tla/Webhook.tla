-------------------------------- MODULE Webhook --------------------------------
(***************************************************************************)
(* The whole of CommandHandler.doPost: the gate and, behind it, the        *)
(* watchlist commands, in one execution per delivery and over one script   *)
(* lock.  The daily run is the lock's third user (Other).                  *)
(*                                                                         *)
(* A delivery that the gate lets through hands its command to Watchlist    *)
(* and sends one reply when that is done.  LOG and UNLOCK are answered by  *)
(* the gate's own Serve.                                                   *)
(***************************************************************************)
EXTENDS Gate

CONSTANTS
    CommandOf, \* what a text of kind "command" asks for
    NoCommand,
    Ticker, Entry, Canon, MaxTickers, DefaultTickers, Unset, Corrupt, RawInit

VARIABLES stored, paused, wpc, cmd, quote, current, reply,
          wrote \* deliveries that have written the list or the flag (history)

list == <<stored, paused, wpc, cmd, quote, current, reply>>
gate == <<memory, guard, pc, then, local>>
all == <<vars, list, wrote>>

W == INSTANCE Watchlist WITH Exec <- Delivery, NoExec <- NoOne, pc <- wpc

ASSUME WebhookAssumption ==
    /\ W!StoreAssumption /\ W!ExecAssumption /\ W!CommandAssumption
    /\ CommandOf \in [{t \in Text : KindOf[t] = "command"} -> W!Command]

WInit == /\ Init
         /\ W!Init
         /\ wrote = {}

-----------------------------------------------------------------------------
(* The network, and the gate. *)
Deliver(x, t) == Arrive(x, t) /\ UNCHANGED <<list, wrote>>
Authorized(x) == Guard(x) /\ UNCHANGED <<list, wrote>>

(* LOG and UNLOCK, which touch neither list nor flag. *)
Answer(x) == /\ At(x, "serve")
             /\ KindOf[text[x]] # "command"
             /\ Serve(x)
             /\ UNCHANGED <<list, wrote>>

(* A command is handed on. *)
HandOn(x) == /\ At(x, "serve")
             /\ KindOf[text[x]] = "command"
             /\ Serve(x)
             /\ W!Receive(x, CommandOf[text[x]])
             /\ UNCHANGED wrote

(* The command does its work, and notes that it has written. *)
Work(x) == /\ \/ W!Dispatch(x) \/ W!Has(x) \/ W!IsFull(x) \/ W!QuotesFor(x)
              \/ W!Acquire(x) \/ W!Busy(x) \/ W!ReadUnderLock(x) \/ W!Release(x)
              \/ W!ListTickers(x) \/ W!ListFlag(x)
           /\ UNCHANGED <<gate, wrote>>

Change(x) == /\ W!Write(x)
             /\ wrote' = wrote \cup {x}
             /\ UNCHANGED gate

(* The one reply, and the end of the execution. *)
Reply(x) == /\ Send(x)
            /\ \/ wpc[x] = "send" /\ W!SendReply(x)
               \/ wpc[x] = "idle" /\ UNCHANGED list
            /\ UNCHANGED wrote

(* An execution dies wherever it is. *)
Perish(x) == /\ Die(x)
             /\ \/ W!Die(x)
                \/ wpc[x] = "idle" /\ UNCHANGED list
             /\ UNCHANGED wrote

Environment == (Tick \/ OtherLock \/ Forget) /\ UNCHANGED <<list, wrote>>

Run(x) == Authorized(x) \/ Answer(x) \/ HandOn(x) \/ Work(x) \/ Change(x) \/ Reply(x)

WNext == \/ \E x \in Delivery : \/ \E t \in Text : Deliver(x, t)
                                \/ Run(x)
                                \/ Perish(x)
         \/ Environment

(* Fairness: as in the parts, an execution in progress keeps running. *)
WFairness == \A x \in Delivery : WF_all(Run(x))

WSpec == WInit /\ [][WNext]_all /\ WFairness
===============================================================================
