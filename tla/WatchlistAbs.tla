----------------------------- MODULE WatchlistAbs -----------------------------
(***************************************************************************)
(* What the watchlist promises the people who text it: each command acts   *)
(* on the list and the pause flag in ONE indivisible step, some time       *)
(* between the moment it arrives and the moment it is answered, and the    *)
(* answer is the truth of that step.                                       *)
(*                                                                         *)
(* Two answers are looser than a first reading of the code suggests, and   *)
(* both are written down here:                                             *)
(*   - LIST reads the list and the flag in two steps, so its two halves    *)
(*     may describe two different moments;                                 *)
(*   - a full list is a reason to refuse an ADD even when the ticker is on *)
(*     it, because the unlocked duplicate check may have run before the    *)
(*     ticker got there.                                                   *)
(***************************************************************************)
EXTENDS WatchlistStore

CONSTANTS Exec,       \* executions that may overlap
          Command,    \* what a text may ask for
          NoCommand   \* an execution with nothing to do

VARIABLES list,   \* the list everyone sees
          flag,   \* are alerts paused
          call,   \* the command each execution is serving
          seen,   \* the list a LIST in progress has read
          answer  \* the reply each execution has decided on

vars == <<list, flag, call, seen, answer>>

NoAnswer == [text |-> "none", tickers |-> <<>>]
Unseen == [read |-> FALSE, tickers |-> <<>>]

Init == /\ list \in WatchLists
        /\ flag \in BOOLEAN
        /\ call = [x \in Exec |-> NoCommand]
        /\ seen = [x \in Exec |-> Unseen]
        /\ answer = [x \in Exec |-> NoAnswer]

Asked(x, kinds) == /\ call[x] # NoCommand
                   /\ call[x].kind \in kinds
                   /\ answer[x] = NoAnswer

Say(x, text, tickers) ==
    answer' = [answer EXCEPT ![x] = [text |-> text, tickers |-> tickers]]

Accept(x, c) == /\ call[x] = NoCommand
                /\ call' = [call EXCEPT ![x] = c]
                /\ UNCHANGED <<list, flag, seen, answer>>

(* Answers that say nothing changed, and are free to be given at any time. *)
Decline(x, text) == /\ \/ Asked(x, {"add"}) /\ text \in {"unknown_symbol", "unreachable"}
                       \/ Asked(x, {"add", "remove", "pause", "resume"}) /\ text = "busy"
                       \/ Asked(x, {"add", "remove"}) /\ ~IsValid(call[x].arg) /\ text = "invalid"
                       \/ Asked(x, {"help"}) /\ text = "help"
                    /\ Say(x, text, <<>>)
                    /\ UNCHANGED <<list, flag, call, seen>>

Add(x) == /\ Asked(x, {"add"})
          /\ IsValid(call[x].arg)
          /\ LET t == Canon[call[x].arg] IN
             \/ /\ ~Contains(list, t)
                /\ Len(list) < MaxTickers
                /\ list' = Added(list, t)
                /\ Say(x, "added", list')
             \/ /\ Contains(list, t)
                /\ Say(x, "duplicate", <<>>)
                /\ UNCHANGED list
             \/ /\ Len(list) = MaxTickers
                /\ Say(x, "at_cap", <<>>)
                /\ UNCHANGED list
          /\ UNCHANGED <<flag, call, seen>>

Remove(x) == /\ Asked(x, {"remove"})
             /\ IsValid(call[x].arg)
             /\ LET t == Canon[call[x].arg] IN
                \/ /\ Contains(list, t)
                   /\ list' = Removed(list, t)
                   /\ Say(x, "removed", list')
                \/ /\ ~Contains(list, t)
                   /\ Say(x, "not_found", <<>>)
                   /\ UNCHANGED list
             /\ UNCHANGED <<flag, call, seen>>

SetPaused(x) == /\ Asked(x, {"pause", "resume"})
                /\ flag' = (call[x].kind = "pause")
                /\ Say(x, IF flag' THEN "paused" ELSE "resumed", <<>>)
                /\ UNCHANGED <<list, call, seen>>

LookAtList(x) == /\ Asked(x, {"list"})
                 /\ seen' = [seen EXCEPT ![x] = [read |-> TRUE, tickers |-> list]]
                 /\ UNCHANGED <<list, flag, call, answer>>

LookAtFlag(x) == /\ Asked(x, {"list"})
                 /\ seen[x].read
                 /\ Say(x, IF flag THEN "list_paused" ELSE "list", seen[x].tickers)
                 /\ seen' = [seen EXCEPT ![x] = Unseen]
                 /\ UNCHANGED <<list, flag, call>>

(* The reply is sent, or the execution dies.  A death may come after the    *)
(* command took effect: whoever texted then gets no answer.                 *)
Finish(x) == /\ call[x] # NoCommand
             /\ call' = [call EXCEPT ![x] = NoCommand]
             /\ seen' = [seen EXCEPT ![x] = Unseen]
             /\ answer' = [answer EXCEPT ![x] = NoAnswer]
             /\ UNCHANGED <<list, flag>>

Next == \E x \in Exec :
            \/ \E c \in Command : Accept(x, c)
            \/ \E text \in {"unknown_symbol", "unreachable", "busy", "invalid", "help"} :
                   Decline(x, text)
            \/ Add(x) \/ Remove(x) \/ SetPaused(x)
            \/ LookAtList(x) \/ LookAtFlag(x)
            \/ Finish(x)

Spec == Init /\ [][Next]_vars
===============================================================================
