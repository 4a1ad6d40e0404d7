------------------------------ MODULE Watchlist ------------------------------
(***************************************************************************)
(* The commands a recipient can text about the watchlist, as executions    *)
(* that overlap: Apps Script runs every webhook call in an execution of    *)
(* its own, all of them on the same Script Properties and the same script  *)
(* lock.                                                                   *)
(*                                                                         *)
(* One execution serves one text: CommandHandler dispatches it, ADD makes  *)
(* its free checks on an unlocked read and then its paid one, the writers  *)
(* go through Locks.withScriptLock (wait, read, write, release, or give up *)
(* as busy) and one reply is sent.  Each step below is what can happen     *)
(* between two accesses to shared state, so any other execution may run in *)
(* between.  An execution may die at any point (an exception that doPost   *)
(* swallows, the six-minute limit); the lock is freed by the `finally` of  *)
(* withScriptLock, or by the platform.                                     *)
(***************************************************************************)
EXTENDS WatchlistStore

CONSTANTS Exec,      \* executions that may overlap
          NoExec,    \* the lock is free
          Other,     \* the daily run or a check of the gate holds it
          NoCommand, \* an execution that is not serving a text
          RawInit    \* what the property may hold at the start

ASSUME ExecAssumption == /\ NoExec \notin Exec /\ Other \notin Exec /\ Other # NoExec
                         /\ RawInit \subseteq Raw

Command == [kind : {"add", "remove"}, arg : Entry]
             \cup [kind : {"pause", "resume", "list", "help"}]

ASSUME CommandAssumption == NoCommand \notin Command

VARIABLES
    stored,  \* Script Property WATCHLIST
    paused,  \* Script Property PAUSED is "true"
    lock,    \* the execution that holds the script lock
    pc,      \* where each execution is
    cmd,     \* the text it serves
    quote,   \* what PriceService said of the ticker to be added
    current, \* `current` in Watchlist.add and remove, the list in LIST
    reply    \* the reply it is going to send

vars == <<stored, paused, lock, pc, cmd, quote, current, reply>>
local == <<cmd, quote, current, reply>>

Locations == {"idle", "dispatch", "has", "full", "quote", "lock", "read", "write",
              "release", "tickers", "flag", "send"}

(* `ok`, the one failure that means "no such symbol", and all the others.   *)
Verdicts == {"none", "ok", "no_quote", "failed"}

ReplyTexts == {"none", "invalid", "duplicate", "at_cap", "unknown_symbol", "unreachable",
               "added", "removed", "not_found", "paused", "resumed", "busy",
               "list", "list_paused", "help"}

NoReply == [text |-> "none", tickers |-> <<>>]

TypeOK == /\ stored \in Raw
          /\ paused \in BOOLEAN
          /\ lock \in Exec \cup {NoExec, Other}
          /\ pc \in [Exec -> Locations]
          /\ cmd \in [Exec -> Command \cup {NoCommand}]
          /\ quote \in [Exec -> Verdicts]
          /\ current \in [Exec -> WatchLists]
          /\ reply \in [Exec -> [text : ReplyTexts, tickers : WatchLists]]

Init == /\ stored \in RawInit
        /\ paused \in BOOLEAN
        /\ lock = NoExec
        /\ pc = [x \in Exec |-> "idle"]
        /\ cmd = [x \in Exec |-> NoCommand]
        /\ quote = [x \in Exec |-> "none"]
        /\ current = [x \in Exec |-> <<>>]
        /\ reply = [x \in Exec |-> NoReply]

-----------------------------------------------------------------------------
At(x, l) == pc[x] = l
Goto(x, l) == pc' = [pc EXCEPT ![x] = l]
Say(x, text, tickers) == reply' = [reply EXCEPT ![x] = [text |-> text, tickers |-> tickers]]
Symbol(x) == Canon[cmd[x].arg]

(* Twilio delivers a text and the gate lets it through. *)
Receive(x, c) == /\ At(x, "idle")
                 /\ cmd' = [cmd EXCEPT ![x] = c]
                 /\ Goto(x, "dispatch")
                 /\ UNCHANGED <<stored, paused, lock, quote, current, reply>>

(* The dispatch table, and the format check ADD and REMOVE start with. *)
Dispatch(x) ==
    /\ At(x, "dispatch")
    /\ \/ /\ cmd[x].kind \in {"add", "remove"}
          /\ ~IsValid(cmd[x].arg)
          /\ Say(x, "invalid", <<>>)
          /\ Goto(x, "send")
       \/ /\ cmd[x].kind = "add"
          /\ IsValid(cmd[x].arg)
          /\ Goto(x, "has")
          /\ UNCHANGED reply
       \/ /\ cmd[x].kind = "remove"
          /\ IsValid(cmd[x].arg)
          /\ Goto(x, "lock")
          /\ UNCHANGED reply
       \/ /\ cmd[x].kind \in {"pause", "resume"}
          /\ Goto(x, "lock")
          /\ UNCHANGED reply
       \/ /\ cmd[x].kind = "list"
          /\ Goto(x, "tickers")
          /\ UNCHANGED reply
       \/ /\ cmd[x].kind = "help"
          /\ Say(x, "help", <<>>)
          /\ Goto(x, "send")
    /\ UNCHANGED <<stored, paused, lock, cmd, quote, current>>

(* Watchlist.has: free, unlocked, advisory. *)
Has(x) == /\ At(x, "has")
          /\ IF Contains(Tickers(stored), Symbol(x))
             THEN /\ Say(x, "duplicate", <<>>)
                  /\ Goto(x, "send")
             ELSE /\ Goto(x, "full")
                  /\ UNCHANGED reply
          /\ UNCHANGED <<stored, paused, lock, cmd, quote, current>>

(* Watchlist.isFull: a second unlocked read. *)
IsFull(x) == /\ At(x, "full")
             /\ IF Len(Tickers(stored)) >= MaxTickers
                THEN /\ Say(x, "at_cap", <<>>)
                     /\ Goto(x, "send")
                ELSE /\ Goto(x, "quote")
                     /\ UNCHANGED reply
             /\ UNCHANGED <<stored, paused, lock, cmd, quote, current>>

(* A slip: only "no such symbol" is treated as a failed check. *)
QuotesForLenient(x) ==
    /\ At(x, "quote")
    /\ \E v \in {"ok", "no_quote", "failed"} :
          /\ quote' = [quote EXCEPT ![x] = v]
          /\ IF v = "no_quote"
             THEN Say(x, "unknown_symbol", <<>>) /\ Goto(x, "send")
             ELSE Goto(x, "lock") /\ UNCHANGED reply
    /\ UNCHANGED <<stored, paused, lock, cmd, current>>

(* The one paid call, and what its answer makes of the command. *)
QuotesFor(x) ==
    /\ At(x, "quote")
    /\ \E v \in {"ok", "no_quote", "failed"} :
          /\ quote' = [quote EXCEPT ![x] = v]
          /\ \/ /\ v = "ok"
                /\ Goto(x, "lock")
                /\ UNCHANGED reply
             \/ /\ v = "no_quote"
                /\ Say(x, "unknown_symbol", <<>>)
                /\ Goto(x, "send")
             \/ /\ v = "failed"
                /\ Say(x, "unreachable", <<>>)
                /\ Goto(x, "send")
    /\ UNCHANGED <<stored, paused, lock, cmd, current>>

(* A slip: the work is done whether or not the lock was obtained. *)
AcquireAnyway(x) == /\ At(x, "lock")
                    /\ lock' = x
                    /\ Goto(x, IF cmd[x].kind \in {"add", "remove"} THEN "read" ELSE "write")
                    /\ UNCHANGED <<stored, paused, local>>

(* waitLock returns.  ADD and REMOVE go on to read, setPaused just writes. *)
Acquire(x) == /\ At(x, "lock")
              /\ lock = NoExec
              /\ lock' = x
              /\ Goto(x, IF cmd[x].kind \in {"add", "remove"} THEN "read" ELSE "write")
              /\ UNCHANGED <<stored, paused, local>>

(* A slip: a timed-out wait is tried again instead of answered. *)
BusyRetry(x) == /\ At(x, "lock")
                /\ lock # NoExec
                /\ UNCHANGED vars

(* waitLock throws after LOCK_TIMEOUT_MS: somebody else has held the lock. *)
Busy(x) == /\ At(x, "lock")
           /\ lock # NoExec
           /\ Say(x, "busy", <<>>)
           /\ Goto(x, "send")
           /\ UNCHANGED <<stored, paused, lock, cmd, quote, current>>

(* A slip: the free checks are trusted, and not made again under the lock. *)
ReadTrusting(x) == /\ At(x, "read")
                   /\ current' = [current EXCEPT ![x] = Tickers(stored)]
                   /\ IF cmd[x].kind = "add" \/ Contains(current'[x], Symbol(x))
                      THEN Goto(x, "write") /\ UNCHANGED reply
                      ELSE Say(x, "not_found", <<>>) /\ Goto(x, "release")
                   /\ UNCHANGED <<stored, paused, lock, cmd, quote>>

(* `const current = this.tickers()` under the lock, and the checks on it. *)
ReadUnderLock(x) ==
    /\ At(x, "read")
    /\ current' = [current EXCEPT ![x] = Tickers(stored)]
    /\ LET tracked == Contains(current'[x], Symbol(x)) IN
       \/ /\ cmd[x].kind = "add"
          /\ tracked
          /\ Say(x, "duplicate", <<>>)
          /\ Goto(x, "release")
       \/ /\ cmd[x].kind = "add"
          /\ ~tracked
          /\ Len(current'[x]) >= MaxTickers
          /\ Say(x, "at_cap", <<>>)
          /\ Goto(x, "release")
       \/ /\ cmd[x].kind = "remove"
          /\ ~tracked
          /\ Say(x, "not_found", <<>>)
          /\ Goto(x, "release")
       \/ /\ \/ cmd[x].kind = "add" /\ ~tracked /\ Len(current'[x]) < MaxTickers
             \/ cmd[x].kind = "remove" /\ tracked
          /\ Goto(x, "write")
          /\ UNCHANGED reply
    /\ UNCHANGED <<stored, paused, lock, cmd, quote>>

(* Watchlist._store, or the property write of setPaused. *)
Write(x) ==
    /\ At(x, "write")
    /\ \/ /\ cmd[x].kind = "add"
          /\ stored' = Added(current[x], Symbol(x))
          /\ Say(x, "added", stored')
          /\ UNCHANGED paused
       \/ /\ cmd[x].kind = "remove"
          /\ stored' = Removed(current[x], Symbol(x))
          /\ Say(x, "removed", stored')
          /\ UNCHANGED paused
       \/ /\ cmd[x].kind \in {"pause", "resume"}
          /\ paused' = (cmd[x].kind = "pause")
          /\ Say(x, IF paused' THEN "paused" ELSE "resumed", <<>>)
          /\ UNCHANGED stored
    /\ Goto(x, "release")
    /\ UNCHANGED <<lock, cmd, quote, current>>

(* `finally { lock.releaseLock() }` *)
Release(x) == /\ At(x, "release")
              /\ lock' = NoExec
              /\ Goto(x, "send")
              /\ UNCHANGED <<stored, paused, local>>

(* LIST: the list, then the flag, neither under the lock. *)
ListTickers(x) == /\ At(x, "tickers")
                  /\ current' = [current EXCEPT ![x] = Tickers(stored)]
                  /\ Goto(x, "flag")
                  /\ UNCHANGED <<stored, paused, lock, cmd, quote, reply>>

ListFlag(x) == /\ At(x, "flag")
               /\ Say(x, IF paused THEN "list_paused" ELSE "list", current[x])
               /\ Goto(x, "send")
               /\ UNCHANGED <<stored, paused, lock, cmd, quote, current>>

(* The execution is over; its locals are gone. *)
End(x) == /\ Goto(x, "idle")
          /\ cmd' = [cmd EXCEPT ![x] = NoCommand]
          /\ quote' = [quote EXCEPT ![x] = "none"]
          /\ current' = [current EXCEPT ![x] = <<>>]
          /\ reply' = [reply EXCEPT ![x] = NoReply]

(* SmsService.send never throws and is never retried: sent or not, this is *)
(* the end of the command.                                                 *)
SendReply(x) == /\ At(x, "send")
                /\ End(x)
                /\ UNCHANGED <<stored, paused, lock>>

(* A slip: no `finally`, so an execution that dies inside keeps the lock. *)
DieHolding(x) == /\ ~At(x, "idle")
                 /\ End(x)
                 /\ UNCHANGED <<stored, paused, lock>>

(* The execution dies without an answer, whatever it has done so far. *)
Die(x) == /\ ~At(x, "idle")
          /\ lock' = IF lock = x THEN NoExec ELSE lock
          /\ End(x)
          /\ UNCHANGED <<stored, paused>>

(* What an execution does by itself, once it has been given a text. *)
Step(x) == \/ Dispatch(x) \/ Has(x) \/ IsFull(x) \/ QuotesFor(x)
           \/ Acquire(x) \/ Busy(x) \/ ReadUnderLock(x) \/ Write(x) \/ Release(x)
           \/ ListTickers(x) \/ ListFlag(x)
           \/ SendReply(x)

(* The script has one lock: the daily run takes it for the sequence number, *)
(* the gate for the replay memory, the failures and the seal.               *)
OtherLock == /\ \/ lock = NoExec /\ lock' = Other
                \/ lock = Other /\ lock' = NoExec
             /\ UNCHANGED <<stored, paused, pc, local>>

Next == \/ \E x \in Exec : \/ \E c \in Command : Receive(x, c)
                           \/ Step(x)
                           \/ Die(x)
        \/ OtherLock

(* Fairness: a running execution keeps running.  Nothing is assumed of the  *)
(* texts that arrive, of the quote's verdict, of deaths, or of the lock's   *)
(* other users.                                                             *)
Fairness == \A x \in Exec : WF_vars(Step(x))

Spec == Init /\ [][Next]_vars /\ Fairness
===============================================================================
