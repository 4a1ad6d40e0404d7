---------------------------- MODULE WatchlistProps ----------------------------
(***************************************************************************)
(* What must hold of the watchlist commands, whatever texts overlap.       *)
(***************************************************************************)
EXTENDS Watchlist

(* The script lock excludes: an execution is between waitLock and          *)
(* releaseLock exactly when the lock is its own (Locks.withScriptLock), so *)
(* no two writers are ever inside, and no dead execution keeps the lock.   *)
LockOwnership == \A x \in Exec : (pc[x] \in {"read", "write", "release"}) <=> (lock = x)

(* No lost update: when add or remove is about to store, the list it       *)
(* computed from is still the list a fresh read would return, because      *)
(* every write is made under the lock (Watchlist.add, Watchlist.remove).   *)
ReadStaysCurrent ==
    \A x \in Exec : /\ pc[x] = "write"
                    /\ cmd[x].kind \in {"add", "remove"}
                    => current[x] = Tickers(stored)

(* The bot never stores a list it would have to heal: what a write leaves  *)
(* is ticker-shaped, without duplicates and under the cap, even when two   *)
(* adds passed the free checks together or the property held junk before.  *)
WritesAreClean == [][stored' \in WatchLists]_stored

(* Only a confirmed symbol enters the list (CommandHandler._add): a ticker *)
(* that was not visible before a step and is after it is the one the       *)
(* lock's holder was asked to add, and its own paid check said ok.         *)
AddsAreConfirmed ==
    [][\A t \in Ticker :
          ~Contains(Tickers(stored), t) /\ Contains(Tickers(stored'), t)
             => \E x \in Exec : /\ lock = x
                                /\ cmd[x].kind = "add"
                                /\ Symbol(x) = t
                                /\ quote[x] = "ok"]_stored

(* Every text is finished with: it is answered, or its execution died.     *)
(* Waiting for the lock cannot starve it, because withScriptLock gives up. *)
CommandsEnd == \A x \in Exec : pc[x] # "idle" ~> pc[x] = "idle"

(* The overlapping, dying executions implement the one-step promises of    *)
(* WatchlistAbs: the list everyone sees is what a read of the property     *)
(* returns, and every reply is the truth of the step it stands for.        *)
Abs == INSTANCE WatchlistAbs WITH
           list   <- Tickers(stored),
           flag   <- paused,
           call   <- cmd,
           seen   <- [x \in Exec |-> [read |-> pc[x] = "flag",
                                      tickers |-> IF pc[x] = "flag" THEN current[x] ELSE <<>>]],
           answer <- reply

RepliesAreTrue == Abs!Spec
===============================================================================
