---------------------------- MODULE WatchlistStore ----------------------------
(***************************************************************************)
(* What the WATCHLIST Script Property holds and how it is read.            *)
(*                                                                         *)
(* The property is unset, or holds text that is not a JSON array, or holds *)
(* an array of entries.  The bot only ever stores clean lists, but the     *)
(* owner may edit the property by hand or restore an old backup, so every  *)
(* read heals what it finds (Watchlist.tickers, src/src/Watchlist.js).     *)
(***************************************************************************)
EXTENDS Naturals, Sequences, FiniteSets

CONSTANTS
    Entry,          \* what a slot of a stored array, or a command's argument, may hold
    Ticker,         \* the entries that are canonical, ticker-shaped symbols
    Canon,          \* Tickers.normalize, as a function on Entry
    MaxTickers,     \* MAX_TICKERS
    DefaultTickers, \* DEFAULT_TICKERS
    Unset,          \* the property does not exist
    Corrupt         \* the property is not a JSON array

(* A list the bot may show, store and spend API calls on. *)
WatchLists == {l \in Seq(Ticker) : /\ Len(l) <= MaxTickers
                                   /\ \A i, j \in 1..Len(l) : l[i] = l[j] => i = j}

ASSUME StoreAssumption ==
    /\ Ticker \subseteq Entry
    /\ Canon \in [Entry -> Entry]
    /\ \A t \in Ticker : Canon[t] = t
    /\ MaxTickers \in Nat \ {0}
    /\ DefaultTickers \in WatchLists
    /\ Unset \notin Seq(Entry)
    /\ Corrupt \notin Seq(Entry)

(* Every value the property may hold. *)
Raw == Seq(Entry) \cup {Unset, Corrupt}

(* Tickers.isValid: it normalizes before it tests the shape. *)
IsValid(e) == Canon[e] \in Ticker

Contains(l, t) == \E i \in 1..Len(l) : l[i] = t

(* A slip in healing: duplicates are looked for before normalizing. *)
KeptAsSpelled(s) == {i \in 1..Len(s) : /\ IsValid(s[i])
                                       /\ \A j \in 1..(i - 1) : s[j] # s[i]}

(* The slots that survive healing: ticker-shaped, first of their symbol. *)
Kept(s) == {i \in 1..Len(s) : /\ IsValid(s[i])
                              /\ \A j \in 1..(i - 1) : Canon[s[j]] # Canon[s[i]]}

(* How many surviving slots there are up to slot n. *)
KeptUpTo(s, n) == Cardinality(Kept(s) \cap 1..n)

(* Slips in the cap on reads: forgotten, or off by one. *)
HealedLenUncapped(s) == KeptUpTo(s, Len(s))
HealedLenShort(s) == LET n == KeptUpTo(s, Len(s))
                     IN  IF n >= MaxTickers THEN MaxTickers - 1 ELSE n

HealedLen(s) == LET n == KeptUpTo(s, Len(s))
                IN  IF n > MaxTickers THEN MaxTickers ELSE n

(* The k-th symbol of the healed list is that of the k-th surviving slot. *)
Healed(s) == [k \in 1..HealedLen(s) |->
                 Canon[s[CHOOSE i \in Kept(s) : KeptUpTo(s, i) = k]]]

(* Watchlist.tickers *)
Tickers(raw) == IF raw \in {Unset, Corrupt} THEN DefaultTickers ELSE Healed(raw)

(* current.concat([ticker]) and current.filter(x => x !== ticker).  A clean *)
(* list holds a ticker once, so filtering it out removes one slot.          *)
Added(l, t) == Append(l, t)
Removed(l, t) == LET i == CHOOSE i \in 1..Len(l) : l[i] = t
                 IN  SubSeq(l, 1, i - 1) \o SubSeq(l, i + 1, Len(l))
===============================================================================
