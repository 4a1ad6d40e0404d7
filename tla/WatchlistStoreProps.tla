-------------------------- MODULE WatchlistStoreProps --------------------------
(***************************************************************************)
(* Healing against the loop of Watchlist.tickers, on every array of up to  *)
(* MaxSlots slots: the array grows by hand edits and by the bot's writes.  *)
(***************************************************************************)
EXTENDS WatchlistStore

CONSTANT MaxSlots \* bound on the hand-edited array

VARIABLE array

(* `clean` after i rounds of the loop of Watchlist.tickers: an entry that   *)
(* is no ticker, or is there already, is passed over.                       *)
Clean(s) ==
    LET clean[i \in 0..Len(s)] ==
            IF i = 0 THEN <<>>
            ELSE IF ~IsValid(s[i]) \/ Contains(clean[i - 1], Canon[s[i]]) THEN clean[i - 1]
            ELSE Append(clean[i - 1], Canon[s[i]])
    IN  clean

(* The loop, and the slice that caps what it returns. *)
Loop(s) == LET clean == Clean(s)[Len(s)]
           IN  IF Len(clean) > MaxTickers THEN SubSeq(clean, 1, MaxTickers) ELSE clean

(* current.filter(x => x !== t), slot by slot. *)
Filtered(l, t) ==
    LET rest[i \in 0..Len(l)] == IF i = 0 THEN <<>>
                                 ELSE IF l[i] = t THEN rest[i - 1]
                                 ELSE Append(rest[i - 1], l[i])
    IN  rest[Len(l)]

Init == array = <<>>

(* The owner adds a slot in the properties editor. *)
Edit == /\ Len(array) < MaxSlots
        /\ \E e \in Entry : array' = Append(array, e)

(* The bot adds or removes a ticker, and so stores a healed array. *)
Store == LET l == Tickers(array) IN
         \E t \in Ticker : \/ /\ ~Contains(l, t)
                              /\ Len(l) < MaxTickers
                              /\ array' = Added(l, t)
                           \/ /\ Contains(l, t)
                              /\ array' = Removed(l, t)

Next == Edit \/ Store

Spec == Init /\ [][Next]_array

(* Healing by ranks returns what the loop of Watchlist.tickers computes:   *)
(* normalized, valid, the first of each symbol, at most MaxTickers.        *)
HealedIsTheLoop == Healed(array) = Loop(array)

(* An add or a remove changes what everyone sees by its own ticker only,   *)
(* and keeps the order of the others, even when the array it started from  *)
(* was dirty: a write never drops or revives what healing left or hid.     *)
StoreTouchesOne ==
    [][Store => LET old == Tickers(array)
                    new == Tickers(array')
                IN  \E t \in Ticker :
                       \/ ~Contains(old, t) /\ new = old \o <<t>>
                       \/ Contains(old, t) /\ new = Filtered(old, t)]_array
===============================================================================
