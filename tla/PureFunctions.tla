----------------------------- MODULE PureFunctions -----------------------------
(***************************************************************************)
(* The functions that keep no state of their own: the constant-time        *)
(* compare, the command parser, a slot of the message line, and the        *)
(* healing of the stored list.  A behaviour exercises one of them, and the *)
(* others rest, so that their inputs add up instead of multiplying.        *)
(***************************************************************************)
EXTENDS SecureCompare

CONSTANTS Word, Blank, Lower, Upper, NoBody, MaxBody,      \* CommandParser
          Symbols, Rules, Prices,                          \* MessageLine
          Entry, Ticker, Canon, MaxTickers, DefaultTickers,
          Unset, Corrupt, MaxSlots                         \* WatchlistStore

VARIABLES body, intent,                 \* the parser's
          ticker, answer, quote, shown, \* the line's
          array,                        \* the store's
          turn                          \* which of the four is exercised

Parser == INSTANCE CommandParserProps
Line == INSTANCE MessageLineProps
Store == INSTANCE WatchlistStoreProps

ASSUME FunctionsAssumption == /\ Store!StoreAssumption
                              /\ Line!LineAssumption

compareVars == vars
parserVars == <<body, intent>>
lineVars == <<ticker, answer, quote, shown>>
allVars == <<compareVars, parserVars, lineVars, array, turn>>

-----------------------------------------------------------------------------
CompareRests == a = NotString /\ b = NotString /\ i = 0 /\ diff = 0 /\ pc = "done" /\ result = FALSE
ParserRests == body = NoBody /\ intent = Parser!Parse(NoBody)
LineRests == /\ ticker = (CHOOSE t \in Symbols : TRUE) /\ shown = Line!NA
             /\ answer = [kind |-> "empty", price |-> 0]
             /\ quote = Line!Quote(answer)

FInit == \/ turn = "compare" /\ Init /\ ParserRests /\ LineRests /\ Store!Init
         \/ turn = "parse" /\ CompareRests /\ Parser!Init /\ LineRests /\ Store!Init
         \/ turn = "line" /\ CompareRests /\ ParserRests /\ Line!Init /\ Store!Init
         \/ turn = "store" /\ CompareRests /\ ParserRests /\ LineRests /\ Store!Init

FNext == /\ UNCHANGED turn
         /\ \/ turn = "compare" /\ Next /\ UNCHANGED <<parserVars, lineVars, array>>
            \/ turn = "parse" /\ Parser!Next /\ UNCHANGED <<compareVars, lineVars, array>>
            \/ turn = "line" /\ Line!Next /\ UNCHANGED <<compareVars, parserVars, array>>
            \/ turn = "store" /\ Store!Next /\ UNCHANGED <<compareVars, parserVars, lineVars>>

FSpec == FInit /\ [][FNext]_allVars

-----------------------------------------------------------------------------
(* The unlock word reaches the gate as it was typed (CommandParserProps).  *)
UnlockVerbatim == Parser!UnlockVerbatim

(* What is read off the line is the quoted price (MessageLineProps).       *)
ReadsAsThePrice == Line!ReadsAsThePrice

(* Commas stand before every third digit only (MessageLineProps).          *)
GroupedByThousands == Line!GroupedByThousands

(* Healing is the loop of Watchlist.tickers (WatchlistStoreProps).         *)
HealedIsTheLoop == Store!HealedIsTheLoop

(* A write changes what is seen by its own ticker (WatchlistStoreProps).   *)
StoreTouchesOne == Store!StoreTouchesOne
================================================================================
