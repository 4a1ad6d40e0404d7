------------------------------ MODULE MessageLine ------------------------------
(***************************************************************************)
(* One slot of the daily line, from what Alpha Vantage answers to what the *)
(* recipient reads: PriceService._quote, Formatter._segment, _parsePrice   *)
(* and _formatMoney.  Prices are counted in thousandths, the finest detail *)
(* that rounding looks at here; text is a sequence of characters.          *)
(***************************************************************************)
EXTENDS Integers, Sequences

CONSTANTS
    Symbols,   \* the tickers on the list
    Rules,     \* DISPLAY_RULES: the decimals, 0 or 2, of the tickers that have a rule
    Prices     \* the prices Alpha Vantage may quote, in thousandths

VARIABLES
    ticker,  \* the slot's ticker
    answer,  \* what the call came to
    quote,   \* what _quote made of it
    shown    \* the price in the message, NA when it is n/a

vars == <<ticker, answer, quote, shown>>

NA == <<"n", "/", "a">>

(* The answers _quote tells apart.  A price is a decimal string ("plain"),  *)
(* one whose value toFixed would write with an exponent ("huge"), a string  *)
(* that Number() takes and _parsePrice does not ("loose"), or none at all   *)
(* ("word").                                                                *)
Trouble == {"unreachable", "http_error", "garbled", "envelope", "error_message", "empty", "word"}
Answers == [kind : {"plain"}, price : Prices] \cup [kind : Trouble \cup {"loose", "huge"}, price : {0}]

Reasons == {"none", "fetch_error", "rate_limited", "api_error", "no_quote", "bad_price"}

(* PriceService._quote, by the order of its tests. *)
Reason(a) == CASE a.kind \in {"unreachable", "http_error", "garbled"} -> "fetch_error"
               [] a.kind = "envelope" -> "rate_limited"
               [] a.kind = "error_message" -> "api_error"
               [] a.kind = "empty" -> "no_quote"
               [] a.kind = "word" -> "bad_price"
               [] OTHER -> "none"
Quote(a) == [ok |-> Reason(a) = "none", reason |-> Reason(a)]

Decimals(t) == IF t \in DOMAIN Rules THEN Rules[t] ELSE 2

Abs(n) == IF n < 0 THEN -n ELSE n

(* A rule asks for cents or for none, and a price is below a billion: ten   *)
(* digits are room enough for it.                                           *)
LineAssumption == /\ \A t \in DOMAIN Rules : Rules[t] \in {0, 2}
                  /\ Prices \subseteq Int
                  /\ \A p \in Prices : Abs(p) \div 1000 < 10^9

(* The place toFixed rounds at, in thousandths. *)
Unit(d) == 1000 \div 10^d

(* A slip: the value is cut off instead of rounded. *)
RoundedDown(p, d) == {Abs(p) \div Unit(d)}
(* toFixed: the nearest multiple of the unit.  Half way between two, the    *)
(* larger is taken when the price is a double, that is a whole number of    *)
(* eighths; any other such price is stored slightly high or slightly low.   *)
Rounded(p, d) == LET down == Abs(p) \div Unit(d)
                     rest == Abs(p) % Unit(d)
                 IN  CASE 2 * rest < Unit(d) -> {down}
                       [] 2 * rest > Unit(d) -> {down + 1}
                       [] 2 * rest = Unit(d) /\ p % 125 = 0 -> {down + 1}
                       [] OTHER -> {down, down + 1}

(* A whole number in digits, padded to w of them. *)
Digit == <<"0", "1", "2", "3", "4", "5", "6", "7", "8", "9">>
Padded(n, w) == [i \in 1..w |-> Digit[((n \div 10^(w - i)) % 10) + 1]]
Width(n) == CHOOSE w \in 1..10 : /\ w = 10 \/ n < 10^w
                                 /\ \A v \in 1..(w - 1) : n >= 10^v
Digits(n) == Padded(n, Width(n))

(* A slip: the digits are counted off from the left.                        *)
CommaFromLeft(s, i) == i > 1 /\ (i - 1) % 3 = 0
(* The lookahead of _formatMoney: behind a digit, and a multiple of three   *)
(* digits to the end.                                                       *)
CommaBefore(s, i) == i > 1 /\ (Len(s) - i + 1) % 3 = 0
Grouped(s) ==
    LET grouped[i \in 0..Len(s)] ==
            IF i = 0 THEN <<>>
            ELSE IF CommaBefore(s, i) THEN Append(Append(grouped[i - 1], ","), s[i])
            ELSE Append(grouped[i - 1], s[i])
    IN  grouped[Len(s)]

(* _formatMoney, of a value rounded to n units. *)
Money(p, d, n) == LET sign == IF p < 0 THEN <<"-">> ELSE <<>>
                      fraction == IF d = 0 THEN <<>> ELSE <<".">> \o Padded(n % 10^d, d)
                  IN  sign \o Grouped(Digits(n \div 10^d)) \o fraction

(* A slip: values beyond MAX_FORMATTABLE are formatted all the same. *)
SegmentOfHuge(t, a, q) ==
    IF ~q.ok \/ a.kind = "loose" THEN {NA}
    ELSE IF a.kind = "huge" THEN {<<"1", "e", "+", "2", "1">>}
    ELSE {Money(a.price, Decimals(t), n) : n \in Rounded(a.price, Decimals(t))}

(* _segment and _parsePrice: what the slot may show. *)
Segment(t, a, q) ==
    IF ~q.ok \/ a.kind \in {"loose", "huge"} THEN {NA}
    ELSE {Money(a.price, Decimals(t), n) : n \in Rounded(a.price, Decimals(t))}

Init == /\ ticker \in Symbols
        /\ answer = [kind |-> "empty", price |-> 0]
        /\ quote = Quote(answer)
        /\ shown \in Segment(ticker, answer, quote)

(* The next run's answer for the ticker. *)
NextRun(a) == /\ answer' = a
              /\ quote' = Quote(a)
              /\ shown' \in Segment(ticker, a, quote')
              /\ UNCHANGED ticker

Next == \E a \in Answers : NextRun(a)

Spec == Init /\ [][Next]_vars
================================================================================
