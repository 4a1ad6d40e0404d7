------------------------------ MODULE CommandParser ------------------------------
(***************************************************************************)
(* core/CommandParser.parse, on texts that are typed one token at a time.  *)
(* A text is a sequence of words and of single blanks (a space, a newline);*)
(* two words never touch, since they would be one.                         *)
(***************************************************************************)
EXTENDS Naturals, Sequences, FiniteSetsExt

CONSTANTS
    Word,     \* what a person may type between blanks
    Blank,    \* the characters \s matches, none of them a Word
    Lower,    \* String.toLowerCase, in [Word -> Word]
    Upper,    \* String.toUpperCase, in [Word -> Word]
    NoBody,   \* a Body that is not a string
    MaxBody   \* bound on the length of a text, in tokens

VARIABLES
    body,   \* the Body of the POST so far
    intent  \* what parse(body) says

vars == <<body, intent>>

(* ALIASES and ARG_SPECS. *)
Aliases == [add |-> "add", remove |-> "remove", pause |-> "pause", stop |-> "pause",
            resume |-> "resume", start |-> "resume", list |-> "list", status |-> "list",
            help |-> "help", log |-> "log", unlock |-> "unlock"]
ArgSpecs == [add |-> "ticker", remove |-> "ticker", unlock |-> "raw"]

Bodies == Seq(Word \cup Blank)

WordsAt(s) == {i \in 1..Len(s) : s[i] \in Word}
First(s) == Min(WordsAt(s))
Last(s) == Max(WordsAt(s))
Second(s) == Min(WordsAt(s) \ {First(s)})

(* String.trim. *)
Trim(s) == IF WordsAt(s) = {} THEN <<>> ELSE SubSeq(s, First(s), Last(s))

Help == [type |-> "help", arg |-> <<>>]

(* `words[1].toUpperCase()` *)
TickerOf(s) == <<Upper[s[Second(s)]]>>

(* `trimmed.slice(words[0].length).trim()`; a slip puts the words together  *)
(* again with one blank each, as a split and a join would.                  *)
RemainderRejoined(s) ==
    LET rest == Trim(Tail(Trim(s))) IN
    [i \in 1..(2 * Cardinality(WordsAt(rest)) - 1) |->
       IF i % 2 = 0 THEN CHOOSE b \in Blank : TRUE
       ELSE CHOOSE w \in Word : \E k \in WordsAt(rest) :
               rest[k] = w /\ 2 * Cardinality({j \in WordsAt(rest) : j < k}) + 1 = i]
Remainder(s) == Trim(Tail(Trim(s)))

(* How the argument is treated. *)
ArgOf(type, s) == CASE ArgSpecs[type] = "ticker" -> TickerOf(s)
                    [] ArgSpecs[type] = "raw" -> Remainder(s)

Verb(s) == Lower[s[First(s)]]

Parse(s) ==
    CASE s = NoBody \/ WordsAt(s) = {} -> Help
      [] OTHER ->
         IF Verb(s) \notin DOMAIN Aliases THEN Help
         ELSE LET type == Aliases[Verb(s)] IN
              CASE type \notin DOMAIN ArgSpecs -> [type |-> type, arg |-> <<>>]
                [] type \in DOMAIN ArgSpecs /\ Cardinality(WordsAt(s)) < 2 -> Help
                [] OTHER -> [type |-> type, arg |-> ArgOf(type, s)]

Init == /\ body \in {NoBody, <<>>}
        /\ intent = Parse(body)

(* One token more; it is another text, which parses anew. *)
Type(t) == /\ body # NoBody
           /\ Len(body) < MaxBody
           /\ body # <<>> /\ body[Len(body)] \in Word => t \in Blank
           /\ body' = Append(body, t)
           /\ intent' = Parse(body')

Next == \E t \in Word \cup Blank : Type(t)

Spec == Init /\ [][Next]_vars
=================================================================================
