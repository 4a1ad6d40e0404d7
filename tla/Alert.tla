--------------------------------- MODULE Alert ---------------------------------
(***************************************************************************)
(* The daily alert: runs of Scheduler.runDailyAlert, which overlap when a  *)
(* trigger fires twice or somebody runs testSendNow by hand, and the       *)
(* modules each run goes through: Config, Watchlist (one read of the flag, *)
(* one of the list), PriceService.quotesFor, Formatter, Signer with the    *)
(* sequence counter of SecurityVault, SmsService.send.                     *)
(*                                                                         *)
(* Runs share the script lock (with each other and with the webhook's      *)
(* writers), the counter, and the Script Properties the owner may edit at  *)
(* any moment of a run that takes minutes.  What the watchlist's readers   *)
(* can get is left open here: WatchlistAbs says it is a clean list.        *)
(***************************************************************************)
EXTENDS Naturals, Sequences, FiniteSets

CONSTANTS
    Run,           \* executions of runDailyAlert; each happens once
    NoRun,         \* nobody holds the script lock
    Webhook,       \* a webhook execution holds the script lock
    Ticker,
    MaxTickers,    \* Watchlist.MAX_TICKERS and PriceService.MAX_TICKERS_PER_RUN
    FirstNumber,   \* the counter when the runs below begin
    MaxEdits,      \* bound on the owner's edits of the Script Properties
    DebugEditsMidRun \* may DEBUG_MODE be edited while a run is in progress?

ASSUME AlertAssumption == /\ NoRun \notin Run /\ Webhook \notin Run /\ NoRun # Webhook
                          /\ MaxTickers \in Nat
                          /\ FirstNumber \in Nat
                          /\ MaxEdits \in Nat
                          /\ DebugEditsMidRun \in BOOLEAN

(* The keys of ALERT_KEYS, by the module that needs them. *)
Keys == {"price", "sms", "signer"}

(* What one Alpha Vantage call comes to.  "answered" is a quote, or a       *)
(* failure that is this ticker's alone: the run goes on after either.       *)
Verdicts == {"answered", "rate_limited"}

Quotes == [ticker : Ticker, verdict : Verdicts]

VARIABLES
    missing, \* keys that are unset or blank in the Script Properties
    debug,   \* Script Property DEBUG_MODE is "true"
    edits,   \* how many times the owner has edited them (bounded)
    counter, \* Script Property SEC_MSG_COUNT
    lock,    \* the script lock
    pc,      \* where each run is
    asked,   \* the tickers a run read, clamped
    quotes,  \* what quotesFor has collected
    calls,   \* paid calls made (history)
    mode,    \* what Signer.sign read of DEBUG_MODE
    number,  \* the number in the message, 0 when it is unsigned
    outcome, \* what SmsService.send reported
    texts    \* texts Twilio accepted from a run (history)

vars == <<missing, debug, edits, counter, lock, pc, asked, quotes, calls, mode, number, outcome, texts>>
settings == <<missing, debug, edits>>
local == <<asked, quotes, calls, mode, number, outcome, texts>>

Over == {"idle", "green", "red", "dead"}
Locations == Over \cup {"validate", "paused", "tickers", "key", "fetch", "sign", "lock", "read",
                        "write", "release", "peek", "tag", "send", "post", "receipt"}

Lists == {l \in UNION {[1..n -> Ticker] : n \in 0..MaxTickers} :
             \A i, j \in DOMAIN l : l[i] = l[j] => i = j}

TypeOK == /\ missing \in SUBSET Keys
          /\ debug \in BOOLEAN
          /\ edits \in 0..MaxEdits
          /\ counter \in Nat
          /\ lock \in Run \cup {NoRun, Webhook}
          /\ pc \in [Run -> Locations]
          /\ asked \in [Run -> Seq(Ticker)]
          /\ quotes \in [Run -> Seq(Quotes)]
          /\ calls \in [Run -> Nat]
          /\ mode \in [Run -> {"none", "debug", "live"}]
          /\ number \in [Run -> Nat]
          /\ outcome \in [Run -> {"none", "sent", "debug", "failed"}]
          /\ texts \in [Run -> Nat]

Init == /\ missing \in SUBSET Keys
        /\ debug \in BOOLEAN
        /\ edits = 0
        /\ counter = FirstNumber
        /\ lock = NoRun
        /\ pc = [r \in Run |-> "idle"]
        /\ asked = [r \in Run |-> <<>>]
        /\ quotes = [r \in Run |-> <<>>]
        /\ calls = [r \in Run |-> 0]
        /\ mode = [r \in Run |-> "none"]
        /\ number = [r \in Run |-> 0]
        /\ outcome = [r \in Run |-> "none"]
        /\ texts = [r \in Run |-> 0]

-----------------------------------------------------------------------------
At(r, l) == pc[r] = l
Goto(r, l) == pc' = [pc EXCEPT ![r] = l]

(* A trigger fires, or testSendNow is run. *)
Fire(r) == /\ At(r, "idle")
           /\ Goto(r, "validate")
           /\ UNCHANGED <<settings, counter, lock, local>>

(* Config.validateForAlert: one missing key and the run goes red. *)
Validate(r) == /\ At(r, "validate")
               /\ Goto(r, IF missing = {} THEN "paused" ELSE "red")
               /\ UNCHANGED <<settings, counter, lock, local>>

(* Watchlist.isPaused, read once: the run is skipped, and is green. *)
IsPaused(r) == /\ At(r, "paused")
               /\ \/ Goto(r, "green")
                  \/ Goto(r, "tickers")
               /\ UNCHANGED <<settings, counter, lock, local>>

(* Watchlist.tickers, read once, and quotesFor's shortcut for an empty list. *)
ReadTickers(r) == /\ At(r, "tickers")
                  /\ \E l \in Lists : /\ asked' = [asked EXCEPT ![r] = l]
                                      /\ Goto(r, IF l = <<>> THEN "sign" ELSE "key")
                  /\ UNCHANGED <<settings, counter, lock, quotes, calls, mode, number, outcome, texts>>

(* Config.require('ALPHA_VANTAGE_KEY') throws if the owner blanked it. *)
RequireKey(r) == /\ At(r, "key")
                 /\ Goto(r, IF "price" \in missing THEN "red" ELSE "fetch")
                 /\ UNCHANGED <<settings, counter, lock, local>>

(* Slips in the short-circuit: the fill repeats the limited ticker, invents *)
(* a reason of its own, or is not there at all.                             *)
CollectedSameTicker(r, v) ==
    LET i == Len(quotes[r]) + 1
        q == Append(quotes[r], [ticker |-> asked[r][i], verdict |-> v])
    IN  IF v = "rate_limited"
        THEN q \o [k \in 1..(Len(asked[r]) - i) |-> q[i]]
        ELSE q
CollectedNewReason(r, v) ==
    LET i == Len(quotes[r]) + 1
        q == Append(quotes[r], [ticker |-> asked[r][i], verdict |-> v])
    IN  IF v = "rate_limited"
        THEN q \o [k \in 1..(Len(asked[r]) - i) |->
                      [ticker |-> asked[r][i + k], verdict |-> "skipped"]]
        ELSE q
CollectedOn(r, v) == Append(quotes[r], [ticker |-> asked[r][Len(quotes[r]) + 1], verdict |-> v])

(* What is collected once the i-th call came to v: after a rate limit the   *)
(* remaining tickers are marked rate_limited, unfetched.                    *)
Collected(r, v) ==
    LET i == Len(quotes[r]) + 1
        q == Append(quotes[r], [ticker |-> asked[r][i], verdict |-> v])
    IN  IF v = "rate_limited"
        THEN q \o [k \in 1..(Len(asked[r]) - i) |->
                      [ticker |-> asked[r][i + k], verdict |-> "rate_limited"]]
        ELSE q

(* One round of the loop: a spaced call, and the run moves on to the line   *)
(* and its signature when every slot is filled.                             *)
Fetch(r) == /\ At(r, "fetch")
            /\ \E v \in Verdicts :
                  /\ quotes' = [quotes EXCEPT ![r] = Collected(r, v)]
                  /\ Goto(r, IF Len(quotes'[r]) < Len(asked[r]) THEN "fetch" ELSE "sign")
            /\ calls' = [calls EXCEPT ![r] = @ + 1]
            /\ UNCHANGED <<settings, counter, lock, asked, mode, number, outcome, texts>>

(* A slip: debug mode claims a number like any other run. *)
SignModeClaims(r) == /\ At(r, "sign")
                     /\ mode' = [mode EXCEPT ![r] = IF debug THEN "debug" ELSE "live"]
                     /\ Goto(r, "lock")
                     /\ UNCHANGED <<settings, counter, lock, asked, quotes, calls, number, outcome, texts>>

(* Signer.sign: a live run claims a number, a debug run peeks at the next.  *)
SignMode(r) == /\ At(r, "sign")
               /\ \/ /\ debug
                     /\ mode' = [mode EXCEPT ![r] = "debug"]
                     /\ Goto(r, "peek")
                  \/ /\ ~debug
                     /\ mode' = [mode EXCEPT ![r] = "live"]
                     /\ Goto(r, "lock")
               /\ UNCHANGED <<settings, counter, lock, asked, quotes, calls, number, outcome, texts>>

(* SecurityVault.currentSequence, unlocked. *)
Peek(r) == /\ At(r, "peek")
           /\ number' = [number EXCEPT ![r] = counter + 1]
           /\ Goto(r, "tag")
           /\ UNCHANGED <<settings, counter, lock, asked, quotes, calls, mode, outcome, texts>>

(* A slip: the number is claimed whether or not the lock was obtained. *)
AcquireAnyway(r) == /\ At(r, "lock")
                    /\ lock' = r
                    /\ Goto(r, "read")
                    /\ UNCHANGED <<settings, counter, local>>

(* SecurityVault.nextSequence: the lock, the read, the write, the release. *)
Acquire(r) == /\ At(r, "lock")
              /\ lock = NoRun
              /\ lock' = r
              /\ Goto(r, "read")
              /\ UNCHANGED <<settings, counter, local>>

(* A slip: a run waits for its number until it gets one. *)
BusyRetry(r) == /\ At(r, "lock")
                /\ lock # NoRun
                /\ UNCHANGED vars

(* The lock could not be had in time: the text goes out unsigned. *)
Busy(r) == /\ At(r, "lock")
           /\ lock # NoRun
           /\ Goto(r, "send")
           /\ UNCHANGED <<settings, counter, lock, local>>

ReadCounter(r) == /\ At(r, "read")
                  /\ number' = [number EXCEPT ![r] = counter + 1]
                  /\ Goto(r, "write")
                  /\ UNCHANGED <<settings, counter, lock, asked, quotes, calls, mode, outcome, texts>>

WriteCounter(r) == /\ At(r, "write")
                   /\ counter' = number[r]
                   /\ Goto(r, "release")
                   /\ UNCHANGED <<settings, lock, local>>

Release(r) == /\ At(r, "release")
              /\ lock' = NoRun
              /\ Goto(r, "tag")
              /\ UNCHANGED <<settings, counter, local>>

(* Signer._tag needs VERIFIER_KEY, and throws without it: the run goes red  *)
(* with its number spent.                                                   *)
Tag(r) == /\ At(r, "tag")
          /\ Goto(r, IF "signer" \in missing THEN "red" ELSE "send")
          /\ UNCHANGED <<settings, counter, lock, local>>

(* SmsService.send reads DEBUG_MODE for itself. *)
SendMode(r) == /\ At(r, "send")
               /\ \/ /\ debug
                     /\ outcome' = [outcome EXCEPT ![r] = "debug"]
                     /\ Goto(r, "green")
                  \/ /\ ~debug
                     /\ Goto(r, "post")
                     /\ UNCHANGED outcome
               /\ UNCHANGED <<settings, counter, lock, asked, quotes, calls, mode, number, texts>>

(* The POST to Twilio: the text is accepted, or a missing key, a refusal or *)
(* a network failure keeps it from that.  The run, which ignores the        *)
(* outcome, ends green all the same.                                        *)
Post(r) == /\ At(r, "post")
           /\ \/ /\ "sms" \notin missing
                 /\ texts' = [texts EXCEPT ![r] = @ + 1]
                 /\ Goto(r, "receipt")
                 /\ UNCHANGED outcome
              \/ /\ outcome' = [outcome EXCEPT ![r] = "failed"]
                 /\ Goto(r, "green")
                 /\ UNCHANGED texts
           /\ UNCHANGED <<settings, counter, lock, asked, quotes, calls, mode, number>>

(* A slip: a send that reported a failure is tried again. *)
ReceiptRetry(r) == /\ At(r, "receipt")
                   /\ \E o \in {"sent", "failed"} :
                         /\ outcome' = [outcome EXCEPT ![r] = o]
                         /\ Goto(r, IF o = "failed" /\ texts[r] < 2 THEN "post" ELSE "green")
                   /\ UNCHANGED <<settings, counter, lock, asked, quotes, calls, mode, number, texts>>

(* Twilio's answer: an accepted text whose receipt cannot be read, or that  *)
(* gets lost, counts as failed.  The run ends green.                        *)
Receipt(r) == /\ At(r, "receipt")
              /\ \E o \in {"sent", "failed"} : outcome' = [outcome EXCEPT ![r] = o]
              /\ Goto(r, "green")
              /\ UNCHANGED <<settings, counter, lock, asked, quotes, calls, mode, number, texts>>

(* The platform ends the run: the six-minute limit, or an outage. *)
Die(r) == /\ pc[r] \notin Over
          /\ Goto(r, "dead")
          /\ lock' = IF lock = r THEN NoRun ELSE lock
          /\ UNCHANGED <<settings, counter, local>>

Step(r) == \/ Validate(r) \/ IsPaused(r) \/ ReadTickers(r) \/ RequireKey(r) \/ Fetch(r)
           \/ SignMode(r) \/ Peek(r) \/ Acquire(r) \/ Busy(r) \/ ReadCounter(r) \/ WriteCounter(r)
           \/ Release(r) \/ Tag(r) \/ SendMode(r) \/ Post(r) \/ Receipt(r)

(* A webhook execution takes the lock for a write of its own, and frees it. *)
WebhookLock == /\ \/ lock = NoRun /\ lock' = Webhook
                  \/ lock = Webhook /\ lock' = NoRun
               /\ UNCHANGED <<settings, counter, pc, local>>

(* The owner blanks a key, or sets it (again). *)
EditKey(k) == /\ edits < MaxEdits
              /\ edits' = edits + 1
              /\ missing' = IF k \in missing THEN missing \ {k} ELSE missing \cup {k}
              /\ UNCHANGED <<debug, counter, lock, pc, local>>

(* The owner switches DEBUG_MODE. *)
EditDebug == /\ edits < MaxEdits
             /\ edits' = edits + 1
             /\ DebugEditsMidRun \/ \A r \in Run : pc[r] \in Over
             /\ debug' = ~debug
             /\ UNCHANGED <<missing, counter, lock, pc, local>>

Next == \/ \E r \in Run : Fire(r) \/ Step(r) \/ Die(r)
        \/ WebhookLock
        \/ \E k \in Keys : EditKey(k)
        \/ EditDebug

(* Fairness: a run in progress keeps running.  Triggers, deaths, edits and  *)
(* the webhook's use of the lock are not assumed to happen, or to stop.     *)
Fairness == \A r \in Run : WF_vars(Step(r))

Spec == Init /\ [][Next]_vars /\ Fairness
===============================================================================
