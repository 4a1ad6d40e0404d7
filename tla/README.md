# Spazito in TLA+

Spazito texts one person a line of stock prices every weekday, and lets that
person change the list by texting back. It is a Google Apps Script project:
there is no server and no process that lives on. Every trigger and every
incoming text is an *execution* of its own, executions overlap, the platform may
end any of them at any moment, and all they share is a handful of Script
Properties and one script lock. The errors worth looking for are therefore in
what happens between two accesses to shared state. This directory models that.

Paths below are relative to the repository: `src/Watchlist.js` and so on.

## 1. The system

| Part | State it keeps | Operations | Talks to |
|---|---|---|---|
| `src/Watchlist.js` | properties `WATCHLIST` (JSON array), `PAUSED` | `tickers` (heals what it reads), `has`, `isFull`, `isPaused` unlocked; `add`, `remove`, `setPaused` under the lock | Locks, Tickers |
| `src/Locks.js` | the script lock | `withScriptLock(work, onBusy)` | platform lock |
| `src/CommandHandler.js` | none | `doPost`: gate, parse, dispatch, one reply | SecurityGate, Watchlist, PriceService, SmsService |
| `src/Scheduler.js` | five platform triggers | `installTrigger`, `runDailyAlert`, `testSendNow` | Config, Watchlist, PriceService, Formatter, Signer, SmsService |
| `src/PriceService.js` | none between executions | `quotesFor`: spaced, capped calls, short-circuit on rate limit | Alpha Vantage |
| `src/Signer.js` | none | `sign`: claim (or peek at) a number, append the tag | SecurityVault, Config |
| `src/SecurityVault.js` | `SEC_MSG_COUNT`, replay set, failure count, seal, audit ring | `nextSequence`, `checkAndRecordSid`, `registerFailure`, `resetFailures`, `unseal`, `recordAudit` | Locks |
| `src/SecurityGate.js` | none | `authorize`, `_tryUnseal` | SecurityVault, Config |
| `src/SmsService.js` | none | `send`: never throws, never retries | Twilio, Config |
| `src/Config.js` | none (reads properties fresh) | `require`, `optional`, `validateForAlert`, `validateForWebhook`, `isDebugMode` | Script Properties |
| `src/core/*` | none | pure functions: parsing, formatting, ticker shape, redaction, comparison, reply texts | |
| `tools/spazito-verifier.html` | last number seen | `verify` | the recipient |

How they interact: function calls inside one execution; Script Properties and
the script lock between executions. The owner edits the same properties by hand
(keys, `DEBUG_MODE`, the watchlist itself).

What is hard, and what makes each part right:

- **Watchlist.** ADD looks at the list without the lock, spends seconds on a paid
  call, then writes under the lock; meanwhile other texts write. Right means: no
  update is lost, the cap and the absence of duplicates survive any overlap and
  any hand-edited property, only confirmed symbols get in, and each reply is true.
- **Lock.** It excludes, gives up instead of waiting for ever, and an execution
  that dies inside it does not keep it.
- **Daily alert.** Two runs may overlap (a trigger that fires twice, a run by
  hand). Right means: no two texts share a number, a run texts at most once, each
  price stands under its own ticker, a rate limit ends the spending, and a gap in
  the numbers has a cause.
- **Vault and gate.** A text is obeyed once however often it is delivered,
  failures are counted and seal the bot, the seal can be opened only with the word.
- **Triggers.** Installs take no lock, may overlap and may stop half way. Right
  means: one trigger per weekday after an install that ends well, and no wrong set
  that passes silently.
- **Call spacing.** A run is never alone the cause of a rate limit, and is over
  before the platform ends it.
- **Verifier.** Texts are lost, repeated and overtaken, and clicks overlap at an
  `await`. Right means: the device remembers the highest authentic number, and the
  page warns of what happened and of nothing else.
- **Parser, comparison, message line.** Pure, but with edges: the unlock word keeps
  its case and blanks, lengths differ, a rounding carries into a new comma.

PROJECT.json lists each hazard at the line where it bites.

## 2. The modules

| Module | What it is |
|---|---|
| `WatchlistStore` | Pure: what `WATCHLIST` may hold, what a read makes of it, what a write stores |
| `Watchlist` | Overlapping executions of the commands, extends `WatchlistStore` |
| `WatchlistAbs` | The promise: each command is one indivisible step with a true answer |
| `WatchlistProps` | Properties of `Watchlist`, and its refinement mapping to `WatchlistAbs` |
| `Alert` | Overlapping runs of `runDailyAlert` with the owner's edits and the lock |
| `AlertProps` | Properties of `Alert` |
| `Gate` | Overlapping deliveries of texts at `SecurityGate`, over the state of `SecurityVault` |
| `Webhook` | `Gate` and `Watchlist` composed: all of `doPost`, over one lock |
| `Verifier` | The verifier page at the end of a channel that loses, repeats and reorders |
| `Texts` | `Alert` and `Verifier` composed: from the runs' numbers to the recipient's verdicts |
| `TriggerInstall` | Overlapping installs of the five triggers |
| `CallSpacing` | Calls of runs and ADDs in time, against five a minute and six minutes |
| `CommandParser` | `parse`, on texts typed one token at a time |
| `SecureCompare` | The comparison's loop, with its property |
| `MessageLine` | From Alpha Vantage's answer to the price that is read off the line |
| `WatchlistStoreProps` | `WatchlistStore` against the code's own loop |
| `GateProps`, `WebhookProps`, `VerifierProps`, `TriggerInstallProps`, `CallSpacingProps`, `CommandParserProps`, `MessageLineProps` | Their properties, and two statements of comments |
| `MCWatchlist`, `MCGate`, `MCWebhook`, `MCVerifier`, `MCTriggerInstall`, `MCFunctions` | Instances for TLC |
| `PureFunctions` | `SecureCompare`, `CommandParser`, `MessageLine` and `WatchlistStore` side by side, one exercised at a time |
| `Watchlist_proofs`, `Alert_proofs`, `Gate_proofs`, `Webhook_proofs`, `Verifier_proofs`, `TriggerInstall_proofs`, `CallSpacing_proofs`, `PureFunctions_proofs` | Theorems |

Operators whose comment begins "A slip" are plausible mistakes in the code
(`AcquireAnyway`, `DieHolding`, ...). No specification uses them. PROJECT.json
names, for each property, the slip that breaks it when put in the place of the
definition below it.

### WatchlistStore

The property is unset, or not a JSON array, or a sequence over `Entry`. A
command's argument is an `Entry` too. `Canon` is `Tickers.normalize` (trim, upper
case) and `Ticker` the symbols in canonical form, so `IsValid(e)`, like
`Tickers.isValid`, normalizes before it tests. `Tickers(raw)` is
`Watchlist.tickers`: the default for an unset or unreadable property, otherwise
`Healed`, the list of surviving slots. The code heals with a loop; the model says
which slots survive (`Kept`: valid, first of its symbol) and gives the k-th of
them its place by counting. That form has no recursion, so it can be proved
about, and it is the loop (`HealingIsTheLoop`; the run `functions` compares them too). A stored array that is
empty is a list, not a missing one, as in the code.

### Watchlist

| Variable | Code |
|---|---|
| `stored`, `paused` | Script Properties `WATCHLIST`, `PAUSED` |
| `lock` | the script lock's owner |
| `pc`, `cmd` | where an execution is, the text it serves |
| `quote` | what the paid check in `_add` came to |
| `current` | the local `current` of `add`/`remove`, or the list LIST has read |
| `reply` | the reply decided on: which text, with which list |

| Action | Code |
|---|---|
| `Receive`, `Dispatch` | `doPost` after the gate; the command table; the format checks of `_add` and `_remove` |
| `Has`, `IsFull` | the two free checks of `_add`, each a separate unlocked read |
| `QuotesFor` | the paid check: confirmed, unknown symbol, or any other failure |
| `Acquire`, `Busy` | `waitLock` returning or throwing |
| `ReadUnderLock` | the read and the checks inside `add` / `remove` |
| `Write` | `_store`, or the property write of `setPaused` |
| `Release` | the `finally` |
| `ListTickers`, `ListFlag` | the two reads of LIST |
| `SendReply` | the reply, sent or not; it is never retried |
| `Die` | an exception that `doPost` swallows, or the platform's limit, at any point |
| `OtherLock` | the lock's other users: the daily run, the sections of the gate |

A step is what lies between two accesses to shared state. `Busy` is possible
whenever somebody else holds the lock: the wait has no duration in the model, so
it includes every length of wait. The owner's edits of `WATCHLIST` are the
initial values (`RawInit`): an edit while a writer is between its read and its
write is overwritten by that writer, and no lock of the bot's can prevent it, so
the properties could not hold over such edits and do not claim to.

### WatchlistAbs

One variable for the list everyone sees, one for the flag. A command that was
accepted takes effect in one step and has its answer from that step. Two answers
are looser than one would guess: LIST may combine the list of one moment with the
flag of another, and an ADD may be told "full" of a ticker that is on the list,
because it got there between `has` and `isFull`. The mapping in `WatchlistProps`
sends the list to `Tickers(stored)`, so healing is invisible, and leaves out
lock, `quote` and `pc`, except for the read half of a LIST.

### Alert

| Variable | Code |
|---|---|
| `missing`, `debug` | which keys of `ALERT_KEYS` are blank (by the module needing them), `DEBUG_MODE` |
| `counter`, `lock` | `SEC_MSG_COUNT`, the script lock (`Webhook` when a command holds it) |
| `asked`, `quotes` | the list the run read, the slots `quotesFor` has filled |
| `mode`, `number` | what `Signer.sign` read of `DEBUG_MODE`, the number it put in the text |
| `outcome`, `texts` | what `SmsService.send` returned, the texts Twilio accepted |
| `calls`, `edits` | history, and the bound on edits |

`Fire` .. `Receipt` follow `runDailyAlert` line by line: `Validate`, `IsPaused`,
`ReadTickers`, `RequireKey`, one `Fetch` per call with the short-circuit inside
it, `SignMode`, the four steps of `nextSequence` (or `Busy`, and an unsigned
text) or in debug mode the unlocked `Peek`, `Tag`, then `SmsService.send` as `SendMode`
(which reads `DEBUG_MODE` again), `Post` and `Receipt`. A run is `green`, `red` (it
threw) or `dead`. `Post` ends with the text accepted or not; an accepted one waits for its
`Receipt`, which may say so or be unreadable (reported as failed). The run can also
die in between: the text is then on its way and its run is dead. `EditKey` and `EditDebug` are the owner in the
properties editor. Which list a run reads is left open, as any clean list:
that is what `Watchlist` is proved to deliver.

Validating the keys is one step although it reads them one by one: a key edited
in the middle counts as edited before or after. The counter is a number: a property that
does not parse would count as 0, and restarting the numbers is left to the verifier's
module.

A slot is "answered", with a quote or with a failure of its own, or "rate_limited":
a run tells no more apart, since `allFailed` only writes to the log. What a slot then
shows is in `MessageLine`.

### Gate

A delivery is one POST from Twilio and one execution; Twilio may post a text again,
so several deliveries may carry the same text, and a text is its MessageSid. What
matters of sender and words is its kind: without the URL's token ("junk"), with the
token but not from the recipient ("stranger"), or the recipient's: a command, LOG, the
right unlock word, another one.

| Variable | Code |
|---|---|
| `seen` | `SEC_SEEN_SIDS`, as places in `granted`, the history of all recorded ids |
| `failures`, `sealed`, `audit` | `SEC_FAILURES`, `SEC_SEALED`, the kinds in `SEC_AUDIT` |
| `lock` | the script lock (`Other`: the daily run, or a command's write) |
| `pc`, `then` | where a delivery is, and where it goes past the release |
| `route` | what it read of the seal, at the start |
| `fresh`, `stamp`, `count` | the locals of `checkAndRecordSid` and `registerFailure` |
| `answer` | the one text it sends: a reply, or the notice |
| `granted`, `tally`, `streak`, `seals`, `sealsAt`, `cut`, `lost` | history, read by no guard |

| Action | Code |
|---|---|
| `Arrive`, `Authorize` | `doPost`; the seal, then the layers of `authorize` or `_tryUnseal` |
| `Acquire`, `Busy`, `Release` | the lock and each section's `onBusy` |
| `SidCheck`, `SidWrite` | `checkAndRecordSid` |
| `CountRead`, `CountWrite`, `CountAudit`, `SealTest`, `Seal`, `SealAudit` | `registerFailure` |
| `ReplayAudit` | `recordAudit` |
| `ResetRead`, `Reset` | `resetFailures`: the look without the lock, the write with it |
| `Unseal`, `UnsealZero`, `UnsealAudit` | `unseal` |
| `Serve`, `Notice`, `Send` | the rest of `doPost` |
| `Die`, `DieInCommand` | an exception or the platform, at any point; the same past the gate, inside a command's own section |
| `Forget`, `Tick`, `OtherLock` | an edit of the stored ids, the clock, the lock's other users |

Every write inside a section is a step, since an execution can die between two of
them (`hashSender` throws when `VERIFIER_KEY` is blank). `cut` records the places
where one did: the properties name exactly those after which they can fail, so
they say what such a death does, and that nothing else does it.

### Webhook

`Gate` with `W == INSTANCE Watchlist`, one execution for both and the same `lock`;
`wpc` is the place inside the command. `HandOn` is the gate's `Serve` together with
the command's `Receive`, `Reply` the end of both, `Perish` the death of both. In
`Gate`, then, a served command is over at once, and in `Watchlist` any text may come
in at any time; that what they assume of each other fits is proved: `Webhook` implements
both. `Webhook_proofs` reads the one lock in two ways: for the gate, a command in its
section is one of the lock's other users (`glock`); for the commands, a section of the
gate is (`wlock`).

### Verifier

`counter` and `issued` are the bot as `Alert` shows it: numbers go up from `FirstNumber`,
the counter when this device begins to verify. A number may never become a text; of those
that do, `inbox` is what arrives, in any order and number.
`Paste` reads the text and starts the HMAC, `Judge` is the code after the `await`: it
reads `last`, paints, and remembers. `PasteAltered` is any text with a wrong tag.
`orderly` is history: every text has been pasted once, in order of arrival, and every
click has waited for the one before. `NoFalseAlarm` and `NothingSlipsBy` speak of such
recipients, the other properties of all.
`Restart` is a counter property that does not parse. With `DEBUG_MODE` edited in the
middle of a run two texts may share a number; `Texts` has that, this module has not.

### Texts

`Alert`, extended by the carrier and the recipient. `inbox` holds the runs whose texts have
arrived (`Arrive`: a text that Twilio accepted and that has a number; one without a
signature has nothing to verify); `last`, `click`, `place`, `num`, `verdict`, `verified` and `orderly` are the
device. `Paste` takes the number from the run's text, `Verify` is `Verifier`'s own `Judge` and `PasteAltered`.
`V` is `Verifier` over this state: the numbers issued are `FirstNumber + 1` up to the counter, and
an arrived text stands for the place of its run's number among them. `ReplayIsReplay` and `GapIsLoss` say
what the two warnings are worth to the recipient: a replay is a text of that very run seen
before, a gap is a run whose text is missing. The module has no passing run of its own: what holds there is
proved, from `Alert`'s invariant and `Verifier`'s. Its one run is the exception
that the theorems assume away, `alert_debug_edit`.

### TriggerInstall, CallSpacing

`TriggerInstall`: `triggers` are the platform's, `existing` the snapshot an install
still has to delete, `made` the days it has created; the platform's ids go up from `FirstId`. `Delete` of a trigger another install has
deleted does nothing or throws; the documents of Apps Script do not say which, and both
are allowed: the first is the step itself, the second a `Die`, since a throw there ends the
install half way, before the count that could have been wrong. `solo` is history: the install has had the project to itself.

`CallSpacing`: a tick is fifteen seconds, so that `Spacing` is 1, a minute is 4 and
the platform's six minutes are 24. `recent` is what Alpha Vantage counts. A call
takes up to `MaxLatency` ticks, and hangs if it takes more than `Brisk`; `slow` remembers
who had such a call.

### CommandParser, SecureCompare, MessageLine

`CommandParser`: a text is a sequence of words and of single blanks, two words never
touching. `Trim` and the split then need no characters. `Type` types one token more.

`SecureCompare`: one step per character. `diff |= x ^ y` is zero exactly as long as
nothing has differed, which is all that `diff` says here. The page's own `ctEqual` is
not modelled.

`MessageLine`: prices are whole thousandths below a billion, so that ten digits hold the
whole part even when rounding adds one (`LineAssumption`; the code formats up to 1e21). `Rounded` leaves open which way a
half goes, except for multiples of an eighth: those are exact as doubles, and `toFixed` then
takes the larger. `Reason` and `Quote` are `_quote` in the order of its tests, `Segment`
is `_segment`, `Grouped` the comma expression of `_formatMoney`.

## 3. The runs

| Run | Instance | Shows |
|---|---|---|
| `functions` | compare: strings of up to 3 over 3 characters, and no string; parse: 8 words, 2 blanks, 6 tokens; line: 105 prices around digit, comma and sign changes, 2 tickers, every failure; store: 3 symbols, a second spelling, junk, arrays of up to 5 slots, cap 2 | equality; the unlock word as typed; what is read is the price, with its commas in place; healing is the code's loop, and a write touches one ticker |
| `watchlist` | 2 executions, 2 symbols + spelling + junk, 5 initial properties, cap 1 | lock, no lost update, clean writes, confirmed adds, implements `WatchlistAbs`, every text ends |
| `alert` | 2 runs, 2 tickers, 1 edit | numbers, slots, calls, gaps; every run ends |
| `gate_replay` | 3 deliveries, 2 at a time, 4 texts (one without an id, one without the token), room for 1 id, lifetime 2 of 2 ticks, 1 wipe | types; a repeat passes only when forgotten |
| `gate_seal` | 4 deliveries, 2 at a time, a stranger, the word, another word; 2 failures seal; audit ring of 2 | lock, seal, notice, count, confirmation, audit, what opens it |
| `webhook` | 2 deliveries of an ADD, a PAUSE, a stranger's text or the word; 1 failure seals, room for 1 id, lifetime 1 of 1 tick, 1 wipe | a text is written again only once its id is forgotten; nothing unauthorized; gate and command end together |
| `verifier` | 3 clicks (symmetric), 3 numbers, 3 texts arrive, the counter lost once | the remembered number, one welcome per number, no false alarm, nothing missed |
| `trigger_installs` | 3 installs of 3 days, from nothing, doubles, a hole | healing, the last word |
| `spacing` | 1 run of up to 6 tickers (7 asked for) and 2 ADDs, calls of 0 to 2 ticks, 12 ticks for an execution | nobody runs out of time unless a call hangs; nobody exceeds the rate alone |

Why the bounds are enough. Interference at the lock is pairwise: one writer inside and
one that read before it. The cap is met with one ticker, and passed by two adds. Healing tells
apart valid / invalid, first / later, within / beyond the cap: in the run `functions` three
symbols, one alias and one junk entry in five slots give every combination of these, and lists of two
show that order is kept. The alert's interference is pairwise too, on one counter; two tickers
give a slot before and a slot after a rate limit. `FirstNumber` is 3 only so that 0, "no
number", is not next to it. `MaxEdits = 1` lets one setting change at any point of
a run. Executions of `Watchlist` begin again when they end, so sequences
of texts are not bounded.

`MaxOverlap = 2` deliveries at a time, of three or four in all: the vault's
sections exclude each other, so a third at the lock does what `OtherLock` does. Four
deliveries are two failures, an unlock and one more: the bot is sealed, opened, and can be on its
way to the second seal. MAX_FAILURES is 2 there (5 in the code): "at", "below" and
"above" the limit all occur. `MaxSids = 1` and `Ttl = 2` make forgetting
happen with three texts and three moments. In `webhook` two deliveries suffice, since a repeat
is two deliveries. One of the texts is a PAUSE, which always writes (a second ADD of a ticker would be
refused as a duplicate, whatever the gate remembers): so one text is in fact written twice there, once its id has
expired (the tick) or been wiped, and `WrittenOnce` fails if an id that cannot be checked passes for a new one.
Its third exception, an id pushed out by others, takes a third recorded text: `gate_replay`
has it for `RepeatsAreOld`, and the theorem `WrittenOnceHolds` covers it. Three `Verifier` texts can be
repeated, swapped or lost, with a gap between two that arrive, and three clicks paste them
all in order. Three installs are needed for two to overlap while a third repairs or disturbs;
three days tell "too few" from "wrong ones". `CallSpacing` scales the six minutes with the list:
six brisk calls and five pauses are 11 of 12 ticks, as ten calls and nine pauses are 19 of 24; six calls
are also what a run without pauses would need to pass five a minute alone, and beside a run with
pauses it takes two ADDs to pass it. Six tokens are blank, verb, blank,
two words with a blank between.
`MessageLine`'s prices lie far below 2^53 thousandths, and each boundary is met from both sides.

Deadlock is checked in the run `watchlist`. Elsewhere each
execution (run, delivery, click, install, loop, text) happens once, so the system
really stops, and the configurations switch the check off.

Fairness: weak fairness of an execution's own steps (`Step(x)`, `Step(r)`, in `Webhook` `Run(x)`): the platform
keeps running what it has started, or kills it. No text, trigger, death, edit or
use of the lock by others is assumed to happen or to stop. `Busy` and `Acquire`
together are enabled as long as an execution waits, because `waitLock` returns or
throws; that is why the progress properties hold without fairness of the lock.

### Where code and documents disagree

Three are runs of one property that fails:

- `alert_debug_edit`: two sends must never share a number, so that a repeat is a replay; `DEBUG_MODE`
  switched off between `Signer.sign` and `SmsService.send` texts the peeked number, and the
  next run texts it again. The recipient's page then calls a text nobody had seen a
  replay (`ReplayIsReplay`). The run has `Texts` with two runs, two clicks, and one edit at that moment.
- `gate_consecutive`: the bot is said to seal itself after consecutive failures, and a
  success to clear the count; `resetFailures` gives up when the lock is busy, so failures
  on both sides of a success add up.
- `trigger_duplicates`: re-running is said never to create duplicates; two installs
  that overlap do. (At least one of them then throws: `LastWordIsTrue`.)

The others can be read off a single action, and have no run:

- DEBUGGING.md says a run in which all tickers fail "sends nothing"; it texts the
  `n/a` line (`Scheduler.js:53-71`).
- A red execution is called the only way to wave for help (`Scheduler.js:24-27`), but
  `runDailyAlert` drops the outcome of the send and ends green (`Post`, `Receipt`).
- The counter is said to go up by one per *sent* alert (`Signer.js:13`); the number is
  spent before the send.
- The alarm and the rendering should not drift apart (`core/Formatter.js:76-79`); a price
  such as `.5` is shown as `n/a` and counted as a success.
- A repeated number is said to be a replay (ADR 008); once the counter property has been
  lost (`Restart`), a new text can carry a number already seen.
- Five calls a minute are said to be shared by everything (ADR 007); the spacing is kept
  within one execution, and a run with two ADDs makes six.

## 4. The proofs

For every value of the constants that satisfies the assumptions stated with them
(`StoreAssumption`, `ExecAssumption`, `CommandAssumption`, `AlertAssumption`, `GateAssumption`,
`WebhookAssumption`, `VerifierAssumption`, `InstallAssumption`, `SpacingAssumption`,
`StringAssumption`, `FunctionsAssumption`; the last asks of the line that a rule has 0 or 2 decimals, as
`DISPLAY_RULES` has, and that prices are below a billion):

| Theorem | Says |
|---|---|
| `HealedIsClean`, `HealedClean` | reading any array gives a clean list; reading a clean list gives that list |
| `TypeCorrect`, `LockCorrect`, `NoLostUpdate` | `TypeOK`, `LockOwnership`, `ReadStaysCurrent` |
| `CleanWrites`, `ConfirmedAdds` | `WritesAreClean`, `AddsAreConfirmed` |
| `Refinement` | `Spec => RepliesAreTrue` |
| `NumbersAreUnique`, `GapsAlwaysHaveCauses` | `UniqueNumbers`, `GapsHaveCauses`, if `DEBUG_MODE` is not edited during a run |
| `AlertTypes`, `OneTextPerRun`, `SlotsAlwaysMatch`, `LimitEndsCalls` | `TypeOK`, `AtMostOneText`, `SlotsMatchList`, `NoCallAfterLimit`, whatever is edited |
| `GateTypes`, `GateLockOwnershipHolds` | `TypeOK`, `GateLockOwnership` |
| `NoFailureLostHolds`, `SealOnTimeHolds`, `NoticePerSealHolds` | the count, the seal, the notice |
| `ConfirmationsAreTrueHolds`, `OnlyFreshUnlockOpensHolds`, `RepeatsAreOldHolds` | what is said of an unlock, what opens the bot, what is carried out twice |
| `AuditAgreesHolds` | `AuditAgrees`, if `MaxOverlap <= MaxAudit` |
| `WebhookImplementsGate`, `GateCarriesOver` | `doPost` implements `Gate`, and has what is proved of it |
| `WebhookImplementsWatchlist`, `WatchlistCarriesOver` | `doPost` implements `Watchlist`, and has what is proved of it, true replies included |
| `WrittenOnceHolds`, `OnlyAuthorizedChangeHolds` | `WrittenOnce`, `OnlyAuthorizedChange` |
| `VerifierTypes`, `LastIsHighestHolds`, `CountedOnceHolds` | the page's memory and its welcomes |
| `NoFalseAlarmHolds`, `NothingSlipsByHolds` | `NoFalseAlarm`, `NothingSlipsBy` |
| `SoloInstall`, `LastWord` | `SoloInstallHeals`, `LastWordIsTrue` |
| `BadVerdictsHaveCauses` | "replay" is said only of a number another text has carried; a gap told to the orderly recipient leaves out a number no earlier text carries |
| `TextsAreNumbered` | what runs, carrier and recipient do (`Texts`) implements `Verifier`, if `DEBUG_MODE` is not edited during a run and `MaxNumber` is room for the runs (`Fits`) |
| `VerdictsKeepTheirWorth` | so all four properties of `Verifier` hold of the texts of the runs |
| `ReplayMeansReplay`, `GapMeansLoss` | `ReplayIsReplay`, `GapIsLoss`, under the same conditions |
| `FitsTheLimitHolds` | `FitsTheLimit`, if `MaxTickers * (Brisk + Spacing) < Limit + Spacing` |
| `LimitHasCompanyHolds` | `LimitHasCompany`, if `Minute <= PerMinute * Spacing` |
| `EqualsIsEqualityHolds`, `UnlockVerbatimHolds` | the comparison; the unlock word as typed |
| `HealingIsTheLoop`, `HealedIsTheLoopHolds` | what survives of a stored array is what the code's loop collects, for every array |
| `StoreTouchesOneHolds` | `StoreTouchesOne` |
| `ReadsAsThePriceHolds`, `GroupedByThousandsHolds` | `ReadsAsThePrice`, `GroupedByThousands` |

*Store.* The k-th surviving slot exists (`RankExists`: the least n with k survivors
up to n survives), is the only one of its rank, and distinct ranks have distinct symbols: so a
healed list is clean. In a clean list every slot survives and slot i has rank i:
so healing it is the identity. Adding an absent ticker below the cap, and
removing one, keep a list clean.

The loop of `Watchlist.tickers` is compared with this slot by slot: after slot p it holds the
survivors up to p, and the cap is cut off at the end. Were there a slot where that fails there would
be a least one, and the slot before it contradicts that (the library's fact that a set of
numbers has a least element takes the place of an induction, which would need an operator parameter).
`StoreTouchesOne` compares the filter of `Watchlist.remove` with the list less its one slot in the same way.

*Watchlist.* `ReadStaysCurrent` is not inductive: nothing in it says that two
writers are not at `write` together, nor that the executions there have passed the checks.
`IInv` adds `LockOwnership`, `Places` (an execution past `dispatch` has a command
of the kind, and with a valid argument, that its place calls for, and has an
answer only on its way out) and `Checked` (an adder beyond the paid check has a
confirmation; one at `write` holds a list with room and without its ticker).
Then `Write` is the only action that changes `stored`; its execution owns the
lock; so by `LockOwnership` no other one is at `write`; and `HealedClean` turns
what it stored into what the next read returns. `CleanWrites` and `ConfirmedAdds` are
read off `IInv` at the `Write` step.

*Refinement.* With `IInv`, each action maps to one action of `WatchlistAbs` or to a
stutter: `ReadUnderLock` that refuses and `Write` that stores are the steps at
which `Add` and `Remove` happen (`Write` because `current` is still the list, by
`ReadStaysCurrent`), `Has` and `IsFull` when they refuse, `ListTickers` and `ListFlag` are
the two halves of LIST, `SendReply` and `Die` are `Finish`.

*Alert.* `AInv` says the lock excludes, that a run between the read and the write
of the counter knows the next number and one after the write a number not above
the counter, and that numbers are distinct which are claimed and may still be sent, or are on an accepted text. `UniqueNumbers` also
needs that a run which only peeked cannot post: `SmsService.send` reads
`DEBUG_MODE` again, so this is where the assumption `~DebugEditsMidRun` comes in,
and the run `alert_debug_edit` shows that it cannot be dropped. `GapsHaveCauses`
needs `Claimed` besides: every number up to the counter belongs to a run that is past
the write and still has it, or has ended in one of the named ways. The slots
need none of this: `QInv` says that slots stand in the order of the list, and are
complete once the run has left `quotesFor`.

*Gate.* Five layers, each on top of the ones before. `Types`, where `then` ranges over
the exits of the sections only. Lock ownership. `SealInv`: what a delivery inside a
counting section knows (`Counting`: its `count` is the stored one or one more, the
bot is open where it means to seal it), which lock ownership keeps true, with
`NoFailureLost` and `SealOnTime`. `AnnounceInv`: the deliveries on their way to a notice, or past one,
are at most as many as the seals; only `Seal` adds one, and `Counting` says that it then
adds a seal. `OpenInv`: who gets as far as "unlocked" has found the bot open or opened it,
and it has been open since or has sealed itself again. `MemoryInv`: a recorded id is
remembered or faded (too old, too far back, wiped); the copy that `checkAndRecordSid`
filters is as good as the property while it holds the lock; two records of one id are
therefore `Apart`; and whoever has passed the check has its record. `RepeatsAreOld` is
read off `Apart`, `OnlyFreshUnlockOpens` off the records at the step `Unseal`. The
counting arguments (`slice(-MAX_SIDS)` drops only ids with MAX_SIDS later ones)
use the library's facts on finite sets.

`AuditAgrees` is not inductive, and without a hypothesis it is not even true: what a
sealed bot's ring says last stays in it only because a sealed bot notes nothing new, and the
deliveries that came in before the seal may still note one entry each. `RingInv` counts
them: the entries after the last "sealed" and the deliveries that may still add one
(`Noters`) are together fewer than `MaxOverlap`. A delivery leaves `Noters` with the step that adds
its entry, and none joins while the bot is sealed. So the theorem asks for
`MaxOverlap <= MaxAudit`. TLC shows that this is needed: with a ring of two, three
deliveries at a time and a seal at the first failure, the two that overlap the seal push its entry out.
The code keeps 20 entries, so it takes more than 20 texts at once.

*Webhook.* `Joint` says that a command is at work only in a delivery that is past the gate, and is
inside its own section only with the lock. From it each step of `Webhook` is one of `Gate` (with
`glock`) and one of `Watchlist` (with `wlock`), or changes nothing there: `HandOn` is `Serve`
and `Receive` at once, the gate's sections are `OtherLock` to the commands, and the other way
round. `Perish` is `Die` for a delivery before the gate, and `DieInCommand` for one inside a command's
section. The theorems of the two modules are then used as they are, by instance.
`WrittenOnce` and `OnlyAuthorizedChange` relate both halves: `WorkInv` says that who is
at work on a command, or has written, came in while the bot was open and was let through;
the rest is `RepeatsAreOld` of the gate, and the owner of the lock at `Change`.

*Verifier.* `CountedOnce` needs `Behind`: a number that was welcomed is not above the
remembered one. A click reads the memory after its `await` and writes it in the same
step, so the next welcome is of a higher number. `NoFalseAlarm` and `NothingSlipsBy` need to know
where an orderly recipient is (`InTurn`): the texts pasted are the first c of the inbox, one
click each, and a click that still waits for its HMAC is alone and the newest. While the texts
so far have come one right after the other, the device holds the number of the newest one
judged (`InStep`): the next verdict compares with exactly that. `NothingSlipsBy` holds with the
bot's counter lost any number of times: what follows the remembered number is higher than all
that were verified.

*End to end.* `TInv` is `Alert`'s invariant with three facts more: every claimed number is `Above`
`FirstNumber`, an arrived text is `Delivered` by a run that has posted it and keeps its
number, and (`Claimed`, as above) each number up to the counter belongs to a run. A run
claims at most one, so by an injection from numbers to runs the counter stays within `MaxNumber` (`NumbersFit`).
Then `WriteCounter` is `Verifier`'s `Issue`, every other step of a run is a stutter, and `Arrive`,
`Paste` and `Verify` are its steps of the same name. So `Verifier`'s invariant holds of the device, and
`Alert`'s says whose number a number is: two clicks on one number are two on one run's text (`Distinct`), and
a number left out by an orderly recipient (`GapsLeaveOut`) is that of a run that `GapsHaveCauses` accounts for.
`GapsLeaveOut` is inductive on top of `InTurn`: the device holds the highest number of the texts so far, and the next is beyond
its successor. The numbers `FirstNumber + 1 ..` need no induction: `issued` is given in closed form.

*Triggers.* `SoloInstallHeals` rests on `Alone`: while an install has the project to itself, its
snapshot is the set there is, and after k creations the first k days have one trigger and the
others none (`UpTo`). `LastWordIsTrue` has a counting part and a covering part. The
content install counted `Days` triggers, and nothing has changed since (`LastCount`); a set of
that size is right if every day has one. That it does is `Survivor`: of the installs that have
taken a snapshot, the one that took its last keeps what it makes, for nobody has listed
that. As several installs can delete each other's, the invariant is stated as "there is an install each of whose
triggers has a fellow of its day that nobody will delete", and it needs that no install has died half way.

*Call spacing.* `Budget`: after k of its calls, a run with brisk ones has used at most
k * (Brisk + Spacing) ticks; the clamp bounds k. `Spaced`: a recorded call carries how many its execution had
still to make, so two that are k apart in this are k sleeps apart in time; a minute holds at most
`PerMinute` of one execution. Both theorems state the condition on PriceService's numbers that
makes them true. In ticks of fifteen seconds these are 10 * (1 + 1) < 24 + 1 and
4 <= 5 * 1, so both are met. TLC shows them tight on the instance of `spacing`: a `Limit` of 11 in place of 12,
or a `PerMinute` of 3 in place of 5, breaks the property. With 1 <= MaxTickers a run is clamped to something.

*Functions.* `LoopInv`: `diff` is 0 exactly when the lengths agree and the
characters so far do. For the parser, a text has a first and a last word (`Ends`), trimming is the
piece between them, and what is left after the verb is cut off and trimmed again starts at the
second word: so the argument of `unlock` is the body from its second word to its last,
blanks included.

*The line.* `Grouped` builds the text digit by digit, `Value` reads it digit by digit, and no induction
over digits can be done. Instead both get a closed form: `Glyph` says which character stands at which
place of a number of w digits, for each w up to ten, and `Climb` carries "built so far" from place to place, again by
a least counterexample. `Looks` is then the whole text: a sign or none, the digits with their commas, the point
and the cents or nothing. Reading it gives back the number of units (`PriceIsRead`), the number of units is within
half a unit of the price (`RoundedIsNear`), and counting the places behind each comma (`PriceIsGrouped`) is
arithmetic on w. Ten widths are cases, not a bound on the argument: a wider price would be a longer proof of the same kind.

Left to TLC: liveness (`CommandsEnd`, `RunsEnd`, `WebhooksEnd`) and anything about ENABLED, which the
prover does not do. Every other property of a passing run is a theorem. That the three disagreements
are real is TLC's too: a counterexample is not proved but shown.

## 5. Not modelled

- The length of waits. "Busy" and "dead" are possible whenever they could be for
  some length. (The time between calls is in `CallSpacing`.)
- HMAC and hashes: a tag is right or not, a sender is a kind of sender.
- `core/Replies`: wording. Which reply is sent, with which list and flag, is in
  `Watchlist`; the labels, the separator and the empty-list notice of `Formatter` are wording too.
- `Formatter.allFailed`: it decides whether an alarm is logged, and nothing else.
- `core/Redactor`: patterns over log text, on which nothing depends.
- `SmsService`: the two ways to authenticate and the parsing of an error body, which
  change no outcome. A reply's sending is one step, since nothing happens after it.
- `Config`: trimming, and `validateAll`, which only a person calls.
- The owner's edit of `WATCHLIST` during an execution (see `Watchlist`), and edits of the
  seal, the count and the audit by hand.
- In `Alert`, the webhook's keys, and what the list is made of (see `Watchlist`).
- An Apps Script trigger that fires late or not at all: nobody in the code can tell.
- The manual and the site, which are static; the fakes used by the unit tests.

## 6. What remains

Every safety property that a run checks is proved. What would add most from here:

1. The daily run as a third user of `Webhook`'s lock by name, in place of `Other`.
2. `Restart` in `Texts`: a counter that is lost in the middle of the runs, where replay and gap can mean
   either.
3. A model of `SmsService`'s error body and of `Config.validateAll`, should an outcome ever come to depend on them.
