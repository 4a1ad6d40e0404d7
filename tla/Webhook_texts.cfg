\* Two deliveries of an add, a pause, a stranger's text and the unlock, with a tick and a wipe of the ids.
SPECIFICATION WSpec
CONSTANTS
  adds = adds
  halts = halts
  probe = probe
  word = word
  t1 = t1
  Delivery = {d1, d2}
  MaxOverlap = 2
  Text <- MCText
  KindOf <- MCKind
  CommandOf <- MCCommand
  Blank <- NoBlank
  NoText = NoText
  NoOne = NoOne
  Other = Other
  NoCommand = NoCommand
  MaxFailures = 1
  MaxSids = 1
  Ttl = 1
  MaxAudit = 1
  MaxNow = 1
  MaxEdits = 1
  Ticker <- OneTicker
  Entry <- OneTicker
  Canon <- SameSpelling
  MaxTickers = 1
  DefaultTickers <- NoDefault
  Unset = Unset
  Corrupt = Corrupt
  RawInit <- EmptyStart
INVARIANT WrittenOnce
PROPERTIES OnlyAuthorizedChange WebhooksEnd
CHECK_DEADLOCK FALSE
