\* Two overlapping texts on a property that was edited by hand.
SPECIFICATION Spec
CONSTANTS
  Exec = {x1, x2}
  NoExec = NoExec
  Other = Other
  NoCommand = NoCommand
  Unset = Unset
  Corrupt = Corrupt
  t1 = t1
  t2 = t2
  lower1 = lower1
  junk = junk
  Ticker <- MCTicker
  Entry <- MCEntry
  Canon <- MCCanon
  DefaultTickers <- OneDefault
  MaxTickers = 1
  RawInit <- MCRaw
INVARIANTS TypeOK LockOwnership ReadStaysCurrent
PROPERTIES WritesAreClean AddsAreConfirmed RepliesAreTrue CommandsEnd
