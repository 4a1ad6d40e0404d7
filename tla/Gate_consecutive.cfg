\* One delivery at a time, the lock sometimes taken by others: is a seal always after failures in a row?
SPECIFICATION Spec
CONSTANTS
  probe = probe
  ask = ask
  show = show
  word = word
  anon = anon
  spam = spam
  typo = typo
  Delivery = {d1, d2, d3}
  MaxOverlap = 1
  Text <- SealTexts
  KindOf <- SealKinds
  Blank <- NoneBlank
  NoText = NoText
  NoOne = NoOne
  Other = Other
  MaxFailures = 2
  MaxSids = 3
  Ttl = 1
  MaxAudit = 2
  MaxNow = 0
  MaxEdits = 0
PROPERTY SealsAreConsecutive
CHECK_DEADLOCK FALSE
