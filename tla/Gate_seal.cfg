\* Up to four deliveries, two at a time: the bot seals itself, is opened, and may seal itself again.
SPECIFICATION Spec
CONSTANTS
  probe = probe
  ask = ask
  show = show
  word = word
  anon = anon
  spam = spam
  typo = typo
  Delivery = {d1, d2, d3, d4}
  MaxOverlap = 2
  Text <- SealTexts
  KindOf <- SealKinds
  Blank <- NoneBlank
  NoText = NoText
  NoOne = NoOne
  Other = Other
  MaxFailures = 2
  MaxSids = 3
  Ttl = 1
  MaxAudit = 2
  MaxNow = 0
  MaxEdits = 0
INVARIANTS GateLockOwnership NoticePerSeal SealOnTime NoFailureLost ConfirmationsAreTrue AuditAgrees
PROPERTY OnlyFreshUnlockOpens
SYMMETRY DeliverySymmetry
CHECK_DEADLOCK FALSE
