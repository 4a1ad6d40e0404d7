\* Up to three deliveries of four texts, two at a time, with a clock and one wipe of the ids.
SPECIFICATION Spec
CONSTANTS
  probe = probe
  ask = ask
  show = show
  word = word
  anon = anon
  spam = spam
  typo = typo
  Delivery = {d1, d2, d3}
  MaxOverlap = 2
  Text <- RepeatTexts
  KindOf <- RepeatKinds
  Blank <- RepeatBlank
  NoText = NoText
  NoOne = NoOne
  Other = Other
  MaxFailures = 2
  MaxSids = 1
  Ttl = 2
  MaxAudit = 2
  MaxNow = 2
  MaxEdits = 1
INVARIANTS TypeOK RepeatsAreOld
SYMMETRY DeliverySymmetry
CHECK_DEADLOCK FALSE
