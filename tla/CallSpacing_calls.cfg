\* A run and two ADDs at any distance, with calls of up to two ticks.
SPECIFICATION Spec
CONSTANTS
  Run = {r1}
  Add = {a1, a2}
  Spacing = 1
  Minute = 4
  PerMinute = 5
  MaxTickers = 6
  MaxAsked = 7
  Brisk = 1
  MaxLatency = 2
  Limit = 12
  MaxNow = 13
INVARIANT FitsTheLimit
PROPERTY LimitHasCompany
CHECK_DEADLOCK FALSE
