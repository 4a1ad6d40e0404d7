\* Three clicks that may overlap, on texts lost, repeated, overtaken or altered; the counter may be lost once.
SPECIFICATION Spec
CONSTANTS
  Click = {c1, c2, c3}
  Null = Null
  FirstNumber = 0
  MaxNumber = 3
  MaxInbox = 3
  MaxRestarts = 1
INVARIANTS LastIsHighest CountedOnce NoFalseAlarm NothingSlipsBy
SYMMETRY ClickSymmetry
CHECK_DEADLOCK FALSE
