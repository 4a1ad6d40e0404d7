\* Can re-running leave a day with two triggers?
SPECIFICATION Spec
CONSTANTS
  Install = {i1, i2}
  Days = 2
  Initial <- Nothing
  FirstId = 1
  MaxTriggers = 4
INVARIANT NoDuplicates
CHECK_DEADLOCK FALSE
