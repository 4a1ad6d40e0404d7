\* Three installs of three days each, overlapping and dying; each one ends.
SPECIFICATION Spec
CONSTANTS
  Install = {i1, i2, i3}
  Days = 3
  Initial <- MCInitial
  FirstId = 4
  MaxTriggers = 12
INVARIANTS SoloInstallHeals LastWordIsTrue
CHECK_DEADLOCK FALSE
