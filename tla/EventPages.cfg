SPECIFICATION Spec
CONSTANTS
  Events = {e1, e2, e3, e4}
  Limit = 1
  Retention = 2
  MaxNow = 3
CHECK_DEADLOCK FALSE
SYMMETRY MCSymmetry
INVARIANTS
  TypeOK
  NothingMissed
