SPECIFICATION Spec
CONSTANTS
  b1 = b1
  b2 = b2
  Bills = {b1, b2}
  Blank = Blank
  Null = Null
  Callbacks <- MCCallbacks
CHECK_DEADLOCK FALSE
INVARIANTS
  TypeOK
  MoneyIsConserved
  MoneyReachesItsBill
