SPECIFICATION Spec
CONSTANTS
  w1 = w1
  q1 = q1
  Nobody = Nobody
  Workers = {w1, w2}
  Requests = {q1}
  Home <- MCOneRequest
  NEnvs = 1
  NLooped = 1
  Life = 4
  AppLife = 3
  Margin = 2
  InnerMargin = 1
  AppMargin = 1
  Interval <- MCInterval
  MaxWait = 1
  Faults = {"kingdee", "mongo", "crash"}
INVARIANTS
  TypeOK
  HandedOutIsValid
  LoginsAreNeeded
PROPERTIES
  LateWriteLosesLittle
  WaitersGetOn
