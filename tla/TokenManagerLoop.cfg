SPECIFICATION Spec
CONSTANTS
  w1 = w1
  q1 = q1
  Nobody = Nobody
  Workers = {w1}
  Requests = {q1}
  Home <- MCOneRequest
  NEnvs = 1
  NLooped = 1
  Life = 6
  AppLife = 6
  Margin = 2
  InnerMargin = 1
  AppMargin = 1
  Interval <- MCInterval
  MaxWait = 0
  Faults = {}
INVARIANT
  RequestsNeverLogIn
