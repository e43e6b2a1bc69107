SPECIFICATION Spec
CONSTANTS
  Events = {e1}
  Replays = {r1, r2}
  Clients = {c1}
  NoClient = NoClient
  b1 = b1
  b2 = b2
  Bills = {b1, b2}
  Splits <- MCSplits
  HistoryCap = 2
  Elsewhere = {e1, r1}
INVARIANTS
  TypeOK
  OnlyForwardableReachSystemA
  SentIsOneCompleteRun
  RepeatNeedsReplayOrRepush
  BookkeepingAgrees
PROPERTIES
  ImplementsLedger
  ScheduledIsSettled
