SPECIFICATION Spec
CONSTANTS
  k1 = k1
  a1 = a1
  r1 = r1
  s1 = s1
  d1 = d1
  d2 = d2
  m1 = m1
  v1 = v1
  Null = Null
  Codes = {k1}
  RobotIds = {r1}
  TestRobotId = TestRobotId
  Secrets = {s1}
  Handlers = {"echo", "ai", "api_call", "mys4s"}
  Whitelists <- MCWhitelists
  Stores = {v1}
  Admins = {a1}
  Deliveries = {d1, d2}
  Initial <- MCRobot
  MaxDocs = 1
  Messages = {m1}
  MessageOf <- MCMessageOf
  Plated = {m1}
  SessionOf <- MCSessionOf
  Faults = {"insert", "update", "lookup", "save", "crash"}
CHECK_DEADLOCK FALSE
SYMMETRY MCSymmetry
INVARIANTS
  TypeOK
  PendingIsUnderway
  SuccessHasReply
  PushedIsNotFailed
  VerifiedIsStored
  PassesHaveOwners
PROPERTY
  SettledStays
