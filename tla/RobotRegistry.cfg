SPECIFICATION RegistrySpec
CONSTANTS
  k1 = k1
  k2 = k2
  r1 = r1
  r2 = r2
  s1 = s1
  s2 = s2
  a1 = a1
  a2 = a2
  d1 = d1
  d2 = d2
  h1 = h1
  h2 = h2
  Null = Null
  Codes = {k1, k2}
  RobotIds = {r1, r2}
  TestRobotId = TestRobotId
  Secrets = {s1, s2}
  Handlers = {h1}
  Whitelists <- MCNoWhitelist
  Stores = {}
  Admins = {a1, a2}
  Deliveries = {d1, d2}
  Initial <- MCLegacy
  MaxDocs = 2
CHECK_DEADLOCK FALSE
SYMMETRY MCSymmetry
INVARIANTS
  RegistryTypeOK
  SecretBelongsToDoc
  AcceptedUnderOwnSecret
  RotationLostOnlyToPlain
