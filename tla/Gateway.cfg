SPECIFICATION Spec
CONSTANTS
  n1 = n1
  n2 = n2
  k1 = k1
  s1 = s1
  a1 = a1
  a2 = a2
  r1 = r1
  r2 = r2
  p1 = p1
  Null = Null
  Names = {n1, n2}
  Keys = {k1}
  Secrets = {s1}
  Limits = {0, 2}
  DefaultLimit = 1
  Scopes <- MCScopes
  Admins = {a1, a2}
  Initial <- MCClient
  MaxClients = 2
  Requests = {r1, r2}
  Endpoints = {p1}
  CounterLife = 2
  MaxMinute = 2
CHECK_DEADLOCK FALSE
SYMMETRY MCSymmetry
INVARIANTS
  TypeOK
  LimitHolds
  RefusedOnlyOverLimit
  CountedAsItsClient
PROPERTY
  ImplementsRateLimit
