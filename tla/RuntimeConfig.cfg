SPECIFICATION Spec
CONSTANTS
  w1 = w1
  w2 = w2
  r1 = r1
  r2 = r2
  r3 = r3
  p1 = p1
  Workers = {w1, w2}
  Reads = {r1, r2, r3}
  Puts = {p1}
  Home <- MCHome
  CacheTTL = 2
INVARIANTS
  TypeOK
  StaleAtMostTTL
  ServedOnWasOn
  AnswersSawItOn
PROPERTY
  OffSettles
