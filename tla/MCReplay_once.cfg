SPECIFICATION Spec
CONSTANTS
  Request = {r1, r2, r3}
  NoRequest = NoRequest
  Canceller = {c1}
  i1 = i1
  i2 = i2
  Id = {i1, i2}
  NoId = NoId
  Traffic <- TrafficRetry
  CacheSize = 1
  MayExpire = TRUE
SYMMETRY Symmetry
INVARIANTS
  TypeOK
  AtMostOnce
  OneOutcome
