SPECIFICATION Spec
CONSTANTS
  Request = {r1, r2, r3}
  NoRequest = NoRequest
  Canceller = {c1}
  i1 = i1
  i2 = i2
  Id = {i1, i2}
  NoId = NoId
  Traffic <- TrafficBrowser
  CacheSize = 1
  MayExpire = FALSE
SYMMETRY Symmetry
INVARIANTS
  FencedBeforeUnlock
  AcceptedMeansLatched
PROPERTIES
  FencedButForCancel
CONSTRAINT OneOther
