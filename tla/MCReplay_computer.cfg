SPECIFICATION FairSpec
CONSTANTS
  Request = {r1, r2}
  NoRequest = NoRequest
  Canceller = {c1}
  i1 = i1
  i2 = i2
  Id = {i1}
  NoId = NoId
  Traffic <- TrafficComputer
  CacheSize = 1
  MayExpire = FALSE
INVARIANTS
  OwnsComputerAlone
PROPERTIES
  FencedBeforeAnswer
  InterruptedCallsSettle
  RequestsEnd
