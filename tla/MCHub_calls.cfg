SPECIFICATION FairSpec
CONSTANTS
  Call = {k1, k2}
  NoCall = NoCall
  Conn = {c1}
  NoConn = NoConn
  QueueCapacity = 1
  Detached = {k1, k2}
  MayStop = TRUE
INVARIANTS
  TypeOK
  NoLostCaller
  RefusedNeverDelivered
  CancelAtMostOnce
PROPERTIES
  RevokedCallersReturn
  RevokedHandlersEnd
CHECK_DEADLOCK FALSE
