SPECIFICATION Spec
CONSTANTS
  Call = {k1}
  NoCall = NoCall
  Conn = {c1, c2}
  NoConn = NoConn
  QueueCapacity = 1
  Detached = {k1}
  MayStop = FALSE
SYMMETRY Symmetry
INVARIANTS
  ResultFromItsConnection
  StaysOnItsConnection
  NoZombie
PROPERTIES
  ImplementsContract
CHECK_DEADLOCK FALSE
