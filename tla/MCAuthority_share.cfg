SPECIFICATION Spec
CONSTANTS
  r1 = r1
  r2 = r2
  Request = {r1, r2}
  Traffic <- Mixed
  Conn = {c1}
  Share = {s1, s2}
  NoConn = NoConn
  NoShare = NoShare
  NoComputer = NoComputer
  NoScreen = NoScreen
  NoGate = NoGate
  MaxRetired = 1
  Malformed = TRUE
INVARIANTS TypeOK DisplayIsAuthorized ActiveIsApproved NeverReapproved StoppedUnlessAbandoned
PROPERTIES UnknownBlocksActing
SYMMETRY Symmetry
\* Every request ends, and a helper that left does not return.
CHECK_DEADLOCK FALSE
