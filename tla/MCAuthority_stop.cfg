SPECIFICATION Spec
CONSTANTS
  r1 = r1
  r2 = r2
  Request = {r1, r2}
  Traffic <- Starts
  Conn = {c1}
  Share = {s1, s2}
  NoConn = NoConn
  NoShare = NoShare
  NoComputer = NoComputer
  NoScreen = NoScreen
  NoGate = NoGate
  MaxRetired = 1
  Malformed = FALSE
INVARIANT StoppedIsStopped
SYMMETRY Symmetry
CHECK_DEADLOCK FALSE
