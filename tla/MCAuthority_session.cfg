SPECIFICATION FairSpec
CONSTANTS
  r1 = r1
  r2 = r2
  Request = {r1}
  Traffic <- Everything
  Conn = {c1, c2}
  Share = {s1}
  NoConn = NoConn
  NoShare = NoShare
  NoComputer = NoComputer
  NoScreen = NoScreen
  NoGate = NoGate
  MaxRetired = 1
  Malformed = TRUE
INVARIANT GateIsOfHelper
PROPERTIES ReplacementIsSpared RevokedIsForgotten PendingResolves RejectedCaptureEnds
\* The request ends, and a helper that left does not return.
CHECK_DEADLOCK FALSE
