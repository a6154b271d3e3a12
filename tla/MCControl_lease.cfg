SPECIFICATION FairSpec

CONSTANTS
  t1 = t1
  t2 = t2
  s1 = s1
  s2 = s2
  Tab = {t1}
  Owner = {oa}
  Start = {s1, s2}
  Stops = {}
  Stopper = {}
  TabOf <- SameTab
  Explicit = {s1}
  Cancelable = {s2}
  Popup = Popup
  Alarm = Alarm
  Beat = Beat
  Boot = Boot
  None = None
  MaxCrashes = 1
  MaxFails = 0
  MaxEvents = 0

CHECK_DEADLOCK FALSE

INVARIANTS
  EndedStaysEnded

PROPERTIES
  QuarantineEnds
  Reconciled
