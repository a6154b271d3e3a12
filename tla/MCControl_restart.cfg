SPECIFICATION Spec

CONSTANTS
  t1 = t1
  t2 = t2
  s1 = s1
  s2 = s2
  Tab = {t1}
  Owner = {oa}
  Start = {s1}
  Stops = {h1, h2, h3}
  Stopper = {t1, h2, h3}
  TabOf <- SameTab
  Explicit = {s1}
  Cancelable = {}
  Popup = Popup
  Alarm = Alarm
  Beat = Beat
  Boot = Boot
  None = None
  MaxCrashes = 1
  MaxFails = 1
  MaxEvents = 2

CONSTRAINT Apart

CHECK_DEADLOCK FALSE

INVARIANTS
  ControlTypeOK
  Covered
  CrashCovered
  InForce
  Durable
