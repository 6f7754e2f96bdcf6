\* A speaker and a light, whatever fails.
CONSTANTS
  Threads = {t1}
  LightThreads = {l1}
  InitialAlerts = {"0"}
  MaxFiles = 2
  Faults = {"redis", "sensor"}
SPECIFICATION SystemSpec
INVARIANT
  AlarmsGoBackToDanger
PROPERTY
  ImplementsAlarm
CHECK_DEADLOCK FALSE
