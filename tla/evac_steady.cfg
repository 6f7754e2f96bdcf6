\* A speaker and a light while nothing fails.
CONSTANTS
  Threads = {t1}
  LightThreads = {l1}
  InitialAlerts = {"0"}
  MaxFiles = 3
  Faults = {}
SPECIFICATION FairSystemSpec
PROPERTY
  HeatReachesAll
CHECK_DEADLOCK FALSE
