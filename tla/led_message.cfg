SPECIFICATION Spec
CONSTANTS
  Threads = {t1}
  InitialAlerts = {"0"}
  Faults = {}
INVARIANT MessageMeansNoConnection
