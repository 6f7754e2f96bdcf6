SPECIFICATION FairSpec
CONSTANTS
  Threads = {t1, t2}
  InitialAlerts = {"0", "1"}
  Faults = {}
INVARIANT GetFindsConnection
PROPERTY AlertShown
