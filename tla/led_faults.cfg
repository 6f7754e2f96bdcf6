SPECIFICATION Spec
CONSTANTS
  Threads = {t1, t2, t3}
  InitialAlerts = {"absent", "0", "1"}
  Faults = {"redis", "memory", "address", "answer"}
SYMMETRY Symmetry
INVARIANTS
  TypeOK
  LockHeldByOne
  NoFalseAlarm
PROPERTY LapsesRunOut
CHECK_DEADLOCK FALSE
