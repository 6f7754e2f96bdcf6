\* Every fault; ids are used again, and lost observers stay in the list.
CONSTANTS
  UINT8_MAX = 2
  MAX_OBSERVER_FAILED_COMM = 1
  UsedIds = {0, 1}
  MaxListed = 2
  Devices = {d1}
  NoDevice = NoDevice
  Threads = {t1, t2}
  Faults = {"cancel", "comm", "send", "redis", "reuse"}
SPECIFICATION Spec
SYMMETRY AllSymmetry
CHECK_DEADLOCK FALSE
INVARIANTS
  TypeOK
  ListMatchesStack
  StartedMeansRunning
  OneNotifierUntilStopped
  OnlyDisturbedRoundsFail
  EntriesNeedMembership
PROPERTIES
  ImplementsRounds
  AliveClearsOnlyThroughKeyZero
