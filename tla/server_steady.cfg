\* Observers only join: as many as there are ids, one more than a round takes.
CONSTANTS
  UINT8_MAX = 3
  MAX_OBSERVER_FAILED_COMM = 2
  UsedIds = {0, 1, 2, 3}
  MaxListed = 4
  Devices = {d1}
  NoDevice = NoDevice
  Threads = {t1, t2}
  Faults = {}
SPECIFICATION FairSpec
CHECK_DEADLOCK FALSE
INVARIANT
  StopsOnlyWithoutObservers
PROPERTY
  EveryObserverNotified
