\* An observer cancels, another one joins.
CONSTANTS
  UINT8_MAX = 1
  MAX_OBSERVER_FAILED_COMM = 2
  UsedIds = {0, 1}
  MaxListed = 2
  Devices = {d1}
  NoDevice = NoDevice
  Threads = {t1, t2}
  Faults = {"cancel"}
SPECIFICATION Spec
CHECK_DEADLOCK FALSE
INVARIANT
  StopsOnlyWithoutObservers
