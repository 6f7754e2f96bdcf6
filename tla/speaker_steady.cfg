\* While redis and the sensor work; callbacks overlap.
CONSTANTS
  Threads = {t1, t2}
  InitialAlerts = {"0"}
  MaxFiles = 5
  Faults = {}
SPECIFICATION FairSpec
INVARIANTS
  TypeOK
  NormalNotResumed
  NoFalseAlarm
  LocalAlarmIsPublished
  LockLostToFiles
PROPERTIES
  AlertStateSettles
  HeatIsAnnounced
CHECK_DEADLOCK FALSE
