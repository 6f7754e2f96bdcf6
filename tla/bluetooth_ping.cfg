\* More requests than ids; answers come late or not at all.
CONSTANTS
  Count = 3
  ident = 200
  LastId = 201
  MaxSent = 12
  MaxAir = 3
  Faults = {"late", "lost", "signal", "error"}
SPECIFICATION Spec
INVARIANTS
  TypeOK
  LossIsUnanswered
  AnswersMatch
PROPERTIES
  SuccessMeasuresAll
  PingEnds
