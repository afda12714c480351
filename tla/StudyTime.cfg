CONSTANTS
  Minute = 2
  Begin = 3
  MaxClock = 8
SPECIFICATION Spec
CHECK_DEADLOCK FALSE
INVARIANTS
  TypeOK
  CountedOnce
PROPERTIES
  AnswerIsCurrent
  Served
  HandlerReturns
