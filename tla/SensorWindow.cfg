CONSTANTS
  Num = 4
  MaxProcs = 3
SPECIFICATION FairSpec
CHECK_DEADLOCK FALSE
INVARIANTS
  TypeOK
  NoStrayStudy
  StopHitsTheChild
PROPERTIES
  VotesByRound
  Noticed
  SessionEnds
