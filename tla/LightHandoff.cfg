CONSTANTS
  MaxFrames = 2
SPECIFICATION FairSpec
INVARIANTS
  TypeOK
  LampFollows
  OverriddenOnce
PROPERTIES
  DeafOnlyIfCrossed
  SensorReturns
  
