CONSTANTS
  Dates = {1, 2}
  Times = {1, 2}
  Names = {"math", "art"}
  MaxLen = 4
SPECIFICATION OrderSpec
CHECK_DEADLOCK FALSE
INVARIANTS
  SubjectIsCurrent
  LightAgrees
PROPERTIES
  AlignSorts
