CONSTANTS
  Node = {1, 2}
  Window = 3
  MaxDelay = 2
  FdLimit = 2
SPECIFICATION Spec
INVARIANTS
  TypeOK
  ListedRanLately
  ListedIsRecent
