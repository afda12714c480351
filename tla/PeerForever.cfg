CONSTANTS
  Node = {1, 2}
  Window = 2
  MaxDelay = 1
  FdLimit = 2
SPECIFICATION Spec
INVARIANT
  CanGoOnForever
