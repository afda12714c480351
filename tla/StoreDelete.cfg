CONSTANTS
  Dates = {1, 2}
  Times = {1, 2}
  Names = {"math", "art"}
  MaxLen = 2
SPECIFICATION Spec
INVARIANT
  ListedCanBeDeleted
