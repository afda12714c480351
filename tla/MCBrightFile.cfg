CONSTANTS
  sub_str <- MCNames
  NameWidth = 2
  Numbers <- MCNumbers
  Digit = {"0","1","2","5","7","9"}
  Width = 2
  File0 <- MCFile
SPECIFICATION Spec
INVARIANTS
  EverySubjectFound
