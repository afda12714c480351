CONSTANTS
  sub_str <- MCNames
  NameWidth = 2
  Numbers <- MCNumbers
  Digit = {"0","1","2","5","7","9"}
  Width = 2
  File0 <- MCFile
  Letter = {"k","o","e","n","m"}
  IP = {a, b}
  Command <- MCCommand
SPECIFICATION DimSpec
INVARIANTS
  TypeOK
  FileTypeOK
  DamageOnlyBehind
  OnlyEntered
  LookupsSucceed
  OneLamp
