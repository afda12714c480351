CONSTANTS
  Char <- MCChar
  Texts <- MCTexts
  PipeBuf = 3
  MacLen = 2
  MaxDev = 2
  NL = "/"
  Blank = {"_", "/"}
SPECIFICATION Spec
INVARIANTS
  TypeOK
  AddressesOfOutput
PROPERTIES
  CutsInvisible
  Returns
