SPECIFICATION XSpec
CONSTANTS
  Unit = {1}
  Apdu <- MCApdu
  RcvLen = 1
  MaxLen = 1
  MaxIfs = 2
  DefaultIfsc = 1
  RcBytes = 1
  UIntMod = 8
  BaseTimeout = 1
  MaxTimeout = 8
  CharLevel = FALSE
INVARIANTS ExtensionIsTemporary
PROPERTIES TimeoutGrowsOnFaults NegotiationEnds
