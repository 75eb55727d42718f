SPECIFICATION Spec
CONSTANTS
  Unit = {1, 2, 3}
  Apdu <- MCApdu
  RcvLen = 1
  MaxLen = 1
  MaxIfs = 2
  DefaultIfsc = 1
  RcBytes = 1
  UIntMod = 8
INVARIANTS TypeOK AckInBounds ChainIsContiguous RepeatsAreFresh
PROPERTIES RetriesAreTested
