SPECIFICATION SysSpec
CONSTANTS
  Unit <- MCUnit
  Apdu <- MCApdu
  Reply <- MCReply
  Refusal <- MCRefusal
  RcvLen = 3
  MaxLen = 1
  CardIfs = 1
  MaxIfs = 2
  DefaultIfsc = 1
  RcBytes = 1
  UIntMod = 8
  MaxFaults = 5
  MaxAsks = 2
  MaxCalls = 3
INVARIANTS ExactlyOnce OnlyWhatWasSent CleanResyncIsHarmless StartsInStep
PROPERTIES CallsReturn
CHECK_DEADLOCK FALSE
