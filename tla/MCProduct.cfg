SPECIFICATION MCSpec
CONSTANTS
  isr = isr
  task = task
  Context = {isr, task}
  Priority <- MCPriority
  Data <- MCData
  Request <- MCRequest
  MaxCalls = 3
  TempBlocks = 2
  BlockLen = 4
  DigestLen = 2
  WordMod = 8
  Bits = 2
  LenMod = 16
  MaxPiece = 7
  MaxLength = 33
  KeyLength = {0, 3, 4, 5}
  ByteString <- MCByteString
  HexText <- MCHexText
  Packet <- MCPacket
  DecimalDigits <- MCDecimalDigits
  Character <- MCCharacter
  FormatText <- MCFormatText
  Arguments <- MCArguments
  Width <- MCWidth
  Precision <- MCPrecision
  LongMod = 32
  ShortMod = 8
  PointerDigits = 4
  Strings <- MCStrings
INVARIANTS ProductIsExact
CHECK_DEADLOCK FALSE
