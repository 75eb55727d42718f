SPECIFICATION MCSpec
CONSTANTS
  Text = {"x"}
  Digits <- MCDigits
  CntMod = 16
  MinCnt = 6
  MaxCnt = 11
  NUM_LENTH = 3
  MaxFaults = 2
  Frame <- MCFrame
  ByteMod = 8
  uart_SubEsc = 2
  SubHead = 3
  SubTail = 4
  uart_Esc = 5
  FRAME_HEAD = 6
  FRAME_TAIL = 7
  TableLo <- MCTableLo
  TableHi <- MCTableHi
  BuffLen = 9
  Message <- MCMessage
  Flag = 7
  Esc = 6
  SubFlag = 5
  SubEsc = 4
  HeadLen = 1
  AttrAt = 2
  SingleBytes = {1, 3}
  TempLen = 13
  Packet <- MCPacket
INVARIANTS IntactFrameRecovers IntactFrameIsCaptured OnlyTheLastIsLate ReportedIsWellFormed OverrunHasACause
