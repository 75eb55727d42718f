SPECIFICATION MCSpec
CONSTANTS
  isr = isr
  task = task
  task2 = task2
  Priority <- MCPriority
  Pusher = {isr, task}
  Popper = {task, task2}
  Byte = {0}
  DataBufLen = 3
  CharMod = 4
  ShortMod = 16
  Putter = {isr, task}
  Getter = {isr, task}
  Clearer = {isr, task}
  Element = {0}
  count = 3
  MaxBatch = 2
  WordMod = 8
  Caller = {isr, task}
  BuffCnt = 5
  Row = 2
  Dump <- MCDump
INVARIANTS HarmNeedsOverlap UndisturbedLineIsWhole
