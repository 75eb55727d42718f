\* Receive queue: the interrupt pushes, the task pops; the volume fits in a char.
SPECIFICATION Spec
CONSTANTS
  isr = isr
  task = task
  Pusher = {isr}
  Popper = {task}
  Priority <- MCPriority
  Byte = {0, 1}
  DataBufLen = 4
  CharMod = 4
  ShortMod = 16
INVARIANTS ChecksStayValid FilledMeansData
PROPERTIES ImplementsFifo ZeroMeansEmpty
