SPECIFICATION Spec
CONSTANTS
  isr = isr
  task = task
  Putter = {task}
  Getter = {isr}
  Clearer = {isr}
  Priority <- MCPriority
  Element = {0, 1}
  count = 3
  MaxBatch = 2
  WordMod = 8
INVARIANTS IndicesAgree
PROPERTIES ImplementsFifo
