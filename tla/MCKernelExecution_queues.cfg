CONSTANTS
  a = a
  b = b
  Cells = {a, b}
  EmptyCells = {}
  MaxExecs = 2
  MaxSessions = 2
  MaxInterrupts = 2
  MaxSeparate = 1
  MaxRestarts = 0
  RerunLive = TRUE
SPECIFICATION Spec
SYMMETRY CellsAreInterchangeable
CHECK_DEADLOCK FALSE
INVARIANTS OneRunPerQueue OneActiveCell LiveExecutionsAreOwned InterruptedQueueIsFinished
PROPERTIES DeadKernelEndsQueue QueuesImplementJobs
