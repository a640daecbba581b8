CONSTANTS
  Cells = {a, b}
  a = a
  b = b
  Displays = {"d"}
  MaxRuns = 2
  MaxMessages = 3
SPECIFICATION OutputsSpec
CHECK_DEADLOCK FALSE
INVARIANTS HandlersAreSound OutputsAsSent
PROPERTY ErrorsAreReported
