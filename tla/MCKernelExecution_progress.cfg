CONSTANTS
  a = a
  b = b
  Cells = {a, b}
  EmptyCells = {b}
  MaxExecs = 2
  MaxSessions = 1
  MaxInterrupts = 1
  MaxSeparate = 1
  MaxRestarts = 1
  RerunLive = FALSE
SPECIFICATION FairSpec
CHECK_DEADLOCK FALSE
INVARIANT NoRunIsLost
PROPERTIES RunsComplete CallsReturn RestartEndsRuns
