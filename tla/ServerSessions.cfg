CONSTANTS
  MaxSessions = 2
  MaxKernels = 3
SPECIFICATION FairSpec
CHECK_DEADLOCK FALSE
INVARIANTS KernelsAreOwned SessionsAreSound
PROPERTY ClosesEnd
