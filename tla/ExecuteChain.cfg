CONSTANTS
  MaxRequests = 3
  MaxKernels = 2
  MaxDrops = 1
SPECIFICATION FairSpec
CHECK_DEADLOCK FALSE
INVARIANTS OneRequestAtATime WhatRunsIsAwaited
PROPERTY RequestsAreDone
