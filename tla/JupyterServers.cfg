CONSTANTS
  MaxCalls = 3
  MaxChanges = 1
SPECIFICATION FairSpec
CHECK_DEADLOCK FALSE
INVARIANTS OneServerPerKey CachesAreSound
PROPERTY CallsReturn
