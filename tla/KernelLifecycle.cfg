CONSTANTS
  MaxStarts = 2
  MaxRestarts = 3
SPECIFICATION FairSpec
INVARIANTS DeafOnlyWhileKilling CancelReachesStarts
PROPERTY RestartsReturn
