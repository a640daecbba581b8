CONSTANTS
  MaxStarts = 2
  MaxRestarts = 1
SPECIFICATION Spec
INVARIANT RestartedMeansRestarted
