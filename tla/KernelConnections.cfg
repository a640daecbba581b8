CONSTANTS
  MaxCalls = 3
  MaxConnections = 3
  MaxKernels = 2
SPECIFICATION Spec
CHECK_DEADLOCK FALSE
INVARIANTS NotebookIsSound CallsGetKernelsThatAreThere
PROPERTY FailuresAreShown
