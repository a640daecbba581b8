CONSTANTS
  MaxSessions = 2
  MaxLaunches = 3
  MaxPort = 6
  PortsPerKernel = 2
SPECIFICATION FairSpec
CHECK_DEADLOCK FALSE
INVARIANTS PortsAreExclusive PortsComeBack ProcessesAreOwned ProviderLeavesNothing
PROPERTY StartsSettle
