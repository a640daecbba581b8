SPECIFICATION FairSpec
CONSTANTS
  Standard = {1, 2, 3}
  Observable = {4, 5}
  NoRequest = NoRequest
  StandardCount = 2
  ObservableCount = 1
  MaxDaemons = 4
  MaxBegun = 3
CONSTRAINT FewBegin
INVARIANTS PoolsAreSound DaemonsServeOne
PROPERTY CallsReturn
CHECK_DEADLOCK FALSE
