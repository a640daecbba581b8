CONSTANTS
  MaxItems = 3
  MaxSessions = 2
  MaxSockets = 2
  MaxReloads = 1
  MaxEvents = 6
SPECIFICATION WidgetsFairSpec
CONSTRAINT FewEvents
CHECK_DEADLOCK FALSE
INVARIANTS DispatcherIsSound RestartRegistersTargets UpdatesAreHandledFirst
PROPERTY NothingIsHeldUp
