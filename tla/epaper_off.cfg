SPECIFICATION Spec
CONSTANTS
  Screens = 3
  RefreshTime = 32
  SleepTime = 1
  BusyTimeout = 50
  OffDelay = 25
INVARIANT OffShowsTheLastScreen
