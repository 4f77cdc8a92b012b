SPECIFICATION Spec
CONSTANTS
  Managers = {"hub", "chat"}
  Hub = "hub"
  Main = "main"
  MaxRetries = 5
  BaseDelay = 8
  MaxDelay = 30
  MaxSignals = 1
INVARIANTS
  TypeOK
  StopMeansEnded
  SyncedIsThere
PROPERTIES
  StopEndsConsumer
  SignalEndsProcess
CHECK_DEADLOCK FALSE
