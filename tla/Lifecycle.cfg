SPECIFICATION FairSpec
CONSTANTS
  Tasks = {"tick", "request"}
  Tick = "tick"
  MaxAttempts = 4
  MaxEntries = 2
  MaxCalls = 2
INVARIANTS
  TypeOK
  EnginesAreAccountedFor
  TransportFailuresAre502
PROPERTIES
  TicksKeepComing
  WindsDown
CHECK_DEADLOCK FALSE
