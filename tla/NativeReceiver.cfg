SPECIFICATION FairSpec
CONSTANTS
  SIZE = 3
  SockCap = 2
  MaxArrivals = 4
  MaxStarts = 2
  MaxInterrupts = 1
INVARIANTS
  NothingVanishes
PROPERTIES
  ImplementsStream
  DropsTheLatest
  StopTerminates
  EverythingSettles
CHECK_DEADLOCK FALSE
