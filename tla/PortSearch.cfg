SPECIFICATION FairSearchSpec
CONSTANTS
  PortSpace = 64
  Privileged = 8
  MaxTries = 28
INVARIANTS CreatePromise NewPortEachTry
PROPERTY SearchEnds
CHECK_DEADLOCK FALSE
