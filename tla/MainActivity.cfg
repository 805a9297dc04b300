SPECIFICATION Spec
CONSTANTS
  MaxSessions = 2
  DigitPackets = 1
  Unicast = {u}
  Multicast = {m}
  Padded = {q}
  Bad = {b}
  Port = {p}
  MaxReceivers = 2
  MaxDialogs = 2
INVARIANTS OneSession SendsOnOwnSocket LateExceptions RowsAreReceivers PlayersHaveRows
PROPERTY StoppedEnds
CHECK_DEADLOCK FALSE
