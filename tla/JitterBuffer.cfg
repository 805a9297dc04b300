SPECIFICATION JBSpec
CONSTANTS
  SIZE = 4
  Packet = {p1, p2}
  NoPacket = NoPacket
INVARIANTS
  LentIsReserved
  RefusesOnlyWhenFull
PROPERTY ImplementsFifo
