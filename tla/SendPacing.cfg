SPECIFICATION PacingSpec
CONSTANTS
  FrameTicks = 5
  Word = 24
  MaxLate = 6
  MaxJumps = 1
  MaxEvents = 1
INVARIANTS NeverEarly NoBacklog
PROPERTY DelayConverges
