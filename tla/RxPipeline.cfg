SPECIFICATION FairSpec
CONSTANTS
  BufferSize = 7
  FrameSize = 2
  NoiseLength = 3
  LowMark = 3
  TrackSize = 3
  MaxDue = 2
  MaxArrivals = 4
INVARIANTS
  NothingLost
  WriteHeadTracksEnd
PROPERTIES
  ImplementsStream
  QuietWhenDone
  ListedIsPlayed
CHECK_DEADLOCK FALSE
