SPECIFICATION Spec
CONSTANTS
  SampleRate = 30
  SampleCount = 2
  SeqMod = 8
  TsMod = 16
  FirstSequences = {0, 7}
  FirstTimestamps = {0, 15}
  MaxDigits = 3
  MaxFrames = 6
  MaxStarts = 2
INVARIANTS
  OneEventPerDigit
  SampleClock
  DigitsStayInSession
CHECK_DEADLOCK FALSE
