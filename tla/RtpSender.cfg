SPECIFICATION Spec
CONSTANTS
  mFrameSize = 100
  mCodecId = 0
  Random = {305419896}
  MaxFrames = 65545
  MaxOdd = 2
INVARIANTS Faithful Monotone DescribesPayload
PROPERTY InSequence
CHECK_DEADLOCK FALSE
