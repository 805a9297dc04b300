SPECIFICATION MixerSpec
CONSTANTS
  Sources = {a, b, c}
  mBufferSize = 2
  Full = 8
  Volumes = {2, 7}
  MaxFrames = 3
INVARIANT MixesEverySource
CHECK_DEADLOCK FALSE
