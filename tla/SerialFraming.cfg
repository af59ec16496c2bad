SPECIFICATION FramingSpec
CONSTANTS
  MaxByte = 3
  Frames <- MCFrames
  Size <- MCSize
  NoiseMax = 3
  FramesMax = 4
  LineMax = 5
INVARIANTS CutIndependent Resynchronises
CHECK_DEADLOCK FALSE
