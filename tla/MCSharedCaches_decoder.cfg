SPECIFICATION Spec
CONSTANTS
  t1 = t1 t2 = t2
  m1 = m1 m2 = m2
  Threads <- TwoThreads
  Movies <- OneMovie
  Frames = {1, 2}
  MaxDecoders = 1
  MaxFrames = 1
  MaxVersion = 1
  Budget = 2
  MaxRefreshes = 0
CHECK_DEADLOCK FALSE
INVARIANT DecoderNotShared
