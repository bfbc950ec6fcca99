SPECIFICATION Spec
CONSTANTS
  t1 = t1 t2 = t2
  m1 = m1 m2 = m2
  Threads <- TwoThreads
  Movies <- OneMovie
  Frames = {1}
  MaxDecoders = 1
  MaxFrames = 1
  MaxVersion = 2
  Budget = 2
  MaxRefreshes = 1
CHECK_DEADLOCK FALSE
INVARIANT FreshAfterRefresh
