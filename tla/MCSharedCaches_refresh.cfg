SPECIFICATION FairSpec
CONSTANTS
  t1 = t1 t2 = t2
  m1 = m1 m2 = m2
  Threads <- TwoThreads
  Movies <- TwoMovies
  Frames = {1}
  MaxDecoders = 1
  MaxFrames = 1
  MaxVersion = 2
  Budget = 2
  MaxRefreshes = 1
\* The threads may have used up their requests.
CHECK_DEADLOCK FALSE
INVARIANTS TypeOK OneLoaderPerEntry WaitsForWorker StaleHasCause
PROPERTY RequestsReturn
