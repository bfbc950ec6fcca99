SPECIFICATION FairSpec
CONSTANTS
  Streams <- TwoStreams
  Best = 0
  FrameCount = 3
  FrameRate <- Rate24
  TimeBase <- FineTicks
  StartTime = 100
  Pts <- FinePts
  Duration <- FineDuration
  Packets <- Interleaved
  CodecDelay = 1
  Budget = 4
\* The budget of calls may be used up.
CHECK_DEADLOCK FALSE
INVARIANTS TypeOK StreamsOfOpenFile
PROPERTIES FrameFound NoOtherFrame CallReturns
