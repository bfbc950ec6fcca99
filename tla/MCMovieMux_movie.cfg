SPECIFICATION FairSpec
CONSTANTS
  FrameLists <- Mixed
  EncoderDelay = 2
  CapDelay = TRUE
INVARIANTS TypeOK CompleteIfNoFailure ContextExists FileReleased
PROPERTY SequenceEnds
