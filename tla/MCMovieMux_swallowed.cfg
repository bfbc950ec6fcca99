SPECIFICATION Spec
CONSTANTS
  FrameLists <- TwoFrames
  EncoderDelay = 1
  CapDelay = TRUE
INVARIANT FinishedIsComplete
