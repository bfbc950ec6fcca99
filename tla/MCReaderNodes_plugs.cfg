SPECIFICATION Spec
CONSTANTS
  r1 = r1
  r2 = r2
  none = none
  NoReader = none
  Readers <- TwoReaders
  Frames = {2, 4}
  Outputs = {"format", "dataWindow", "channelNames", "availableFrames", "probe"}
  Movies <- TwoMovies
  Filters = {"null", "scale", "bad"}
  FirstPlugs <- Holding
  Settings <- AllSettings
  MaxDecoders = 1
  MaxFrames = 1
  MaxValues = 1
  MaxChanges = 2
SYMMETRY ReaderSymmetry
INVARIANTS
  TypeOK
  CachedIsCurrent
  ReloadedUnlessShared
  TileFitsFrame
  HoldPlaysForward
  MaskedAsBoundary
\* The changes may be used up, and all that is pulled be cached.
CHECK_DEADLOCK FALSE
