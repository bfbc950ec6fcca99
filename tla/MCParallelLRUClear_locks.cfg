SPECIFICATION ClearSpec
CONSTANTS
  t1 = t1
  t2 = t2
  k1 = k1
  k2 = k2
  Threads <- TwoThreads
  Keys <- TwoKeys
  NumBins = 1
  BinOf <- OneBin
  Costs = {1, 2}
  Limits = {1, 2}
  FirstLimit = 2
  MaxRounds = 3
  CacheErrors = TRUE
  Ops = {"get", "getIfCached", "set", "setIfUncached", "cached", "erase", "clear", "setMaxCost"}
  Budget = 2
SYMMETRY ThreadSymmetry
INVARIANTS
  SingleFlight
  HandleValid
  PopIteratorValid
  ClearAloneErasesAll
  TwoKeepLimit
PROPERTY
  ImplementsContract
\* Every thread may have used up its calls.
CHECK_DEADLOCK FALSE
