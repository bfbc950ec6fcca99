SPECIFICATION FairSpec
CONSTANTS
  t1 = t1
  t2 = t2
  k1 = k1
  k2 = k2
  Threads <- TwoThreads
  Keys <- TwoKeys
  NumBins = 2
  BinOf <- TwoBins
  Costs = {1, 2}
  Limits = {}
  FirstLimit = 1
  MaxRounds = 3
  CacheErrors = TRUE
  Ops = {"get", "getIfCached", "set", "setIfUncached", "erase", "clear"}
  Budget = 2
INVARIANTS
  TypeOK
  CostAccounted
PROPERTY
  CallsReturn
\* Every thread may have used up its calls.
CHECK_DEADLOCK FALSE
