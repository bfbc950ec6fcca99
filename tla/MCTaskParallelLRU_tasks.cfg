SPECIFICATION FairSpec
CONSTANTS
  t1 = t1 t2 = t2 w1 = w1
  k1 = k1 k2 = k2 k3 = k3
  none = none
  NoThread = none
  NoKey = none
  Callers <- TwoCallers
  Workers <- OneWorker
  Keys <- ThreeKeys
  Tasks <- Spawned
  Needs <- Needed
  MaxEntries = 1
  Budget = 3
\* The threads may have used up their calls.
CHECK_DEADLOCK FALSE
INVARIANTS TypeOK SingleFlight WorkerReadProtected NeverWaitsForItself
PROPERTIES ImplementsContract CallsReturn
