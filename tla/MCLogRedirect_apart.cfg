SPECIFICATION Spec
CONSTANTS
  t1 = t1 t2 = t2 t3 = t3
  Threads <- ThreeThreads
  User = User
  Torn = Torn
  Lines = 1
  Budget = 2
CHECK_DEADLOCK FALSE
SYMMETRY ThreadSymmetry
INVARIANTS TypeOK RestoredIfApart ProbeCompleteIfApart
