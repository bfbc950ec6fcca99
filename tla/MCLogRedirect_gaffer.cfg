SPECIFICATION Spec
CONSTANTS
  t1 = t1 t2 = t2 t3 = t3
  Threads <- TwoThreads
  User = User
  Torn = Torn
  Lines = 2
  Budget = 1
CHECK_DEADLOCK FALSE
INVARIANT GafferHearsMessages
