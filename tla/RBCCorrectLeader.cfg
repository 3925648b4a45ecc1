\* A correct leader, a faulty member echoing or announcing another value.
CONSTANTS
  Nodes = {n1, n2, n3, n4}
  n1 = n1
  n2 = n2
  n3 = n3
  n4 = n4
  f = 1
  Faulty = {n4}
  Leader = n1
  Values = {v1, v2}
  BadRoots = {}
  None = None
  Failed = Failed
  MaxFaultyMsgs = 1
SPECIFICATION MCFairSpec
INVARIANTS Validity
PROPERTY BroadcastLiveness
CHECK_DEADLOCK FALSE
