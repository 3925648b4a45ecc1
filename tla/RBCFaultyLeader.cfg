\* A faulty leader equivocating between a value and a non-encoding: safety, and totality under fairness.
CONSTANTS
  Nodes = {n1, n2, n3, n4}
  n1 = n1
  n2 = n2
  n3 = n3
  n4 = n4
  f = 1
  Faulty = {n4}
  Leader = n4
  Values = {v1}
  BadRoots = {b1}
  None = None
  Failed = Failed
  MaxFaultyMsgs = 4
SPECIFICATION MCFairSpec
INVARIANTS TypeOK Agreement ReadyUnique Decodable
PROPERTIES BroadcastLiveness
CHECK_DEADLOCK FALSE
