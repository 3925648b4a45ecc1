CONSTANTS
  Nodes = {n1, n2, n3, n4}
  n1 = n1
  n2 = n2
  n3 = n3
  n4 = n4
  f = 1
  Faulty = {n4}
  None = None
  MaxRound = 0
SPECIFICATION MCFairSpec
PROPERTY RoundsProgress
CHECK_DEADLOCK FALSE
