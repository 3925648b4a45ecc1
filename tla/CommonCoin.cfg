CONSTANTS
  Nodes = {n1, n2, n3, n4}
  n1 = n1
  n2 = n2
  n3 = n3
  n4 = n4
  f = 1
  Faulty = {n4}
  None = None
  Rounds = {r1}
  Selections = {s1, s2}
SPECIFICATION FairSpec
INVARIANTS ReceiverSurvives Unpredictable
PROPERTY CoinTermination
CHECK_DEADLOCK FALSE
