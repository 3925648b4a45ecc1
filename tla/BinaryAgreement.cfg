CONSTANTS
  Nodes = {n1, n2, n3, n4}
  n1 = n1
  n2 = n2
  n3 = n3
  n4 = n4
  f = 1
  Faulty = {n4}
  None = None
  MaxRound = 1
SPECIFICATION MCSpec
SYMMETRY Symmetry
VIEW View
INVARIANTS TypeOK Agreement Validity DecisionFixesEstimates ConfConsistent
CHECK_DEADLOCK FALSE
