\* A faulty leader hands the members FINALs of two values, votes in their names and junk.
CONSTANTS
  Nodes = {0, 1, 2, 3}
  f = 1
  Faulty = {0}
  Leader = 0
  Values = {v1, v2}
  None = None
  Failed = Failed
  size = 8
  MaxFaultyMsgs = 2
  FaultyTags = {"FINAL", "PROOF", "JUNK"}
  Inputs = {v1, v2}
  Forged = {v1, v2}
  Claimed = {1, 2}
  Targets = {1, 2, 3}
SPECIFICATION MCSpec
SYMMETRY Symmetry
INVARIANT NoSilentDivergence
CHECK_DEADLOCK FALSE
