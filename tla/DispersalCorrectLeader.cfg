\* A correct leader; the faulty member hands out stripes of another value and forged shares.
CONSTANTS
  Nodes = {0, 1, 2, 3}
  f = 1
  Faulty = {1}
  Leader = 0
  Values = {v1, v2}
  None = None
  Failed = Failed
  size = 8
  MaxFaultyMsgs = 2
  FaultyTags = {"FINAL", "SHARE"}
  Inputs = {v1}
  Forged = {v2}
  Claimed = {0, 2}
  Targets = {0, 2, 3}
SPECIFICATION MCFairSpec
INVARIANTS TypeOK DataKept EnoughToDecode
 
CHECK_DEADLOCK FALSE
