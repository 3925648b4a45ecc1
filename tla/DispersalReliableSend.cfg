\* The leader's queued FINALs, with one member silent.
CONSTANTS
  Nodes = {0, 1, 2, 3}
  f = 1
  Faulty = {1}
  Leader = 0
  Values = {v1}
  None = None
  Failed = Failed
  size = 8
  MaxFaultyMsgs = 0
  FaultyTags = {}
  Inputs = {v1}
  Forged = {}
  Claimed = {}
  Targets = {}
SPECIFICATION MCFairSpec
PROPERTY ReliableSend
CHECK_DEADLOCK FALSE
