CONSTANTS
  P = 109
  Bits = 7
  Fresh = 1005
  MulRoom = 3363
  SubRoom = 15000
  Over = 1000000
  A24 = 12
  Order = 13
  LeftRoom = 5656
  LazyRoom = 1998
  SquareRoom = 2828
  Raw = 15990
  Starts = {0, 1, 30, 52}
  Scales = {1, 5}
  Sizes = {2, 190, 500, 800}
  Steps = 1
SPECIFICATION Spec
INVARIANTS PointsValid HeadroomKept RecodingsExact InversesExact EncodingsUnique
PROPERTY GroupImplemented
CHECK_DEADLOCK FALSE
