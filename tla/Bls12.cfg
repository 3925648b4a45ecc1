CONSTANTS
  Q = 727
  Xi0 = 13
  R = 241
  B_COEFF = 7
  BLS_X = 4
  BLS_X_IS_NEGATIVE = FALSE
  G1_GENERATOR_X = 45
  G1_GENERATOR_Y = 411
  G2_GENERATOR_X_C0 = 204
  G2_GENERATOR_X_C1 = 367
  G2_GENERATOR_Y_C0 = 199
  G2_GENERATOR_Y_C1 = 66
  RistOrder = 13
  First = {0, 1, 5, 240}
  Second = {0, 1, 120}
  Scales = {1, 5}
  Counts = {4, 968}
  Negatives = {478}
  Sizes = {3, 500, 800}
  Steps = 2
SPECIFICATION Spec
INVARIANTS TowerExact DecodingExact ScalarsExact
PROPERTY BilinearGroups
CHECK_DEADLOCK FALSE
