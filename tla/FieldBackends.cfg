CONSTANTS
  Limb = 1024
  Fold = 4
  Headroom = 4096
  Word = 524288
  Half = 2048
  WordV = 131072
  Even = 2048
  Odd = 1024
  Fold10 = 2
  Word32 = 65536
  Word64 = 1073741824
  Excess = 336
  MulLeft = 500
  SquarePre = 200
  LazyPre = 199
  Post = 135
  PShift = 262144
  FiatP = 241
  Radix52 = 16
  Word52 = 4096
  Order52 = 68187
  Radix29 = 4
  Word29 = 64
  Wide29 = 4096
  Order29 = 66203
  Ring51 = {16380, 24929, 11441, 241}
  Ring10 = {27030, 157, 1613, 2731, 8191}
  Ring52 = {357, 191}
  Ring29 = {239, 277}
  Steps = 2
SPECIFICATION Spec
INVARIANTS ResultsReduced EncodingCanonical BytesKeepBits
PROPERTY BackendsAreRings
CHECK_DEADLOCK FALSE
