\* Levels: 5 is sound for every class, 4 for all but Curve25519G, 9 for none; 0 raises.
\* Scalars: zero, a low and a middle bit, the top bit of a Curve25519 scalar and of an Fr,
\* and one with bits in several windows.
CONSTANTS
  Objs = {a, b}
  Order = 3
  P = 7
  Gen = 2
  Levels = {0, 4, 5, 9}
  Scalars = {{}, {0}, {252}, {3, 9, 130, 254}}
SPECIFICATION Spec
INVARIANTS TypeOK TablesMultiply OtherLevelsMiscompute
PROPERTY TablesFollowElements
CHECK_DEADLOCK FALSE
