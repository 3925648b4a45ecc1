------------------------------ MODULE Edwards ------------------------------
(***************************************************************************)
(* The twisted Edwards curve -x^2 + y^2 = 1 + d x^2 y^2.  First the point  *)
(* models of curve_models/mod.rs: projective (P2), completed (P1 x P1),    *)
(* extended (P3) and the Niels points that are added to an extended one;   *)
(* then points in extended coordinates: edwards.rs, and the Montgomery     *)
(* u-coordinates of montgomery.rs.  None stands for a failed decoding.     *)
(***************************************************************************)
EXTENDS FieldElement

CONSTANT A24  \* (A + 2) / 4 for the Montgomery coefficient A: d = -(A24 - 1) / A24

ASSUME CurveAssumption == A24 \in Nat /\ A24 > 1

EDWARDS_D == Elem(-(A24 - 1) * PowerMod(A24 % P, P - 2))
EDWARDS_D2 == Elem(2 * EDWARDS_D.v)
\* The curve's addition law is complete because d is not a square; its formulas add up to
\* three products before they multiply again.
ASSUME EdwardsAssumption ==
  /\ EDWARDS_D.v \in F /\ A24 % P # 0
  /\ \A r, s \in F : (r * r) % P = (EDWARDS_D.v * s * s) % P => s = 0
ASSUME HeadroomAssumption ==
  /\ Fresh \in Nat /\ MulRoom \in Nat /\ SubRoom \in Nat /\ Over \in Nat
  /\ 1000 <= Fresh /\ 3 * Fresh <= MulRoom
\* Square roots of a - d; the one that encodes as nonnegative
SQRT_AD_MINUS_ONE == Elem(CHOOSE r \in F : (r * r) % P = (-EDWARDS_D.v - 1) % P /\ r % 2 = 0)
INVSQRT_A_MINUS_D == Elem(CHOOSE r \in F : (((r * r) % P) * ((-1 - EDWARDS_D.v) % P)) % P = 1 /\ r % 2 = 0)
ONE_MINUS_EDWARDS_D_SQUARED == Elem(1 - EDWARDS_D.v * EDWARDS_D.v)
EDWARDS_D_MINUS_ONE_SQUARED == Elem((EDWARDS_D.v - 1) * (EDWARDS_D.v - 1))
MONTGOMERY_A == Elem(4 * A24 - 2)
MONTGOMERY_A_NEG == Elem(2 - 4 * A24)
APLUS2_OVER_FOUR == Elem(A24)

ProjectiveIdentity == [X |-> Zero, Y |-> One, Z |-> One]
ProjectiveNielsIdentity == [Y_plus_X |-> One, Y_minus_X |-> One, Z |-> One, T2d |-> Zero]
AffineNielsIdentity == [y_plus_x |-> One, y_minus_x |-> One, xy2d |-> Zero]

\* (-X^2 + Y^2) Z^2 = Z^4 + d X^2 Y^2
ProjectiveEquation(XX, YY, ZZ) ==
  CtEq(FMul(FSub(YY, XX), ZZ), FAdd(FSquare(ZZ), FMul(EDWARDS_D, FMul(XX, YY))))
ProjectiveIsValid(p) == ProjectiveEquation(FSquare(p.X), FSquare(p.Y), FSquare(p.Z))

ProjectiveNielsSelect(x, y, choice) ==
  [Y_plus_X |-> IF choice THEN y.Y_plus_X ELSE x.Y_plus_X, Y_minus_X |-> IF choice THEN y.Y_minus_X ELSE x.Y_minus_X,
   Z |-> IF choice THEN y.Z ELSE x.Z, T2d |-> IF choice THEN y.T2d ELSE x.T2d]
AffineNielsSelect(x, y, choice) ==
  [y_plus_x |-> IF choice THEN y.y_plus_x ELSE x.y_plus_x, y_minus_x |-> IF choice THEN y.y_minus_x ELSE x.y_minus_x,
   xy2d |-> IF choice THEN y.xy2d ELSE x.xy2d]

ProjectiveToExtended(p) == [X |-> FMul(p.X, p.Z), Y |-> FMul(p.Y, p.Z), Z |-> FSquare(p.Z), T |-> FMul(p.X, p.Y)]
CompletedToProjective(c) == [X |-> FMul(c.X, c.T), Y |-> FMul(c.Y, c.Z), Z |-> FMul(c.Z, c.T)]
\* Variant: the product of the wrong halves for T
CompletedToExtendedOldT(c) == [X |-> FMul(c.X, c.T), Y |-> FMul(c.Y, c.Z), Z |-> FMul(c.Z, c.T), T |-> FMul(c.X, c.T)]
CompletedToExtended(c) == [X |-> FMul(c.X, c.T), Y |-> FMul(c.Y, c.Z), Z |-> FMul(c.Z, c.T), T |-> FMul(c.X, c.Y)]

DoubleFrom(p, YY_plus_XX, YY_minus_XX) ==
  [X |-> FSub(FSquare(FAdd(p.X, p.Y)), YY_plus_XX), Y |-> YY_plus_XX,
   Z |-> YY_minus_XX, T |-> FSub(FSquare2(p.Z), YY_minus_XX)]
ProjectiveDouble(p) ==
  DoubleFrom(p, FAdd(FSquare(p.Y), FSquare(p.X)), FSub(FSquare(p.Y), FSquare(p.X)))

\* self plus (minus) a Niels point: the products with the matching (the opposite) halves, then
\* their sum and difference and those of ZZ2 and TT2d.
CompletedSum(PP, MM, ZZ2, TT2d) ==
  [X |-> FSub(PP, MM), Y |-> FAdd(PP, MM), Z |-> FAdd(ZZ2, TT2d), T |-> FSub(ZZ2, TT2d)]
CompletedDifference(PM, MP, ZZ2, TT2d) ==
  [X |-> FSub(PM, MP), Y |-> FAdd(PM, MP), Z |-> FSub(ZZ2, TT2d), T |-> FAdd(ZZ2, TT2d)]
AddProjectiveNiels(self, o) ==
  CompletedSum(FMul(FAdd(self.Y, self.X), o.Y_plus_X), FMul(FSub(self.Y, self.X), o.Y_minus_X),
               FTwice(FMul(self.Z, o.Z)), FMul(self.T, o.T2d))
SubProjectiveNiels(self, o) ==
  CompletedDifference(FMul(FAdd(self.Y, self.X), o.Y_minus_X), FMul(FSub(self.Y, self.X), o.Y_plus_X),
                      FTwice(FMul(self.Z, o.Z)), FMul(self.T, o.T2d))
AddAffineNiels(self, o) ==
  CompletedSum(FMul(FAdd(self.Y, self.X), o.y_plus_x), FMul(FSub(self.Y, self.X), o.y_minus_x),
               FTwice(self.Z), FMul(self.T, o.xy2d))
SubAffineNiels(self, o) ==
  CompletedDifference(FMul(FAdd(self.Y, self.X), o.y_minus_x), FMul(FSub(self.Y, self.X), o.y_plus_x),
                      FTwice(self.Z), FMul(self.T, o.xy2d))

NegProjectiveNiels(o) == [o EXCEPT !.Y_plus_X = o.Y_minus_X, !.Y_minus_X = o.Y_plus_X, !.T2d = FNeg(o.T2d)]
NegAffineNiels(o) == [o EXCEPT !.y_plus_x = o.y_minus_x, !.y_minus_x = o.y_plus_x, !.xy2d = FNeg(o.xy2d)]

-----------------------------------------------------------------------------
None == [none |-> TRUE]

\* A compressed point: the canonical y and, above it, the sign of x.
SignBit == 2 ^ Bits
Identity == [X |-> Zero, Y |-> One, Z |-> One, T |-> Zero]
CompressedIdentity == 1

ToProjective(p) == [X |-> p.X, Y |-> p.Y, Z |-> p.Z]
ToProjectiveNiels(p) ==
  [Y_plus_X |-> FAdd(p.Y, p.X), Y_minus_X |-> FSub(p.Y, p.X), Z |-> p.Z, T2d |-> FMul(p.T, EDWARDS_D2)]
AffineNielsOf(x, y) == [y_plus_x |-> FAdd(y, x), y_minus_x |-> FSub(y, x), xy2d |-> FMul(FMul(x, y), EDWARDS_D2)]
ToAffineNiels(p) == AffineNielsOf(FMul(p.X, Invert(p.Z)), FMul(p.Y, Invert(p.Z)))

Compress(p) == ToBytes(FMul(p.Y, Invert(p.Z))) + (IF IsNegative(FMul(p.X, Invert(p.Z))) THEN SignBit ELSE 0)
\* Any y of the field is accepted, canonical or not, and either sign for x = 0.
FromAffine(x, y) == [X |-> x, Y |-> y, Z |-> One, T |-> FMul(x, y)]
RootForY(YY) == SqrtRatioI(FSub(YY, One), FAdd(FMul(YY, EDWARDS_D), One))
DecompressWith(bytes, Y, root) ==
  IF root[1] THEN FromAffine(ConditionalNegate(root[2], bytes >= SignBit), Y) ELSE None
Decompress(bytes) == DecompressWith(bytes, FromBytes(bytes), RootForY(FSquare(FromBytes(bytes))))
\* Serde writes and reads the same bytes.
Serialize(p) == Compress(p)
Deserialize(bytes) == Decompress(bytes)

IsValid(p) == ProjectiveIsValid(ToProjective(p)) /\ CtEq(FMul(p.X, p.Y), FMul(p.Z, p.T))
EdwardsEq(p, q) == CtEq(FMul(p.X, q.Z), FMul(q.X, p.Z)) /\ CtEq(FMul(p.Y, q.Z), FMul(q.Y, p.Z))
IsIdentity(p) == EdwardsEq(p, Identity)
EdwardsSelect(p, q, choice) ==
  [X |-> IF choice THEN q.X ELSE p.X, Y |-> IF choice THEN q.Y ELSE p.Y,
   Z |-> IF choice THEN q.Z ELSE p.Z, T |-> IF choice THEN q.T ELSE p.T]

EdwardsDouble(p) == CompletedToExtended(ProjectiveDouble(ToProjective(p)))
EdwardsAdd(p, q) == CompletedToExtended(AddProjectiveNiels(p, ToProjectiveNiels(q)))
EdwardsSub(p, q) == CompletedToExtended(SubProjectiveNiels(p, ToProjectiveNiels(q)))
EdwardsNeg(p) == [p EXCEPT !.X = FNeg(p.X), !.T = FNeg(p.T)]
EdwardsSum(ps) == FoldLeft(EdwardsAdd, Identity, ps)

\* k doublings, k > 0: the last one goes straight to extended coordinates.
DoubleProjective(r) == CompletedToProjective(ProjectiveDouble(r))
MulByPow2(p, k) == CompletedToExtended(ProjectiveDouble(Iterate(DoubleProjective, ToProjective(p), k - 1)))
MulByCofactor(p) == MulByPow2(p, 3)
IsSmallOrder(p) == IsIdentity(MulByCofactor(p))

-----------------------------------------------------------------------------
(* montgomery.rs                                                           *)

\* u = (Z + Y) / (Z - Y), and 0 for the identity
ToMontgomery(p) == ToBytes(FMul(FAdd(p.Z, p.Y), Invert(FSub(p.Z, p.Y))))
MontgomeryEq(u, w) == CtEq(FromBytes(u), FromBytes(w))
\* y = (u - 1) / (u + 1); u = -1 is on the twist
ToEdwards(bytes, sign) ==
  LET u == FromBytes(bytes)
  IN  IF CtEq(u, Elem(-1)) THEN None
      ELSE Decompress(ToBytes(FMul(FSub(u, One), Invert(FAdd(u, One)))) + sign * SignBit)

\* Elligator 2
ElligatorU(d, square) == ToBytes(ConditionalNegate(FAdd(d, IF square THEN Zero ELSE MONTGOMERY_A), ~square))
ElligatorFromD(d) ==
  ElligatorU(d, SqrtRatioI(FMul(d, FAdd(FAdd(FSquare(d), FMul(MONTGOMERY_A, d)), One)), One)[1])
ElligatorEncode(r0) == ElligatorFromD(FMul(MONTGOMERY_A_NEG, Invert(FAdd(One, FSquare2(r0)))))
\* The digest is any string; its high bit is the sign.  The code panics on None.
CofactorMultiple(p) == IF p = None THEN None ELSE MulByCofactor(p)
EdwardsFromDigest(bytes) == CofactorMultiple(ToEdwards(ElligatorEncode(FromBytes(bytes)), bytes \div SignBit))

\* Points of the Kummer line
LadderIdentity == [U |-> One, W |-> Zero]
LadderSwap(x0, x1, choice) == IF choice THEN <<x1, x0>> ELSE <<x0, x1>>
LadderToAffine(x) == ToBytes(FMul(x.U, Invert(x.W)))
LadderDouble(t4, t5) ==
  LET t6 == FSub(t4, t5) IN [U |-> FMul(t4, t5), W |-> FMul(t6, FAdd(FMul(APLUS2_OVER_FOUR, t6), t5))]
LadderAdd(t7, t8, affine) == [U |-> FSquare(FAdd(t7, t8)), W |-> FMul(affine, FSquare(FSub(t7, t8)))]
DifferentialAddAndDouble(p, q, affine) ==
  LET t0 == FAdd(p.U, p.W)
      t1 == FSub(p.U, p.W)
  IN  <<LadderDouble(FSquare(t0), FSquare(t1)),
        LadderAdd(FMul(t0, FSub(q.U, q.W)), FMul(t1, FAdd(q.U, q.W)), affine)>>
=============================================================================
