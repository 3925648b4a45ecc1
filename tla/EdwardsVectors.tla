--------------------------- MODULE EdwardsVectors ---------------------------
(***************************************************************************)
(* Points of the vector backends: the four extended coordinates in the     *)
(* lanes of one vector (avx2/edwards.rs, ifma/edwards.rs), the cached form *)
(* that is added to them, and the bounds each vector operation needs.      *)
(***************************************************************************)
EXTENDS Ristretto, VectorLanes

CONSTANTS
  LeftRoom,   \* avx2: largest b of the left operand of a product (2^2.5), the right has MulRoom
  LazyRoom,   \* avx2: largest b a lazy negation, 2p - x, accepts
  SquareRoom, \* avx2: largest b of a square (2^1.5)
  Raw         \* ifma: b of an unreduced product, at most that of 16p

ASSUME VectorAssumption == Fresh < LazyRoom /\ LazyRoom < SquareRoom /\ SquareRoom < MulRoom /\ MulRoom < LeftRoom /\ LeftRoom < Raw

VZero == Vector(LAMBDA l : [v |-> 0, b |-> 0])
VAdd(x, y) == Vector(LAMBDA l : FAdd(x[l], y[l]))
LanesOf(p) == <<p.X, p.Y, p.Z, p.T>>
PointOf(x) == [X |-> x[1], Y |-> x[2], Z |-> x[3], T |-> x[4]]
WithBound(x, b) == Vector(LAMBDA l : [v |-> x[l].v, b |-> IF x[l].b < Over THEN b ELSE Over])

\* (121666, 121666, 2 * 121666, 2 * 121665): A24 and A24 - 1 for this curve
CachedFactors == <<A24, A24, 2 * A24, 2 * (A24 - 1)>>
TimesFactors(x, room, b) ==
  Vector(LAMBDA l : [v |-> (x[l].v * CachedFactors[l]) % P, b |-> IF x[l].b <= room THEN b ELSE Over])
ExtendedIdentity == LanesOf(Identity)
CachedIdentity == <<Elem(A24), Elem(A24), Elem(2 * A24), Zero>>
VSelect(x, y, choice) == IF choice THEN y ELSE x

-----------------------------------------------------------------------------
(* avx2                                                                    *)

Avx2NegateLazy(x) == Vector(LAMBDA l : [v |-> (-x[l].v) % P, b |-> IF x[l].b <= LazyRoom THEN 2000 ELSE Over])
\* Avx2Neg reduces; as a variant, it would be the lazy negation again.
Avx2Neg(x) == Vector(LAMBDA l : FNeg(x[l]))
Avx2Mul(x, y) == Vector(LAMBDA l : [v |-> (x[l].v * y[l].v) % P, b |-> Within(x[l].b <= LeftRoom /\ y[l].b <= MulRoom)])
Avx2SquareAndNegateD(x) ==
  Vector(LAMBDA l : [v |-> ((IF l = 4 THEN -1 ELSE 1) * x[l].v * x[l].v) % P, b |-> Within(x[l].b <= SquareRoom)])
Avx2DiffSum(x) == VAdd(ShuffleAvx2(x, "BADC"), BlendAvx2(x, Avx2NegateLazy(x), "AC"))

Avx2FromEdwards(p) == WithBound(LanesOf(p), Fresh)
Avx2ToEdwards(x) == PointOf(x)

Avx2DoubleEnd(S5689) == Avx2Mul(ShuffleAvx2(S5689, "CACA"), ShuffleAvx2(S5689, "DBBD"))
Avx2DoubleSums(square, S2) ==
  Avx2DoubleEnd(VAdd(VAdd(VAdd(BlendAvx2(BlendAvx2(VZero, VAdd(square, square), "C"), square, "D"),
                               ShuffleAvx2(square, "AAAA")),
                          BlendAvx2(VZero, S2, "AD")),
                     BlendAvx2(VZero, Avx2NegateLazy(S2), "BC")))
Avx2DoubleFrom(square) == Avx2DoubleSums(square, ShuffleAvx2(square, "BBBB"))
Avx2Double(x) ==
  LET abab == ShuffleAvx2(x, "ABAB")
  IN  Avx2DoubleFrom(Avx2SquareAndNegateD(BlendAvx2(x, VAdd(abab, ShuffleAvx2(abab, "BADC")), "D")))

Avx2NegLast(y) == BlendAvx2(y, Avx2Neg(y), "D")
Avx2Cache(x) == Avx2NegLast(TimesFactors(BlendAvx2(x, Avx2DiffSum(x), "AB"), MulRoom, Fresh))
Avx2NegCached(c) == LET swapped == ShuffleAvx2(c, "BACD") IN BlendAvx2(swapped, Avx2NegateLazy(swapped), "D")
Avx2AddEnd(t) == Avx2Mul(ShuffleAvx2(t, "ADDA"), ShuffleAvx2(t, "CBCB"))
Avx2Add(x, c) ==
  Avx2AddEnd(Avx2DiffSum(ShuffleAvx2(Avx2Mul(BlendAvx2(x, Avx2DiffSum(x), "AB"), c), "ABDC")))
Avx2Sub(x, c) == Avx2Add(x, Avx2NegCached(c))

-----------------------------------------------------------------------------
(* ifma: products are unreduced, and only reduced vectors are multiplied.  *)

IfmaReduce(x) == WithBound(x, Fresh)
IfmaNegateLazy(x) == Vector(LAMBDA l : [v |-> (-x[l].v) % P, b |-> IF x[l].b <= Raw THEN 16000 ELSE Over])
IfmaNeg(x) == IfmaReduce(IfmaNegateLazy(x))
RawProduct(x, y) == [v |-> (x.v * y.v) % P, b |-> IF x.b <= Fresh /\ y.b <= Fresh THEN Raw ELSE Over]
IfmaMul(x, y) == Vector(LAMBDA l : RawProduct(x[l], y[l]))
IfmaSquare(x) == IfmaMul(x, x)
IfmaDiffSum(x) == VAdd(ShuffleIfma(x, "BADC"), BlendIfma(x, IfmaNegateLazy(x), "AC"))

IfmaFromEdwards(p) == LanesOf(p)
IfmaToEdwards(x) == PointOf(IfmaReduce(x))

IfmaDoubleEnd(t2) == IfmaMul(ShuffleIfma(t2, "DBBD"), ShuffleIfma(t2, "CACA"))
IfmaDoubleSums(square, S2) ==
  IfmaDoubleEnd(IfmaReduce(
    VAdd(VAdd(VAdd(ShuffleIfma(square, "AAAA"), BlendIfma(VZero, VAdd(square, square), "C")),
              BlendIfma(VZero, S2, "AD")),
         BlendIfma(VZero, IfmaNegateLazy(BlendIfma(S2, square, "D")), "BCD"))))
IfmaDoubleFrom(square) == IfmaDoubleSums(square, ShuffleIfma(square, "BBBB"))
IfmaDouble(x) ==
  IfmaDoubleFrom(IfmaSquare(IfmaReduce(
    BlendIfma(x, ShuffleIfma(VAdd(x, ShuffleIfma(x, "BADC")), "ABAB"), "D"))))

IfmaNegLast(y) == BlendIfma(y, IfmaNegateLazy(y), "D")
IfmaCache(x) == IfmaReduce(IfmaNegLast(TimesFactors(IfmaReduce(BlendIfma(x, IfmaDiffSum(x), "AB")), Fresh, Raw)))
IfmaNegCached(c) == BlendIfma(ShuffleIfma(c, "BACD"), IfmaNeg(c), "D")
IfmaAddEnd(t) == IfmaMul(ShuffleIfma(t, "ADDA"), ShuffleIfma(t, "CBCB"))
IfmaAdd(x, c) ==
  IfmaAddEnd(IfmaReduce(IfmaDiffSum(ShuffleIfma(IfmaMul(IfmaReduce(BlendIfma(x, IfmaDiffSum(x), "AB")), c), "ABDC"))))
IfmaSub(x, c) == IfmaAdd(x, IfmaNegCached(c))
=============================================================================
