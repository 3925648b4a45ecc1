----------------------------- MODULE Ristretto -----------------------------
(***************************************************************************)
(* The prime-order group of ristretto.rs: a point of the even subgroup     *)
(* stands for its coset of the four-torsion.                               *)
(***************************************************************************)
EXTENDS Edwards

RistrettoIdentity == Identity
CompressedRistrettoIdentity == 0

\* s must be canonical (also in its unused high bit) and nonnegative; x nonnegative, t
\* nonnegative, y nonzero.
AnyBytes(bytes) == TRUE  \* variant of CanonicalBytes: no check
CanonicalBytes(bytes) == ToBytes(FromBytes(bytes)) = bytes
RistrettoPoint(square, x, y) ==
  IF ~square \/ IsNegative(FMul(x, y)) \/ IsZero(y) THEN None ELSE FromAffine(x, y)
RistrettoFromRoot(s, u1, u2, v, root) ==
  LET Dx == FMul(root[2], u2)
  IN  RistrettoPoint(root[1], NonNegative(FMul(FTwice(s), Dx)), FMul(u1, FMul(root[2], FMul(Dx, v))))
RistrettoFromV(s, u1, u2, v) == RistrettoFromRoot(s, u1, u2, v, InvSqrt(FMul(v, FSquare(u2))))
RistrettoFromU(s, u1, u2) ==
  RistrettoFromV(s, u1, u2, FSub(FMul(FNeg(EDWARDS_D), FSquare(u1)), FSquare(u2)))
RistrettoDecompress(bytes) ==
  LET s == FromBytes(bytes)
  IN  IF ~CanonicalBytes(bytes) \/ IsNegative(s) THEN None
      ELSE RistrettoFromU(s, FSub(One, FSquare(s)), FAdd(One, FSquare(s)))

RistrettoEncode(X, Y, Z, z_inv, den_inv) ==
  ToBytes(NonNegative(FMul(den_inv, FSub(Z, ConditionalNegate(Y, IsNegative(FMul(X, z_inv)))))))
\* Rotated by the four-torsion when T z_inv is negative
RistrettoRotated(p, i1, i2, z_inv) ==
  IF IsNegative(FMul(p.T, z_inv))
  THEN RistrettoEncode(FMul(p.Y, SQRT_M1), FMul(p.X, SQRT_M1), p.Z, z_inv, FMul(i1, INVSQRT_A_MINUS_D))
  ELSE RistrettoEncode(p.X, p.Y, p.Z, z_inv, i2)
RistrettoInverted(p, i1, i2) == RistrettoRotated(p, i1, i2, FMul(i1, FMul(i2, p.T)))
RistrettoScaled(p, u1, u2, invsqrt) == RistrettoInverted(p, FMul(invsqrt, u1), FMul(invsqrt, u2))
RistrettoFactors(p, u1, u2) == RistrettoScaled(p, u1, u2, InvSqrt(FMul(u1, FSquare(u2)))[2])
RistrettoCompress(p) == RistrettoFactors(p, FMul(FAdd(p.Z, p.Y), FSub(p.Z, p.Y)), FMul(p.X, p.Y))

\* Encodes 2P for every P of the list with one inversion; panics when a product is zero.
BatchStateOf(e, f, g, h) == [e |-> e, f |-> f, g |-> g, h |-> h, eg |-> FMul(e, g), fh |-> FMul(f, h)]
BatchState(p) ==
  LET ZZ == FSquare(p.Z)
      dTT == FMul(FSquare(p.T), EDWARDS_D)
  IN  BatchStateOf(FMul(p.X, FTwice(p.Y)), FAdd(ZZ, dTT), FAdd(FSquare(p.Y), FSquare(p.X)), FSub(ZZ, dTT))
BatchEncodeS(h, g, magic, Tinv) == ToBytes(NonNegative(FMul(FSub(h, g), FMul(magic, FMul(g, Tinv)))))
BatchEncodeWith(e, g, h, magic, Zinv, Tinv) ==
  BatchEncodeS(h, ConditionalNegate(g, IsNegative(FMul(FMul(h, e), Zinv))), magic, Tinv)
BatchRotated(state, Zinv, Tinv) ==
  IF IsNegative(FMul(state.eg, Zinv))
  THEN BatchEncodeWith(state.g, FNeg(state.e), FMul(state.f, SQRT_M1), SQRT_M1, Zinv, Tinv)
  ELSE BatchEncodeWith(state.e, state.g, state.h, INVSQRT_A_MINUS_D, Zinv, Tinv)
BatchEncode(state, inv) == BatchRotated(state, FMul(state.eg, inv), FMul(state.fh, inv))
BatchEncodings(states, invs) ==
  IF invs = "panic" THEN invs ELSE [j \in DOMAIN states |-> BatchEncode(states[j], invs[j])]
BatchFromStates(states) ==
  BatchEncodings(states, BatchInvert([j \in DOMAIN states |-> FMul(states[j].eg, states[j].fh)]))
DoubleAndCompressBatch(points) == BatchFromStates([j \in DOMAIN points |-> BatchState(points[j])])

ElligatorPoint(s, D, Nt) ==
  CompletedToExtended([X |-> FMul(FTwice(s), D), Z |-> FMul(Nt, SQRT_AD_MINUS_ONE),
                       Y |-> FSub(One, FSquare(s)), T |-> FAdd(One, FSquare(s))])
ElligatorC(r, s, D, c) == ElligatorPoint(s, D, FSub(FMul(FMul(c, FSub(r, One)), EDWARDS_D_MINUS_ONE_SQUARED), D))
\* A nonsquare's root is multiplied by r0 and made negative.
ElligatorS(r0, r, D, root) ==
  IF root[1] THEN ElligatorC(r, root[2], D, Elem(-1))
  ELSE ElligatorC(r, FNeg(NonNegative(FMul(root[2], r0))), D, r)
ElligatorD(r0, r, D) == ElligatorS(r0, r, D, SqrtRatioI(FMul(FAdd(r, One), ONE_MINUS_EDWARDS_D_SQUARED), D))
ElligatorR(r0, r) == ElligatorD(r0, r, FMul(FSub(Elem(-1), FMul(EDWARDS_D, r)), FAdd(r, EDWARDS_D)))
ElligatorRistrettoFlavor(r0) == ElligatorR(r0, FMul(SQRT_M1, FSquare(r0)))

\* Two halves of a uniform string (random, from_hash, hash_from_bytes)
FromUniformBytes(lo, hi) ==
  EdwardsAdd(ElligatorRistrettoFlavor(FromBytes(lo)), ElligatorRistrettoFlavor(FromBytes(hi)))

RistrettoEq(p, q) == CtEq(FMul(p.X, q.Y), FMul(p.Y, q.X)) \/ CtEq(FMul(p.X, q.X), FMul(p.Y, q.Y))
\* The group operations are those of the representatives.
RistrettoAdd(p, q) == EdwardsAdd(p, q)
RistrettoSub(p, q) == EdwardsSub(p, q)
RistrettoNeg(p) == EdwardsNeg(p)
RistrettoSum(ps) == FoldLeft(RistrettoAdd, RistrettoIdentity, ps)
RistrettoSelect(p, q, choice) == EdwardsSelect(p, q, choice)
=============================================================================
