------------------------------ MODULE Pairing ------------------------------
(***************************************************************************)
(* The two groups and the pairing of bls12_381/mod.rs and ec.rs: G1 over   *)
(* Fq and G2 on the twist over Fq2, their encodings, the prepared lines of *)
(* a G2 point, the Miller loop and the final exponentiation.               *)
(***************************************************************************)
EXTENDS TowerFields, SequencesExt

CONSTANTS
  R,             \* the order of the groups
  B_COEFF,       \* G1 is y^2 = x^3 + B_COEFF
  BLS_X, BLS_X_IS_NEGATIVE,  \* the curve's parameter: its magnitude and its sign
  G1_GENERATOR_X, G1_GENERATOR_Y,
  G2_GENERATOR_X_C0, G2_GENERATOR_X_C1, G2_GENERATOR_Y_C0, G2_GENERATOR_Y_C1

Bits(n) == {i \in 0..30 : (n \div 2 ^ i) % 2 = 1}
Parameter == IF BLS_X_IS_NEGATIVE THEN -BLS_X ELSE BLS_X
G1_COFACTOR == LET x == Parameter IN ((x - 1) * (x - 1)) \div 3
G2_COFACTOR == LET x == Parameter
               IN  (x ^ 8 - 4 * x ^ 7 + 5 * x ^ 6 - 4 * x ^ 4 + 6 * x ^ 3 - 4 * x ^ 2 - 4 * x + 13) \div 9
C1 == INSTANCE BlsCurve WITH
        Zero <- 0, One <- 1, None <- Absent1, B <- B_COEFF, Plus <- Add1, Minus <- Sub1, Times <- Mul1,
        Squared <- Square1, Inverted <- Inverse1, Sqrt <- Sqrt1, Less <- Less1,
        Char <- Bits(R), Cofactor <- Bits(G1_COFACTOR)
\* B_COEFF times xi
C2 == INSTANCE BlsCurve WITH
        Zero <- Zero2, One <- One2, None <- Absent, B <- <<(B_COEFF * Xi0) % Q, B_COEFF>>, Plus <- Add2, Minus <- Sub2,
        Times <- Mul2, Squared <- Square2, Inverted <- Inverse2, Sqrt <- Sqrt2, Less <- Less2,
        Char <- Bits(R), Cofactor <- Bits(G2_COFACTOR)

\* The parameter is even: the loops run over BLS_X >> 1 and add one doubling.  The order, the
\* prime and the cofactors are the polynomials of the BLS12 family in it.
ASSUME BlsAssumption ==
  /\ BLS_X % 2 = 0 /\ Parameter % 3 = 1
  /\ R = BLS_X ^ 4 - BLS_X ^ 2 + 1
  /\ Q = G1_COFACTOR * R + Parameter

OneG1 == [x |-> G1_GENERATOR_X, y |-> G1_GENERATOR_Y, infinity |-> FALSE]
OneG2 == [x |-> <<G2_GENERATOR_X_C0, G2_GENERATOR_X_C1>>, y |-> <<G2_GENERATOR_Y_C0, G2_GENERATOR_Y_C1>>,
          infinity |-> FALSE]

-----------------------------------------------------------------------------
(* Encodings: the three flag bits on top of the first word, and the words, *)
(* numbers that need not be below Q.  Fq2 puts c1 first.                   *)

Failure(error) == [error |-> error]
IsFailure(r) == "error" \in DOMAIN r
InRange(words) == \A i \in DOMAIN words : words[i] < Q
AllZero(e) == ~e.greatest /\ \A i \in DOMAIN e.words : e.words[i] = 0
Point1(words) == [x |-> words[1], y |-> words[2], infinity |-> FALSE]
Point2(words) == [x |-> <<words[2], words[1]>>, y |-> <<words[4], words[3]>>, infinity |-> FALSE]

\* into_affine_unchecked; point makes the point of the words.
DecodeUnchecked(e, compressed, zero, point(_)) ==
  CASE e.compressed # compressed -> Failure("UnexpectedCompressionMode")
    [] e.compressed = compressed /\ e.infinity -> IF AllZero(e) THEN zero ELSE Failure("UnexpectedInformation")
    [] OTHER ->
         IF ~compressed /\ e.greatest THEN Failure("UnexpectedInformation")
         ELSE IF ~InRange(e.words) THEN Failure("CoordinateDecodingError")
         ELSE point(e)
Found(p, none) == IF p = none THEN Failure("NotOnCurve") ELSE p
G1UncompressedUnchecked(e) == DecodeUnchecked(e, FALSE, C1!ZeroAffine, LAMBDA f : Point1(f.words))
G1CompressedUnchecked(e) ==
  DecodeUnchecked(e, TRUE, C1!ZeroAffine, LAMBDA f : Found(C1!GetPointFromX(f.words[1], f.greatest), C1!NoPoint))
G2UncompressedUnchecked(e) == DecodeUnchecked(e, FALSE, C2!ZeroAffine, LAMBDA f : Point2(f.words))
G2CompressedUnchecked(e) ==
  DecodeUnchecked(e, TRUE, C2!ZeroAffine,
                  LAMBDA f : Found(C2!GetPointFromX(<<f.words[2], f.words[1]>>, f.greatest), C2!NoPoint))
\* Variant: the subgroup is not looked at.
OnCurveOnly1(p) == IF IsFailure(p) THEN p ELSE IF ~C1!IsOnCurve(p) THEN Failure("NotOnCurve") ELSE p
G1UncompressedOnCurve(e) == OnCurveOnly1(G1UncompressedUnchecked(e))
Subgroup1(p) == IF IsFailure(p) \/ C1!IsInCorrectSubgroup(p) THEN p ELSE Failure("NotInSubgroup")
Subgroup2(p) == IF IsFailure(p) \/ C2!IsInCorrectSubgroup(p) THEN p ELSE Failure("NotInSubgroup")
Checked1(p) == IF IsFailure(p) \/ C1!IsOnCurve(p) THEN Subgroup1(p) ELSE Failure("NotOnCurve")
Checked2(p) == IF IsFailure(p) \/ C2!IsOnCurve(p) THEN Subgroup2(p) ELSE Failure("NotOnCurve")
G1UncompressedIntoAffine(e) == Checked1(G1UncompressedUnchecked(e))
\* A decompressed point is on the curve.
G1CompressedIntoAffine(e) == Subgroup1(G1CompressedUnchecked(e))
G2UncompressedIntoAffine(e) == Checked2(G2UncompressedUnchecked(e))
G2CompressedIntoAffine(e) == Subgroup2(G2CompressedUnchecked(e))

Encoded(compressed, p, greatest, words, none) ==
  [compressed |-> compressed, infinity |-> p.infinity, greatest |-> ~p.infinity /\ greatest,
   words |-> IF p.infinity THEN none ELSE words]
G1UncompressedFromAffine(p) == Encoded(FALSE, p, FALSE, <<p.x, p.y>>, <<0, 0>>)
G1CompressedFromAffine(p) == Encoded(TRUE, p, Less1(Neg1(p.y), p.y), <<p.x>>, <<0>>)
G2UncompressedFromAffine(p) == Encoded(FALSE, p, FALSE, <<p.x[2], p.x[1], p.y[2], p.y[1]>>, <<0, 0, 0, 0>>)
G2CompressedFromAffine(p) == Encoded(TRUE, p, Less2(Neg2(p.y), p.y), <<p.x[2], p.x[1]>>, <<0, 0>>)

-----------------------------------------------------------------------------
(* Window sizes                                                            *)

ForScalar(bits, four, three) ==
  LET n == IF bits = {} THEN 0 ELSE Max(bits) + 1 IN IF n >= four THEN 4 ELSE IF n >= three THEN 3 ELSE 2
G1WindowForScalar(bits) == ForScalar(bits, 130, 34)
G2WindowForScalar(bits) == ForScalar(bits, 103, 37)
\* The thresholds grow, so the loop that stops at the first one not passed counts them.
ForNumScalars(n, thresholds) == 4 + Cardinality({i \in DOMAIN thresholds : n > thresholds[i]})
G1WindowForNumScalars(n) == ForNumScalars(n, <<1, 3, 7, 20, 43, 120, 273, 563, 1630, 3128, 7933, 62569>>)
G2WindowForNumScalars(n) == ForNumScalars(n, <<1, 3, 8, 20, 47, 126, 260, 826, 1501, 4555, 84071>>)

-----------------------------------------------------------------------------
(* The pairing.  count and negative are BLS_X and BLS_X_IS_NEGATIVE, the   *)
(* loop's parameters.                                                      *)

\* Tangent at r: the doubled r and the line's coefficients (Algorithm 26 of eprint 2010/354)
DoubledPoint(r, yy, yyyy, s, m, mm, zz, x) ==
  [x |-> x, y |-> Sub2(Mul2(Sub2(s, x), m), Double2(Double2(Double2(yyyy)))),
   z |-> Sub2(Sub2(Square2(Add2(r.z, r.y)), yy), zz)]
TangentLine(r, xx, yy, m, mm, zz, doubled) ==
  [r |-> doubled,
   line |-> <<Double2(Mul2(doubled.z, zz)), Neg2(Double2(Mul2(m, zz))),
              Sub2(Sub2(Sub2(Square2(Add2(r.x, m)), xx), mm), Double2(Double2(yy)))>>]
DoublingFrom(r, xx, yy, yyyy, s, m, mm, zz) ==
  TangentLine(r, xx, yy, m, mm, zz, DoubledPoint(r, yy, yyyy, s, m, mm, zz, Sub2(Sub2(mm, s), s)))
DoublingSlope(r, xx, yy, yyyy, m) ==
  DoublingFrom(r, xx, yy, yyyy, Double2(Sub2(Sub2(Square2(Add2(yy, r.x)), xx), yyyy)), m, Square2(m), Square2(r.z))
DoublingSquares(r, xx, yy) == DoublingSlope(r, xx, yy, Square2(yy), Add2(Double2(xx), xx))
DoublingStep(r) == DoublingSquares(r, Square2(r.x), Square2(r.y))
\* Chord through r and the affine q (Algorithm 27)
AddedPoint(r, zz, t2, t3, t5, t6, t7, x) ==
  [x |-> x, y |-> Sub2(Mul2(Sub2(t7, x), t6), Double2(Mul2(r.y, t5))),
   z |-> Sub2(Sub2(Square2(Add2(r.z, t2)), zz), t3)]
ChordLine(q, t6, added) ==
  [r |-> added,
   line |-> <<Double2(added.z), Double2(Neg2(t6)),
              Sub2(Double2(Mul2(t6, q.x)), Sub2(Sub2(Square2(Add2(q.y, added.z)), Square2(q.y)), Square2(added.z)))>>]
AdditionProducts(r, q, zz, t2, t3, t5, t6, t7) ==
  ChordLine(q, t6, AddedPoint(r, zz, t2, t3, t5, t6, t7, Sub2(Sub2(Sub2(Square2(t6), t5), t7), t7)))
AdditionFrom(r, q, zz, t1, t2, t3, t4) ==
  AdditionProducts(r, q, zz, t2, t3, Mul2(t4, t2), Sub2(Sub2(t1, r.y), r.y), Mul2(t4, r.x))
AdditionSquared(r, q, zz, t2, t3) ==
  AdditionFrom(r, q, zz, Mul2(Sub2(Sub2(Square2(Add2(q.y, r.z)), Square2(q.y)), zz), zz), t2, t3, Double2(Double2(t3)))
AdditionDifference(r, q, zz, t2) == AdditionSquared(r, q, zz, t2, Square2(t2))
AdditionZ(r, q, zz) == AdditionDifference(r, q, zz, Sub2(Mul2(zz, q.x), r.x))
AdditionStep(r, q) == AdditionZ(r, q, Square2(r.z))

\* The bits of count >> 1 below its leading one, highest first
LoopBits(count) ==
  LET bits == Bits(count \div 2) IN [i \in 1..Max(bits) |-> (Max(bits) - i) \in bits]
\* The lines of the loop, before the doubling that stands for the lowest bit
WithLine(st, step) == [i |-> st.i, r |-> step.r, coeffs |-> Append(st.coeffs, step.line)]
Doubled(st) == WithLine(st, DoublingStep(st.r))
Added(st, q) == WithLine(st, AdditionStep(st.r, q))
NextBit(st) == [st EXCEPT !.i = @ + 1]
LineTurn(st, q, bit) == NextBit(IF bit THEN Added(Doubled(st), q) ELSE Doubled(st))
LinesAlong(q, bits) ==
  Iterate(LAMBDA st : LineTurn(st, q, bits[st.i]), [i |-> 1, r |-> C2!IntoProjective(q), coeffs |-> <<>>], Len(bits))
LoopLines(q, count) == LinesAlong(q, LoopBits(count))
G2Prepared(q, count) ==
  [infinity |-> q.infinity, coeffs |-> IF q.infinity THEN <<>> ELSE Doubled(LoopLines(q, count)).coeffs]

\* A line at the point p, multiplied into f
Ell(f, coeffs, p) ==
  MulBy014(f, coeffs[3], <<(coeffs[2][1] * p.x) % Q, (coeffs[2][2] * p.x) % Q>>,
           <<(coeffs[1][1] * p.y) % Q, (coeffs[1][2] * p.y) % Q>>)
\* Pairs <<p, prepared q>>; the coefficients of all of them are consumed in step, k of each so
\* far, and pairs with an infinite point are skipped.
Live(pairs) == SelectSeq(pairs, LAMBDA pq : ~pq[1].infinity /\ ~pq[2].infinity)
Lines(live, st) ==
  [st EXCEPT !.k = @ + 1, !.f = FoldLeft(LAMBDA g, pq : Ell(g, pq[2].coeffs[st.k + 1], pq[1]), @, live)]
SquaredNext(st) == [st EXCEPT !.i = @ + 1, !.f = Square12(@)]
MillerTurn(live, st, bit) == SquaredNext(IF bit THEN Lines(live, Lines(live, st)) ELSE Lines(live, st))
MillerAlong(live, bits) ==
  Lines(live, Iterate(LAMBDA st : MillerTurn(live, st, bits[st.i]), [i |-> 1, f |-> One12, k |-> 0], Len(bits))).f
MillerLines(live, count) == MillerAlong(live, LoopBits(count))
Signed(f, negative) == IF negative THEN Conjugate(f) ELSE f
MillerLoop(pairs, count, negative) == Signed(MillerLines(Live(pairs), count), negative)

\* To the power (Q^12 - 1) / R times a constant: the easy part, then powers of the parameter
\* and Frobenius maps.
EasyEnd(f2) == Mul12(FrobeniusMap12(f2, 2), f2)
EasyPart(f) == Then(Mul12(Conjugate(f), Inverse12(f)), EasyEnd)
ExpByX(f, x) == Signed(Pow12(f, x), BLS_X_IS_NEGATIVE)
HardEnd(r, y0, y1, y2, y3) ==
  Mul12(Mul12(Mul12(FrobeniusMap12(y1, 3), FrobeniusMap12(y2, 2)), Mul12(Mul12(ExpByX(y3, BLS_X), y0), r)),
        FrobeniusMap12(y3, 1))
HardY2(r, y0, y1, y2) ==
  Then(Mul12(ExpByX(y2, BLS_X), Conjugate(y1)), LAMBDA y3 : HardEnd(r, y0, y1, y2, y3))
HardY1(r, y0, y1) == Then(ExpByX(y1, BLS_X), LAMBDA y2 : HardY2(r, y0, y1, y2))
HardP1(r, y0, p1) ==
  Then(Mul12(Conjugate(Mul12(p1, Conjugate(r))), ExpByX(p1, BLS_X \div 2)), LAMBDA y1 : HardY1(r, y0, y1))
HardY0(r, y0) == Then(ExpByX(y0, BLS_X), LAMBDA p1 : HardP1(r, y0, p1))
HardPart(r) == Then(Square12(r), LAMBDA y0 : HardY0(r, y0))
FinalExponentiation(f) == IF Inverse12(f) = Absent THEN Absent ELSE Then(EasyPart(f), HardPart)

\* Engine::pairing, and a product of pairings in one loop
PairingOf(p, q, count, negative) ==
  Then(MillerLoop(<< <<p, G2Prepared(q, count)>> >>, count, negative), FinalExponentiation)
=============================================================================
