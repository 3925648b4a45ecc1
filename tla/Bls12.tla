------------------------------- MODULE Bls12 -------------------------------
(***************************************************************************)
(* The pairing code of src/pairing as a register machine on a small curve  *)
(* of the BLS12 family: two Jacobian points of G1, of G2, or one of each   *)
(* with a target in Fq12, and the operations of ec.rs, wnaf.rs, mod.rs and *)
(* lib.rs on them.                                                         *)
(***************************************************************************)
EXTENDS PyFunctions

CONSTANTS
  First, Second,  \* logarithms of the initial points
  Scales,         \* values of z the first point is scaled by
  Counts,         \* values of BLS_X for the Miller loop, congruent modulo R to the curve's
  Negatives,      \* the same, with BLS_X_IS_NEGATIVE
  Sizes,          \* numbers of pairs of a multi-exponentiation
  Steps           \* bound on the operations of a run

VARIABLES mode, grp, fst, snd, tgt, loop, did, spent

vars == <<mode, grp, fst, snd, tgt, loop, did, spent>>

LoopCounts == Counts \cup {-c : c \in Negatives}
ASSUME LoopAssumption == \A c \in LoopCounts : c % 2 = 0 /\ (c - BLS_X) % R = 0

-----------------------------------------------------------------------------
(* The groups by the chord-and-tangent law: multiples of the generators    *)
(* and the powers of their pairing, the reference for what follows.        *)

LawG1(p, q) ==
  LET l == IF p = q THEN (3 * p[1] * p[1] * Inverse1((2 * p[2]) % Q)) % Q
                    ELSE ((q[2] - p[2]) * Inverse1((q[1] - p[1]) % Q)) % Q
      x == (l * l - p[1] - q[1]) % Q
  IN  <<x, (l * (p[1] - x) - p[2]) % Q>>
LawG2(p, q) ==
  LET l == IF p = q THEN Mul2(Mul2(<<3, 0>>, Mul2(p[1], p[1])), Inverse2(Mul2(<<2, 0>>, p[2])))
                    ELSE Mul2(Sub2(q[2], p[2]), Inverse2(Sub2(q[1], p[1])))
      x == Sub2(Sub2(Mul2(l, l), p[1]), q[1])
  IN  <<x, Sub2(Mul2(l, Sub2(p[1], x)), p[2])>>
Multiples(Law(_, _), one) == Iterate(LAMBDA t : Append(t, Law(t[Len(t)], one)), <<one>>, R - 2)
TableG1 == Multiples(LawG1, <<OneG1.x, OneG1.y>>)
TableG2 == Multiples(LawG2, <<OneG2.x, OneG2.y>>)
Magnitude(c) == IF c < 0 THEN -c ELSE c
PowersOf(e) == Iterate(LAMBDA t : Append(t, Mul12(t[Len(t)], e)), <<One12>>, R - 1)
TableGt == [c \in LoopCounts |-> Then(PairingOf(OneG1, OneG2, Magnitude(c), c < 0), PowersOf)]

\* The logarithm, or -1 outside the group
LogIn(table, Same(_)) ==
  LET at == {k \in DOMAIN table : Same(table[k])} IN IF at = {} THEN -1 ELSE CHOOSE k \in at : TRUE
LogG1(p) ==
  IF p.z = 0 THEN 0
  ELSE LET zz == (p.z * p.z) % Q
       IN  LogIn(TableG1, LAMBDA t : p.x = (t[1] * zz) % Q /\ p.y = (t[2] * ((zz * p.z) % Q)) % Q)
LogG2(p) ==
  IF p.z = Zero2 THEN 0
  ELSE LET zz == Mul2(p.z, p.z)
           zzz == Mul2(zz, p.z)
       IN  LogIn(TableG2, LAMBDA t : p.x = Mul2(t[1], zz) /\ p.y = Mul2(t[2], zzz))
LogGt(f) == LogIn(TableGt[loop], LAMBDA t : t = f) - 1
\* The point with logarithm k, in coordinates scaled by z; infinity keeps arbitrary x and y.
PointG1(k, z) ==
  IF k = 0 THEN [x |-> z, y |-> 5, z |-> 0]
  ELSE [x |-> (TableG1[k][1] * z * z) % Q, y |-> (TableG1[k][2] * ((z * z * z) % Q)) % Q, z |-> z]
PointG2(k, z) ==
  LET e == <<z, z - 1>>
  IN  IF k = 0 THEN [x |-> e, y |-> <<5, 6>>, z |-> Zero2]
      ELSE [x |-> Mul2(TableG2[k][1], Mul2(e, e)), y |-> Mul2(TableG2[k][2], Mul2(e, Mul2(e, e))), z |-> e]
InG1(g) == g # "G2"

Bilinear == INSTANCE BilinearRegisters WITH
  N <- R,
  la <- IF grp = "G2" THEN LogG2(fst) ELSE LogG1(fst),
  lb <- IF grp = "G1" THEN LogG1(snd) ELSE LogG2(snd),
  lt <- IF mode = "pairing" THEN LogGt(tgt) ELSE 0

-----------------------------------------------------------------------------
(* Scalars at the width of the code: zero, one, the largest of 255 bits,   *)
(* long runs of ones, and one short enough for the smallest window         *)

Longest == 0..254
Runs == {i \in 0..254 : i % 19 < 12}
Short == {0, 3, 4, 33}
Middling == {i \in 0..110 : (i * i) % 5 < 2}
ScalarSet == {{}, {0}, Longest, Runs, Short, Middling}
Residue(s) == Dalek!ValueMod(s, R)

Init ==
  /\ did = <<"init", 0>> /\ spent = 0 /\ tgt = One12
  /\ \/ /\ mode = "group" /\ grp \in {"G1", "G2"} /\ loop = BLS_X
        /\ \E a \in First, b \in Second, z \in Scales :
             IF grp = "G1" THEN fst = PointG1(a, z) /\ snd = PointG1(b, 1)
                           ELSE fst = PointG2(a, z) /\ snd = PointG2(b, 1)
     \/ /\ mode = "scalars" /\ grp \in {"G1", "G2"} /\ loop = BLS_X
        /\ \E a \in {0, 7} : IF grp = "G1" THEN fst = PointG1(a, 3) /\ snd = PointG1(1, 1)
                                           ELSE fst = PointG2(a, 3) /\ snd = PointG2(1, 1)
     \/ /\ mode = "pairing" /\ grp = "both" /\ loop \in LoopCounts
        /\ \E a \in First, b \in Second : fst = PointG1(a, 3) /\ snd = PointG2(b, 4)

-----------------------------------------------------------------------------
(* Operations                                                              *)

Pick(one, two) == IF grp = "G1" THEN one ELSE two
Does(name, arg) == did' = <<name, arg>> /\ spent' = spent + 1 /\ UNCHANGED <<mode, grp, loop>>
\* Of the multiplications a run makes only one.
Point(m, next, name, arg) ==
  /\ mode = m /\ spent < (IF m = "scalars" THEN 1 ELSE Steps)
  /\ fst' = next
  /\ Does(name, arg)
  /\ UNCHANGED <<snd, tgt>>

Add == Point("group", Pick(C1!AddAssign(fst, snd), C2!AddAssign(fst, snd)), "sum", 1)
Sub == Point("group", Pick(C1!SubAssign(fst, snd), C2!SubAssign(fst, snd)), "sum", -1)
AddMixed ==
  Point("group", Pick(C1!AddAssignMixed(fst, C1!IntoAffine(snd)), C2!AddAssignMixed(fst, C2!IntoAffine(snd))), "sum", 1)
SubAffine ==
  Point("group", Pick(C1!AddAssign(fst, C1!IntoProjective(C1!NegateAffine(C1!IntoAffine(snd)))),
                      C2!AddAssign(fst, C2!IntoProjective(C2!NegateAffine(C2!IntoAffine(snd))))), "sum", -1)
Double == Point("group", Pick(C1!Double(fst), C2!Double(fst)), "scale", 2)
Negate == Point("group", Pick(C1!Negate(fst), C2!Negate(fst)), "scale", -1)
Normalize ==
  Point("group", Pick(C1!BatchNormalization(<<fst, snd, C1!Double(fst)>>)[1],
                      C2!BatchNormalization(<<fst, snd, C2!Double(fst)>>)[1]), "scale", 1)
NormalizeDouble ==
  Point("group", Pick(C1!BatchNormalization(<<fst, snd, C1!Double(fst)>>)[3],
                      C2!BatchNormalization(<<fst, snd, C2!Double(fst)>>)[3]), "scale", 2)
\* Encoded and decoded again; a failure is no point.
Recode1(p, compressed) ==
  IF compressed THEN G1CompressedIntoAffine(G1CompressedFromAffine(p)) ELSE G1UncompressedIntoAffine(G1UncompressedFromAffine(p))
Recode2(p, compressed) ==
  IF compressed THEN G2CompressedIntoAffine(G2CompressedFromAffine(p)) ELSE G2UncompressedIntoAffine(G2UncompressedFromAffine(p))
Recode(compressed) ==
  Point("group", Pick(C1!IntoProjective(Recode1(C1!IntoAffine(fst), compressed)),
                      C2!IntoProjective(Recode2(C2!IntoAffine(fst), compressed))), "scale", 1)
Swap ==
  /\ mode = "group" /\ spent < Steps
  /\ fst' = snd /\ snd' = fst
  /\ Does("swap", 0) /\ UNCHANGED tgt

Mul(s) == Point("scalars", Pick(C1!MulAssign(fst, s), C2!MulAssign(fst, s)), "scale", Residue(s))
MulAffine(s) ==
  Point("scalars", Pick(C1!MulBits(C1!IntoAffine(fst), s), C2!MulBits(C2!IntoAffine(fst), s)), "scale", Residue(s))
\* Wnaf::scalar(..).base(..): the window fits the scalar.
WnafScalar(s) ==
  Point("scalars", Pick(C1!BaseThenScalar(fst, s, G1WindowForScalar(s)),
                        C2!BaseThenScalar(fst, s, G2WindowForScalar(s))), "scale", Residue(s))
\* Wnaf::base(.., n).scalar(..): the window fits the number of scalars.
WnafBase(s, n) ==
  Point("scalars", Pick(C1!BaseThenScalar(fst, s, G1WindowForNumScalars(n)),
                        C2!BaseThenScalar(fst, s, G2WindowForNumScalars(n))), "scale", Residue(s))
Random(x, greatest) ==
  LET p == Pick(C1!RandomFrom(x, greatest), C2!RandomFrom(<<x, x + 1>>, greatest))
  IN  "x" \in DOMAIN p /\ Point("scalars", p, "draw", 0)
\* size pairs: Longest fst, Runs snd, again and again
MultiExp(size) ==
  /\ grp = "G1"
  /\ Point("scalars", PippengerG1([j \in 1..size |-> IF j % 2 = 1 THEN <<Longest, fst>> ELSE <<Runs, snd>>]),
           "combine", <<((size + 1) \div 2) * Residue(Longest), (size \div 2) * Residue(Runs)>>)

Target(next, name, arg) ==
  /\ mode = "pairing" /\ spent < Steps
  /\ tgt' = next
  /\ Does(name, arg)
  /\ UNCHANGED <<fst, snd>>
PairOf(p, q) == PairingOf(C1!IntoAffine(p), C2!IntoAffine(q), Magnitude(loop), loop < 0)
Pair == Target(PairOf(fst, snd), "pair", 1)
\* One Miller loop for e(a, b) e(2a, -b) e(a, 0)
PreparedBy(q) == G2Prepared(C2!IntoAffine(q), Magnitude(loop))
ThreePairs ==
  << <<C1!IntoAffine(fst), PreparedBy(snd)>>, <<C1!IntoAffine(C1!Double(fst)), PreparedBy(C2!Negate(snd))>>,
     <<C1!IntoAffine(fst), PreparedBy(C2!ZeroProjective)>> >>
PairProduct ==
  Target(Then(MillerLoop(ThreePairs, Magnitude(loop), loop < 0), FinalExponentiation), "pair", -1)
Accumulate ==
  Target(Then(PairOf(fst, C2!Negate(snd)), LAMBDA e : Mul12(tgt, e)), "accumulate", -1)
Power(k) == Target(Pow12(tgt, k), "power", k)
Invert == Target(Inverse12(tgt), "power", -1)

Next ==
  \/ Add \/ Sub \/ AddMixed \/ SubAffine \/ Double \/ Negate \/ Normalize \/ NormalizeDouble \/ Swap
  \/ \E compressed \in BOOLEAN : Recode(compressed)
  \/ \E s \in ScalarSet :
       \/ Mul(s) \/ MulAffine(s) \/ WnafScalar(s)
       \/ \E n \in {1, 40} : WnafBase(s, n)
  \/ \E x \in 0..12, greatest \in BOOLEAN : Random(x, greatest)
  \/ \E size \in Sizes : MultiExp(size)
  \/ Pair \/ PairProduct \/ Accumulate \/ Invert \/ \E k \in {0, 3, R} : Power(k)

Spec == Init /\ [][Next]_vars

-----------------------------------------------------------------------------
(* Properties                                                              *)

\* Every operation computes the group operation, whatever the coordinates, for equal, opposite
\* and infinite points, for scalars wider than the order; what a point becomes when encoded and
\* decoded is the same point; a random point is in the group of order R; and the pairing is
\* bilinear, with the pairs of a product taken together and infinite points skipped.
BilinearGroups == Bilinear!Spec

Untouched == mode = "scalars" /\ spent = 0
Some2 == {<<a, b>> : a, b \in {0, 1, 2, 77, 363, Q - 1}}
Some6 == {<<a, b, c>> : a, b, c \in {Zero2, One2, <<5, 700>>, <<0, 12>>}}
Some12 == {<<a, b>> : a, b \in {Zero6, One6, <<Xi, <<3, 9>>, <<0, 12>> >>, <<Zero2, <<8, 1>>, <<726, 77>> >>}}
Embed(a) == << <<a, Zero2, Zero2>>, Zero6>>
\* The q-th power, by squaring
ToTheQ(a) ==
  Iterate(LAMBDA st : [i |-> st.i - 1, r |-> IF st.i \in Bits(Q) THEN Mul12(Square12(st.r), a) ELSE Square12(st.r)],
          [i |-> 9, r |-> One12], 10).r
RepeatedQ(a, n) == Iterate(ToTheQ, a, n)
\* The short formulas of the tower compute what the long ones do: inverses at every level (none
\* exactly for zero), squares, sparse products, a Frobenius map that is the q-th power, square
\* roots exactly for the squares, and the order by which decoding tells two roots apart.
TowerLaws ==
  /\ \A a \in Some2 :
       LET s == Sqrt2(a)
       IN  /\ Square2(a) = Mul2(a, a)
           /\ IF a = Zero2 THEN Inverse2(a) = Absent ELSE Mul2(a, Inverse2(a)) = One2
           /\ (s = Absent) <=> (Legendre2(a) = -1)
           /\ s # Absent => Mul2(s, s) = a
           /\ Sqrt2(Mul2(a, a)) \in {a, Neg2(a)}
           /\ Sqrt2(MulByNonresidue2(Mul2(a, a))) = IF a = Zero2 THEN Zero2 ELSE Absent
           /\ \A b \in Some2 : a # b => (Less2(a, b) <=> ~Less2(b, a))
  /\ \A a \in Some6 :
       /\ Square6(a) = Mul6(a, a)
       /\ MulByNonresidue6(a) = Mul6(a, <<Zero2, One2, Zero2>>)
       /\ IF a = Zero6 THEN Inverse6(a) = Absent ELSE Mul6(a, Inverse6(a)) = One6
       /\ \A c \in {Zero2, One2, <<5, 700>>} :
            /\ MulBy1(a, c) = Mul6(a, <<Zero2, c, Zero2>>)
            /\ MulBy01(a, <<2, 3>>, c) = Mul6(a, << <<2, 3>>, c, Zero2>>)
  /\ \A a \in Some12 :
       /\ Square12(a) = Mul12(a, a)
       /\ IF a = Zero12 THEN Inverse12(a) = Absent ELSE Mul12(a, Inverse12(a)) = One12
       /\ MulBy014(a, <<2, 3>>, <<0, 7>>, Xi) = Mul12(a, << << <<2, 3>>, <<0, 7>>, Zero2>>, <<Zero2, Xi, Zero2>> >>)
       /\ Mul12(a, Embed(Xi)) = << <<MulByNonresidue2(a[1][1]), MulByNonresidue2(a[1][2]), MulByNonresidue2(a[1][3])>>,
                                    <<MulByNonresidue2(a[2][1]), MulByNonresidue2(a[2][2]), MulByNonresidue2(a[2][3])>> >>
       /\ \A n \in {0, 1, 2, 3, 7, 12} : FrobeniusMap12(a, n) = RepeatedQ(a, n)
       /\ FrobeniusMap12(a, 6) = Conjugate(a)
TowerExact == Untouched => TowerLaws

\* Strings of flags and words, words at or above Q among them
Flags == [compressed : BOOLEAN, infinity : BOOLEAN, greatest : BOOLEAN]
String(f, words) ==
  [compressed |-> f.compressed, infinity |-> f.infinity, greatest |-> f.greatest, words |-> words]
Words == {0, 1, 2, 45, 411, 316, Q - 1, Q, Q + 45, 1023}
OnG1(p) == p.infinity \/ LogG1(C1!IntoProjective(p)) > 0
OnG2(p) == p.infinity \/ LogG2(C2!IntoProjective(p)) > 0
\* A decoder accepts a string exactly when it is the encoding of a point of the group of order R.
Accepts(Decode(_), Encode(_), In(_), e) ==
  LET p == Decode(e) IN IF IsFailure(p) THEN TRUE ELSE In(p) /\ Encode(p) = e
DecodingLaws ==
  /\ \A f \in Flags :
       /\ \A x \in 0..30 \cup Words : Accepts(G1CompressedIntoAffine, G1CompressedFromAffine, OnG1, String(f, <<x>>))
       /\ \A x, y \in Words : Accepts(G1UncompressedIntoAffine, G1UncompressedFromAffine, OnG1, String(f, <<x, y>>))
       /\ \A x, y \in {0, 1, 204, Q} :
            /\ Accepts(G2CompressedIntoAffine, G2CompressedFromAffine, OnG2, String(f, <<x, y>>))
            /\ Accepts(G2UncompressedIntoAffine, G2UncompressedFromAffine, OnG2, String(f, <<x, 367, y, 66>>))
  /\ \A x \in 0..(Q - 1) :
       LET p == C1!GetPointFromX(x, FALSE)
       IN  p # C1!NoPoint =>
             /\ C1!IsOnCurve(p) /\ ~Less1(Neg1(p.y), p.y)
             /\ OnG1(p) <=> ~IsFailure(G1UncompressedIntoAffine(G1UncompressedFromAffine(p)))
             /\ OnG1(p) <=> ~IsFailure(G1CompressedIntoAffine(G1CompressedFromAffine(p)))
             /\ G1CompressedUnchecked(G1CompressedFromAffine(p)) = p
             /\ C1!GetPointFromX(x, TRUE) = C1!NegateAffine(p)
\* Decoding: accepts exactly the encodings of the points of the group of order R - no second
\* string for a point, none for a point of the cofactor - and the sign bit selects one root.
DecodingExact == Untouched => DecodingLaws

Ints == {0, 1, -1, 2, R - 2, R - 1, R, R + 1, -R, 1 - R, 2 * R - 2, 500, -500, 12, 13, 26, -13}
\* a^n in the multiplicative group of a prime m, for any integer n
GroupPower(a, n, m) == PowMod(a, n % (m - 1), m)
ScalarLaws ==
  /\ \A a \in Fr, n \in Ints :
       /\ PyFrNew(<< <<"int", n>> >>) = n % R
       /\ PyFrAdd(a, <<"int", n>>) = (a + n) % R /\ PyFrSub(a, <<"int", n>>) = (a - n) % R
       /\ PyFrMul(a, <<"int", n>>) = (a * n) % R
       /\ LET d == PyFrTrueDiv(a, <<"int", n>>) IN IF n % R = 0 THEN d = Panic ELSE (d * n) % R = a
       /\ PyFrDunderPow(a, <<"int", n>>) = IF a = 0 THEN (IF n % (R - 1) = 0 THEN 1 ELSE 0) ELSE GroupPower(a, n, R)
       /\ PyFrEq(a, <<"int", n>>) <=> a = n % R
       /\ PyFrRichCmp(a, <<"int", n>>, "!=") <=> a # n % R
       /\ PyFrSetState(PyFrGetState(a)) = a
  /\ \A a \in RistScalars, n \in Ints :
       /\ PyRistAdd(a, <<"int", n>>) = (a + n) % RistOrder /\ PyRistSub(a, <<"int", n>>) = (a - n) % RistOrder
       /\ PyRistMul(a, <<"int", n>>) = (a * n) % RistOrder
       \* Division by zero is silent here.
       /\ LET d == PyRistTrueDiv(a, <<"int", n>>)
          IN  IF n % RistOrder = 0 THEN d = 0 ELSE (d * n) % RistOrder = a
       /\ a # 0 => PyRistPow(a, <<"int", n>>) = GroupPower(a, n, RistOrder)
       /\ PyRistPow(a, <<"rist", 3>>) = a
  /\ \A a, b, c \in {0, 1, 100, R - 1} :
       /\ Dotprod(<<a, b, c>>, <<c, b>>) = (a * c + b * b) % R
       /\ VecSum(<<a, b, c>>) = (a + b + c) % R
       /\ LET ps == <<PointG1(a, 3), PointG1(b, 1), PointG1(c, 7), PointG1(0, 2)>> IN HashedG1s(ps) = HashedG1sbn(ps)
\* An integer given to a scalar of Python, negative or past the order, means its residue, and an
\* exponent its residue modulo the order of the multiplicative group: powers are those of the
\* field except that 0 to a multiple of R - 1 is 1.  ZR panics on division by zero,
\* Curve25519ZR answers 0; a batch of points hashes as the points one by one.
ScalarsExact == Untouched => ScalarLaws
=============================================================================
