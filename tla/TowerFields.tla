---------------------------- MODULE TowerFields ----------------------------
(***************************************************************************)
(* The extension tower of bls12_381: Fq2 = Fq[u]/(u^2 + 1), Fq6 =          *)
(* Fq2[v]/(v^3 - xi) and Fq12 = Fq6[w]/(w^2 - v), as tuples of             *)
(* coefficients, over a small prime Q of the shape of the real one.  Fq is *)
(* derived by the ff crate; the formulas above it are those of fq2.rs,     *)
(* fq6.rs and fq12.rs, with the nonresidue xi = Xi0 + u (1 + u in the      *)
(* code, which is a square for the small Q).                               *)
(***************************************************************************)
EXTENDS Sequences, Iteration

CONSTANTS
  Q,   \* the field's prime
  Xi0  \* xi is Xi0 + u

ASSUME QAssumption == Q \in Nat /\ Q % 12 = 7 /\ Xi0 \in 0..(Q - 1)

-----------------------------------------------------------------------------
(* Fq                                                                      *)

Fq == 0..(Q - 1)
\* The None of an Option, for a number and for a tuple of coefficients
Absent1 == -1
Absent == <<>>
Add1(a, b) == (a + b) % Q
Sub1(a, b) == (a - b) % Q
Mul1(a, b) == (a * b) % Q
Neg1(a) == (-a) % Q
Square1(a) == (a * a) % Q
Pow1(a, n) ==
  LET p[e \in 0..n] == IF e = 0 THEN 1 ELSE (Square1(p[e \div 2]) * (IF e % 2 = 0 THEN 1 ELSE a)) % Q
  IN  p[n]
Inverse1(a) == IF a = 0 THEN Absent1 ELSE Pow1(a, Q - 2)
\* Q is a prime, by Fermat's theorem: the power is the inverse.
ASSUME FermatAssumption == \A a \in Fq \ {0} : Inverse1(a) \in Fq /\ Mul1(a, Inverse1(a)) = 1
RootOf1(a, s) == IF Square1(s) = a THEN s ELSE Absent1
Sqrt1(a) == RootOf1(a, Pow1(a, (Q + 1) \div 4))
Legendre1(a) == IF a = 0 THEN 0 ELSE IF Pow1(a, (Q - 1) \div 2) = 1 THEN 1 ELSE -1
Less1(a, b) == a < b
NEGATIVE_ONE == Q - 1

-----------------------------------------------------------------------------
(* Fq2                                                                     *)

Zero2 == <<0, 0>>
One2 == <<1, 0>>
\* c1 decides, then c0.
Less2(a, b) == a[2] < b[2] \/ (a[2] = b[2] /\ a[1] < b[1])
MulByNonresidue2(a) == <<(Xi0 * a[1] - a[2]) % Q, (Xi0 * a[2] + a[1]) % Q>>
Norm2(a) == (a[1] * a[1] + a[2] * a[2]) % Q
Add2(a, b) == <<(a[1] + b[1]) % Q, (a[2] + b[2]) % Q>>
Sub2(a, b) == <<(a[1] - b[1]) % Q, (a[2] - b[2]) % Q>>
Neg2(a) == <<(-a[1]) % Q, (-a[2]) % Q>>
Double2(a) == Add2(a, a)
Square2(a) ==
  LET ab == (a[1] * a[2]) % Q
  IN  <<((a[1] - a[2]) * (a[1] + a[2]) - ab + ab) % Q, (ab + ab) % Q>>
\* Karatsuba, with u^2 = -1
Product2(a, b, aa, bb) == <<(aa - bb) % Q, ((a[1] + a[2]) * (b[1] + b[2]) - aa - bb) % Q>>
Mul2(a, b) == Product2(a, b, a[1] * b[1], a[2] * b[2])
ByNorm2(a, t) == IF t = Absent1 THEN Absent ELSE <<(a[1] * t) % Q, (-(a[2] * t)) % Q>>
Inverse2(a) == ByNorm2(a, Inverse1(Norm2(a)))
Pow2Step(square, e, a) == IF e % 2 = 0 THEN square ELSE Mul2(square, a)
Pow2(a, n) ==
  LET p[e \in 0..n] == IF e = 0 THEN One2 ELSE Then(p[e \div 2], LAMBDA half : Pow2Step(Square2(half), e, a))
  IN  p[n]
FROBENIUS_COEFF_FQ2_C1 == <<1, Q - 1>>
FrobeniusMap2(a, power) == <<a[1], (a[2] * FROBENIUS_COEFF_FQ2_C1[(power % 2) + 1]) % Q>>
Legendre2(a) == Legendre1(Norm2(a))
\* Algorithm 9 of eprint 2012/685, for Q = 3 mod 4
Sqrt2Case(a, root, alpha) ==
  LET neg1 == <<NEGATIVE_ONE, 0>>
  IN  IF Mul2(FrobeniusMap2(alpha, 1), alpha) = neg1 THEN Absent
      ELSE Mul2(root, IF alpha = neg1 THEN <<0, 1>> ELSE Pow2(Add2(alpha, One2), (Q - 1) \div 2))
Sqrt2From(a, a1) == Sqrt2Case(a, Mul2(a1, a), Mul2(Square2(a1), a))
Sqrt2(a) == IF a = Zero2 THEN Zero2 ELSE Sqrt2From(a, Pow2(a, (Q - 3) \div 4))

-----------------------------------------------------------------------------
(* Fq6                                                                     *)

Zero6 == <<Zero2, Zero2, Zero2>>
One6 == <<One2, Zero2, Zero2>>
MulByNonresidue6(a) == <<MulByNonresidue2(a[3]), a[1], a[2]>>
\* Variant: v^3 is not replaced by xi.
MulBy1Unfolded(a, c1) ==
  LET bb == Mul2(a[2], c1)
  IN  <<Sub2(Mul2(c1, Add2(a[2], a[3])), bb), Sub2(Mul2(c1, Add2(a[1], a[2])), bb), bb>>
MulBy1(a, c1) ==
  LET bb == Mul2(a[2], c1)
  IN  <<MulByNonresidue2(Sub2(Mul2(c1, Add2(a[2], a[3])), bb)), Sub2(Mul2(c1, Add2(a[1], a[2])), bb), bb>>
MulBy01From(a, c0, c1, aa, bb) ==
  <<Add2(MulByNonresidue2(Sub2(Mul2(c1, Add2(a[2], a[3])), bb)), aa),
    Sub2(Sub2(Mul2(Add2(c0, c1), Add2(a[1], a[2])), aa), bb),
    Add2(Sub2(Mul2(c0, Add2(a[1], a[3])), aa), bb)>>
MulBy01(a, c0, c1) == MulBy01From(a, c0, c1, Mul2(a[1], c0), Mul2(a[2], c1))
Add6(a, b) == <<Add2(a[1], b[1]), Add2(a[2], b[2]), Add2(a[3], b[3])>>
Sub6(a, b) == <<Sub2(a[1], b[1]), Sub2(a[2], b[2]), Sub2(a[3], b[3])>>
Neg6(a) == <<Neg2(a[1]), Neg2(a[2]), Neg2(a[3])>>
Square6From(s0, s1, s2, s3, s4) ==
  <<Add2(MulByNonresidue2(s3), s0), Add2(MulByNonresidue2(s4), s1), Sub2(Sub2(Add2(Add2(s1, s2), s3), s0), s4)>>
Square6(a) ==
  Square6From(Square2(a[1]), Double2(Mul2(a[1], a[2])), Square2(Add2(Sub2(a[1], a[2]), a[3])),
              Double2(Mul2(a[2], a[3])), Square2(a[3]))
Mul6From(a, b, aa, bb, cc) ==
  <<Add2(MulByNonresidue2(Sub2(Sub2(Mul2(Add2(b[2], b[3]), Add2(a[2], a[3])), bb), cc)), aa),
    Add2(Sub2(Sub2(Mul2(Add2(b[1], b[2]), Add2(a[1], a[2])), aa), bb), MulByNonresidue2(cc)),
    Sub2(Add2(Sub2(Mul2(Add2(b[1], b[3]), Add2(a[1], a[3])), aa), bb), cc)>>
Mul6(a, b) == Mul6From(a, b, Mul2(a[1], b[1]), Mul2(a[2], b[2]), Mul2(a[3], b[3]))
Inverse6By(t, c0, c1, c2) == IF t = Absent THEN Absent ELSE <<Mul2(t, c0), Mul2(t, c1), Mul2(t, c2)>>
Inverse6From(a, c0, c1, c2) ==
  Inverse6By(Inverse2(Add2(MulByNonresidue2(Add2(Mul2(a[3], c1), Mul2(a[2], c2))), Mul2(a[1], c0))), c0, c1, c2)
Inverse6(a) ==
  Inverse6From(a, Add2(Neg2(Mul2(MulByNonresidue2(a[3]), a[2])), Square2(a[1])),
               Sub2(MulByNonresidue2(Square2(a[3])), Mul2(a[1], a[2])),
               Sub2(Square2(a[2]), Mul2(a[1], a[3])))

\* xi ^ ((Q^i - 1) / n) for i in 0..count, from the one for i = 1: the others follow by
\* raising to the power Q, which conjugates, and multiplying with it.
NonresiduePowers(first, count) ==
  LET c[i \in 0..count] == IF i = 0 THEN One2 ELSE Mul2(FrobeniusMap2(c[i - 1], 1), first)
  IN  [i \in 0..count |-> c[i]]
Xi == <<Xi0, 1>>
FROBENIUS_COEFF_FQ6_C1 == NonresiduePowers(Pow2(Xi, (Q - 1) \div 3), 5)
FROBENIUS_COEFF_FQ6_C2 == NonresiduePowers(Pow2(Xi, (2 * Q - 2) \div 3), 5)
FROBENIUS_COEFF_FQ12_C1 == NonresiduePowers(Pow2(Xi, (Q - 1) \div 6), 11)
FrobeniusMap6(a, power) ==
  <<FrobeniusMap2(a[1], power),
    Mul2(FrobeniusMap2(a[2], power), FROBENIUS_COEFF_FQ6_C1[power % 6]),
    Mul2(FrobeniusMap2(a[3], power), FROBENIUS_COEFF_FQ6_C2[power % 6])>>

-----------------------------------------------------------------------------
(* Fq12                                                                    *)

One12 == <<One6, Zero6>>
Zero12 == <<Zero6, Zero6>>
Conjugate(a) == <<a[1], Neg6(a[2])>>
\* The product with the sparse element c0 + c1 v + c4 v w
Product12(aa, bb, mixed) == <<Add6(MulByNonresidue6(bb), aa), Sub6(Sub6(mixed, aa), bb)>>
MulBy014(a, c0, c1, c4) ==
  Product12(MulBy01(a[1], c0, c1), MulBy1(a[2], c4), MulBy01(Add6(a[2], a[1]), c0, Add2(c1, c4)))
Square12From(ab, c0) == <<Sub6(Sub6(c0, ab), MulByNonresidue6(ab)), Add6(ab, ab)>>
Square12(a) ==
  Square12From(Mul6(a[1], a[2]), Mul6(Add6(MulByNonresidue6(a[2]), a[1]), Add6(a[1], a[2])))
Mul12(a, b) == Product12(Mul6(a[1], b[1]), Mul6(a[2], b[2]), Mul6(Add6(a[2], a[1]), Add6(b[1], b[2])))
Inverse12By(a, t) == IF t = Absent THEN Absent ELSE <<Mul6(t, a[1]), Neg6(Mul6(t, a[2]))>>
Inverse12(a) == Inverse12By(a, Inverse6(Sub6(Square6(a[1]), MulByNonresidue6(Square6(a[2])))))
Scale6(c, k) == <<Mul2(c[1], k), Mul2(c[2], k), Mul2(c[3], k)>>
FrobeniusMap12(a, power) ==
  <<FrobeniusMap6(a[1], power), Scale6(FrobeniusMap6(a[2], power), FROBENIUS_COEFF_FQ12_C1[power % 12])>>
\* Field::pow of the ff crate
Pow12Step(square, e, a) == IF e % 2 = 0 THEN square ELSE Mul12(square, a)
Pow12Next(half, e, a) == Then(Square12(half), LAMBDA square : Pow12Step(square, e, a))
Pow12(a, n) ==
  LET p[e \in 0..n] == IF e = 0 THEN One12 ELSE Then(p[e \div 2], LAMBDA half : Pow12Next(half, e, a))
  IN  p[n]
=============================================================================
