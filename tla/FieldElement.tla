---------------------------- MODULE FieldElement ----------------------------
(***************************************************************************)
(* Field elements of curve25519-dalek as the curve formulas use them: a    *)
(* value modulo P, and b, a bound on the limbs in thousandths of a reduced *)
(* limb.  Which operations reduce, and what a backend's multiplication     *)
(* accepts, is the interface the limb-level modules establish; field.rs    *)
(* adds inversion, square roots and signs.                                 *)
(***************************************************************************)
EXTENDS Iteration, Sequences, SequencesExt

CONSTANTS
  P,        \* the field's prime, 5 modulo 8; an encoding has one value more than 2 ^ Bits
  Bits,     \* bits of an encoded element
  Fresh,    \* b of a product or a reduced value
  MulRoom,  \* largest b the serial multiplication accepts (2^1.75 for the u32 backend)
  SubRoom,  \* largest b that 16p - x does not underflow for
  Over      \* b of a value whose limbs may have wrapped: absorbing

ASSUME FieldAssumption == P \in Nat /\ P % 8 = 5 /\ P < 2 ^ Bits /\ Fresh < MulRoom /\ MulRoom < SubRoom /\ SubRoom < Over

F == 0..(P - 1)
\* P is prime, and 1 modulo 4: every element but zero has an inverse, and -1 has a root.
ASSUME PrimeAssumption ==
  /\ \A x \in F \ {0} : \E y \in F : (x * y) % P = 1
  /\ \E i \in F : (i * i) % P = P - 1
Elem(x) == [v |-> x % P, b |-> 1000]
Zero == Elem(0)
One == Elem(1)

Grown(b) == IF b < Over THEN b ELSE Over
Within(ok) == IF ok THEN Fresh ELSE Over
\* Add is lazy; Sub and Neg add 16p and reduce; Mul and Square reduce; square2 doubles after.
FAdd(x, y) == [v |-> (x.v + y.v) % P, b |-> Grown(x.b + y.b)]
FSub(x, y) == [v |-> (x.v - y.v) % P, b |-> Within(x.b <= SubRoom /\ y.b <= SubRoom)]
FNeg(x) == [v |-> (-x.v) % P, b |-> Within(x.b <= SubRoom)]
FMul(x, y) == [v |-> (x.v * y.v) % P, b |-> Within(x.b <= MulRoom /\ y.b <= MulRoom)]
FSquare(x) == FMul(x, x)
FTwice(x) == FAdd(x, x)
FSquare2(x) == FTwice(FSquare(x))
ConditionalNegate(x, choice) == IF choice THEN FNeg(x) ELSE x

\* Encoding reduces fully: equality, sign and zero are those of the canonical value.
ToBytes(x) == x.v
FromBytes(n) == [v |-> (n % 2 ^ Bits) % P, b |-> 1000]
CtEq(x, y) == ToBytes(x) = ToBytes(y)
IsNegative(x) == ToBytes(x) % 2 = 1
IsZero(x) == ToBytes(x) = 0
NonNegative(x) == ConditionalNegate(x, IsNegative(x))

-----------------------------------------------------------------------------
(* Powers: the exponents the chains of FieldPowers compute.                *)

SquareMod(x) == (x * x) % P
PowerMod(x, e) ==
  LET halves[k \in 0..e] == IF k = 0 THEN 1
        ELSE (SquareMod(halves[k \div 2]) * (IF k % 2 = 0 THEN 1 ELSE x)) % P
  IN  halves[e]
InverseTable == [x \in F |-> PowerMod(x, P - 2)]
RootTable == [x \in F |-> PowerMod(x, (P - 5) \div 8)]
Invert(x) == [v |-> InverseTable[x.v], b |-> Within(x.b <= MulRoom)]
PowP58(x) == [v |-> RootTable[x.v], b |-> Within(x.b <= MulRoom)]

SQRT_M1 == Elem(CHOOSE i \in F : (i * i) % P = P - 1 /\ i % 2 = 0)

\* (TRUE, +sqrt(u/v)) for a nonzero square; (TRUE, 0) for u = 0; (FALSE, 0) for v = 0, u nonzero;
\* (FALSE, +sqrt(i u/v)) for a nonsquare.
RootSigned(u, r, check) ==
  LET correct == CtEq(check, u)
      flipped == CtEq(check, FNeg(u))
      flippedI == CtEq(check, FMul(FNeg(u), SQRT_M1))
  IN  <<correct \/ flipped, NonNegative(IF flipped \/ flippedI THEN FMul(SQRT_M1, r) ELSE r)>>
RootChecked(u, v, r) == RootSigned(u, r, FMul(v, FSquare(r)))
RootFromCube(u, v, v3) == RootChecked(u, v, FMul(FMul(u, v3), PowP58(FMul(u, FMul(FSquare(v3), v)))))
SqrtRatioI(u, v) == RootFromCube(u, v, FMul(FSquare(v), v))
InvSqrt(x) == SqrtRatioI(One, x)

\* Montgomery's trick: the running products, and back through them from their inverse.
BackStep(r, input, product) == [acc |-> FMul(r.acc, input), out |-> <<FMul(r.acc, product)>> \o r.out]
BatchInverses(inputs) ==
  LET n == Len(inputs)
      scratch[j \in 1..(n + 1)] == IF j = 1 THEN One ELSE FMul(scratch[j - 1], inputs[j - 1])
      back[j \in 0..n] == IF j = 0 THEN [acc |-> Invert(scratch[n + 1]), out |-> <<>>]
                                   ELSE BackStep(back[j - 1], inputs[n + 1 - j], scratch[n + 1 - j])
  IN  back[n].out
\* The code asserts that the product of the inputs is not zero.
BatchInvert(inputs) ==
  IF IsZero(FoldLeft(FMul, One, inputs)) THEN "panic" ELSE BatchInverses(inputs)
=============================================================================
