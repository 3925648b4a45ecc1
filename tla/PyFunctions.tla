---------------------------- MODULE PyFunctions ----------------------------
(***************************************************************************)
(* The scalars and the free functions that lib.rs gives to Python: ZR (the *)
(* field Fr of order R) and Curve25519ZR (scalars modulo RistOrder), the   *)
(* conversions from Python integers, sums and products of lists, and the   *)
(* multi-exponentiation of G1 points.  A panic is a result of its own.     *)
(***************************************************************************)
EXTENDS Pairing

CONSTANT RistOrder  \* order of the ristretto group

Dalek == INSTANCE Scalar25519 WITH Order <- RistOrder

\* Not in any of the scalar fields
Panic == -1
TypeError == -2
Fr == 0..(R - 1)
RistScalars == 0..(RistOrder - 1)

SquareModulo(a, m) == (a * a) % m
PowMod(a, n, m) ==
  LET p[e \in 0..n] == IF e = 0 THEN 1 % m ELSE (SquareModulo(p[e \div 2], m) * (IF e % 2 = 0 THEN 1 ELSE a)) % m
  IN  p[n]

-----------------------------------------------------------------------------
(* Python objects given as operands: <<"zr", element>>, <<"rist", scalar>>, *)
(* <<"int", n>> or <<"other", 0>>                                          *)

\* The % of BigInt is a remainder with the sign of the dividend.
RustRem(n, m) == IF n < 0 THEN -((-n) % m) ELSE n % m
BigintToPyfr(n) == LET rem == RustRem(n, R) IN IF rem < 0 THEN rem + R ELSE rem
\* Exponents: modulo the order of the multiplicative group.
\* Variant: modulo the order of the field.
BigintToPyfrexpField(n) == BigintToPyfr(n)
BigintToPyfrexp(n) == LET rem == RustRem(n, R - 1) IN IF rem < 0 THEN rem + R - 1 ELSE rem
BigintToPyscalar(n) == n % RistOrder  \* mod_floor
PyfrFromPyany(any) ==
  CASE any[1] = "zr" -> any[2] [] any[1] = "int" -> BigintToPyfr(any[2]) [] OTHER -> TypeError
PyscalarFromPyany(any) ==
  CASE any[1] = "rist" -> any[2] [] any[1] = "int" -> BigintToPyscalar(any[2]) [] OTHER -> TypeError

-----------------------------------------------------------------------------
(* ZR.  from_repr refuses a number that is not below R, and every unwrap   *)
(* of it panics.                                                           *)

FrFromRepr(n) == IF n \in Fr THEN n ELSE Panic
\* No argument, one object, or the four words of a representation
PyFrNew(args) ==
  CASE args = <<>> -> 1
    [] Len(args) = 1 -> LET x == PyfrFromPyany(args[1]) IN IF x \in Fr THEN x ELSE Panic
    [] OTHER -> FrFromRepr(args[1] + 4 * args[2] + 16 * args[3] + 64 * args[4])
PyFrNegate(a) == (-a) % R
PyFrInverse(a) == IF a = 0 THEN Panic ELSE PowMod(a, R - 2, R)
PyFrDouble(a) == (2 * a) % R
PyFrSquare(a) == (a * a) % R
PyFrPow(a, words) == a  \* the power is computed and dropped
PyFrAddAssign(a, b) == (a + b) % R
PyFrSubAssign(a, b) == (a - b) % R
PyFrMulAssign(a, b) == (a * b) % R
PyFrPowAssign(a, b) == PowMod(a, b, R)
PyFrGetState(a) == a
PyFrSetState(n) == FrFromRepr(n)
PyFrEq(a, any) == LET b == PyfrFromPyany(any) IN b \in Fr /\ a = b
PyFrRichCmp(a, any, op) == CASE op = "==" -> PyFrEq(a, any) [] op = "!=" -> ~PyFrEq(a, any) [] OTHER -> FALSE
\* The number protocol converts its right operand first.
WithPyfr(any, Op(_)) == LET b == PyfrFromPyany(any) IN IF b \in Fr THEN Op(b) ELSE TypeError
PyFrAdd(a, any) == WithPyfr(any, LAMBDA b : PyFrAddAssign(a, b))
PyFrSub(a, any) == WithPyfr(any, LAMBDA b : PyFrSubAssign(a, b))
PyFrMul(a, any) == WithPyfr(any, LAMBDA b : PyFrMulAssign(a, b))
PyFrTrueDiv(a, any) == WithPyfr(any, LAMBDA b : IF b = 0 THEN Panic ELSE PyFrMulAssign(a, PyFrInverse(b)))
PyFrDunderPow(a, any) == IF any[1] = "int" THEN PyFrPowAssign(a, BigintToPyfrexp(any[2])) ELSE TypeError

-----------------------------------------------------------------------------
(* Curve25519ZR                                                            *)

PyRistNew(args) == IF args = <<>> THEN 1 ELSE LET x == PyscalarFromPyany(args[1]) IN IF x \in RistScalars THEN x ELSE Panic
PyRistNegate(a) == (-a) % RistOrder
\* invert raises to the power RistOrder - 2.
PyRistInverse(a) == PowMod(a, RistOrder - 2, RistOrder)
PyRistAddAssign(a, b) == (a + b) % RistOrder
PyRistSubAssign(a, b) == (a - b) % RistOrder
PyRistMulAssign(a, b) == (a * b) % RistOrder
PyRistPowAssign(a, any) ==
  IF any[1] = "int" THEN BigintToPyscalar(PowMod(a, any[2] % (RistOrder - 1), RistOrder)) ELSE TypeError
PyRistSetState(n) == n % RistOrder  \* from_bytes_mod_order
WithPyscalar(any, Op(_)) == LET b == PyscalarFromPyany(any) IN IF b \in RistScalars THEN Op(b) ELSE TypeError
PyRistAdd(a, any) == WithPyscalar(any, LAMBDA b : PyRistAddAssign(b, a))
PyRistSub(a, any) == WithPyscalar(any, LAMBDA b : PyRistSubAssign(a, b))
PyRistMul(a, any) == WithPyscalar(any, LAMBDA b : PyRistMulAssign(b, a))
PyRistTrueDiv(a, any) == WithPyscalar(any, LAMBDA b : PyRistMulAssign(PyRistInverse(b), a))
\* __pow__ drops the result of pow_assign, so an operand that is no integer leaves the base.
PyRistPow(a, any) == LET r == PyRistPowAssign(a, any) IN IF r \in RistScalars THEN r ELSE a
PyRistEq(a, any) == LET b == PyscalarFromPyany(any) IN b \in RistScalars /\ a = b

-----------------------------------------------------------------------------
(* Lists                                                                   *)

VecSum(as) == FoldLeft(PyFrAddAssign, 0, as)
Zipped(as, bs) == [j \in 1..(IF Len(as) < Len(bs) THEN Len(as) ELSE Len(bs)) |-> <<as[j], bs[j]>>]
Dotprod(as, bs) == FoldLeft(LAMBDA sum, ab : PyFrAddAssign(sum, PyFrMulAssign(ab[1], ab[2])), 0, Zipped(as, bs))
Curve25519Dotprod(as, bs) ==
  FoldLeft(LAMBDA sum, ab : PyRistAddAssign(sum, PyRistMulAssign(ab[1], ab[2])), 0, Zipped(as, bs))
CondenseList(as, x) == as

\* What hashg1s and hashg1sbn feed to the hash: the x coordinates, in order
HashedG1s(ps) == [j \in DOMAIN ps |-> C1!IntoAffine(ps[j]).x]
HashedG1sbn(ps) == HashedG1s(C1!BatchNormalization(ps))

-----------------------------------------------------------------------------
(* pippenger: pairs of a scalar (its bits) and a G1 point                  *)

MulByPow2(p, k) == Iterate(C1!Double, p, k)
PippengerWidth(size) == CASE size < 500 -> 6 [] size \in 500..799 -> 7 [] OTHER -> 8
\* The recoding is the one of curve25519-dalek, for w from 6 to 8.
ToRadix2w(s, w) == Dalek!ToRadix2w(s, w)
ToRadix2wSizeHint(w) == IF w = 8 THEN (256 + w - 1) \div w + 1 ELSE (256 + w - 1) \div w
BucketsNext(st, mid) == [j |-> st.j - 1, mid |-> mid, sum |-> C1!AddAssign(st.sum, mid)]
BucketsSum(buckets) ==
  LET n == Len(buckets)
  IN  Iterate(LAMBDA st : BucketsNext(st, C1!AddAssign(st.mid, buckets[st.j])),
              [j |-> n - 1, mid |-> buckets[n], sum |-> buckets[n]], n - 1).sum
\* digits[j] is the recoded scalar of the j-th pair.
PutInBucket(buckets, digit, p) ==
  CASE digit > 0 -> [buckets EXCEPT ![digit] = C1!AddAssign(@, p)]
    [] digit < 0 -> [buckets EXCEPT ![-digit] = C1!SubAssign(@, p)]
    [] OTHER -> buckets
EmptyBuckets(w) == [b \in 1..(2 ^ (w - 1)) |-> C1!ZeroProjective]
PippengerColumn(pairs, digits, w, i) ==
  BucketsSum(Iterate(LAMBDA st : [j |-> st.j + 1, buckets |-> PutInBucket(st.buckets, digits[st.j][i], pairs[st.j][2])],
                     [j |-> 1, buckets |-> EmptyBuckets(w)], Len(pairs)).buckets)
PippengerColumns(pairs, w, digits) ==
  LET top == ToRadix2wSizeHint(w) - 1
  IN  Iterate(LAMBDA st : [i |-> st.i - 1, acc |-> C1!AddAssign(MulByPow2(st.acc, w), PippengerColumn(pairs, digits, w, st.i))],
              [i |-> top - 1, acc |-> PippengerColumn(pairs, digits, w, top)], top).acc
DigitsOf(pairs, radix) == [j \in DOMAIN pairs |-> radix[pairs[j][1]]]
PippengerG1(pairs) ==
  LET w == PippengerWidth(Len(pairs))
  IN  Then(DigitsOf(pairs, [s \in {pairs[j][1] : j \in DOMAIN pairs} |-> ToRadix2w(s, w)]),
           LAMBDA digits : PippengerColumns(pairs, w, digits))
=============================================================================
