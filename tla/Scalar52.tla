----------------------------- MODULE Scalar52 -----------------------------
(***************************************************************************)
(* The 64-bit backend of the scalars modulo the group order l              *)
(* (u64/scalar.rs): five limbs of 52 bits, Montgomery multiplication with  *)
(* R = 2^260.  Here a limb has radix Radix52, a word wraps modulo Word52,  *)
(* and the order is Order52; as in the code its limb 3 must be zero.  That *)
(* every operation is exact is proved in DalekProofs.                      *)
(***************************************************************************)
EXTENDS Integers

CONSTANTS
  Radix52,   \* 2^52
  Word52,    \* 2^64
  Order52    \* l

S5 == 0..4
Scalars52 == [S5 -> 0..Radix52-1]
New52(x0, x1, x2, x3, x4) ==
  [i \in S5 |-> CASE i = 0 -> x0 [] i = 1 -> x1 [] i = 2 -> x2 [] i = 3 -> x3 [] i = 4 -> x4]
Value52(a) == a[0] + Radix52 * (a[1] + Radix52 * (a[2] + Radix52 * (a[3] + Radix52 * a[4])))
Limbs52(n) ==
  LET n1 == n \div Radix52
      n2 == n1 \div Radix52
      n3 == n2 \div Radix52
      n4 == n3 \div Radix52
  IN  New52(n % Radix52, n1 % Radix52, n2 % Radix52, n3 % Radix52, n4 % Radix52)

\* x * R mod l, for the constants R mod l and R^2 mod l
ShiftMod52(x) == (x * Radix52) % Order52
TimesR52(x) == ShiftMod52(ShiftMod52(ShiftMod52(ShiftMod52(ShiftMod52(x)))))

\* constants.rs: l, -1/l mod 2^52, R mod l and R^2 mod l.
L52 == Limbs52(Order52)
LFACTOR52 == CHOOSE g \in 0..Radix52-1 : (g * L52[0]) % Radix52 = Radix52 - 1
R52 == Limbs52(TimesR52(1))
RR52 == Limbs52(TimesR52(TimesR52(1)))

ASSUME Radix52Assumption ==
  /\ Radix52 \in Nat /\ Word52 \in Nat /\ Order52 \in Nat
  /\ 1 < Radix52 /\ 4 * Radix52 <= Word52 /\ Word52 % Radix52 = 0
\* R has room for the sum of two reduced scalars; l has an inverse modulo the radix.
ASSUME Order52Assumption ==
  /\ 0 < Order52 /\ 2 * Order52 <= Radix52 * (Radix52 * (Radix52 * (Radix52 * Radix52)))
  /\ L52[3] = 0
  /\ \E g \in 0..Radix52-1 : (g * L52[0]) % Radix52 = Radix52 - 1

W52(n) == n % Word52
WW52(n) == n % (Word52 * Word52)   \* sums of products take two words
Negative52(w) == IF 2 * w >= Word52 THEN 1 ELSE 0   \* the word's top bit

\* The words of a - b, the top bit of each borrowed from the next
Borrow52(x, y, w) == W52(x - W52(y + Negative52(w)))
Borrows52(a, b) ==
  LET w0 == Borrow52(a[0], b[0], 0)
      w1 == Borrow52(a[1], b[1], w0)
      w2 == Borrow52(a[2], b[2], w1)
      w3 == Borrow52(a[3], b[3], w2)
  IN  New52(w0, w1, w2, w3, Borrow52(a[4], b[4], w3))
\* The low bits of the words x[i], each with the carry of the one before
Carry52(x, c) == W52(x + (c \div Radix52))
Carries52(x) ==
  LET c0 == Carry52(x[0], 0)
      c1 == Carry52(x[1], c0)
      c2 == Carry52(x[2], c1)
      c3 == Carry52(x[3], c2)
      c4 == Carry52(x[4], c3)
  IN  New52(c0 % Radix52, c1 % Radix52, c2 % Radix52, c3 % Radix52, c4 % Radix52)
\* sub: when the last word is negative, l is added back.
Sub52(a, b) ==
  LET w == Borrows52(a, b)
  IN  Carries52([i \in S5 |-> (w[i] % Radix52) + Negative52(w[4]) * L52[i]])
Add52(a, b) == Sub52(Carries52([i \in S5 |-> a[i] + b[i]]), L52)

MulInternal52(a, b) ==
  [k \in 0..8 |-> WW52(
     CASE k = 0 -> a[0]*b[0]
       [] k = 1 -> a[0]*b[1] + a[1]*b[0]
       [] k = 2 -> a[0]*b[2] + a[1]*b[1] + a[2]*b[0]
       [] k = 3 -> a[0]*b[3] + a[1]*b[2] + a[2]*b[1] + a[3]*b[0]
       [] k = 4 -> a[0]*b[4] + a[1]*b[3] + a[2]*b[2] + a[3]*b[1] + a[4]*b[0]
       [] k = 5 -> a[1]*b[4] + a[2]*b[3] + a[3]*b[2] + a[4]*b[1]
       [] k = 6 -> a[2]*b[4] + a[3]*b[3] + a[4]*b[2]
       [] k = 7 -> a[3]*b[4] + a[4]*b[3]
       [] k = 8 -> a[4]*b[4])]
\* Mixed products take the doubled limb, computed in one word.
SquareInternal52(a) ==
  LET aa(i) == W52(a[i] * 2)
  IN  [k \in 0..8 |-> WW52(
         CASE k = 0 -> a[0]*a[0]
           [] k = 1 -> aa(0)*a[1]
           [] k = 2 -> aa(0)*a[2] + a[1]*a[1]
           [] k = 3 -> aa(0)*a[3] + aa(1)*a[2]
           [] k = 4 -> aa(0)*a[4] + aa(1)*a[3] + a[2]*a[2]
           [] k = 5 -> aa(1)*a[4] + aa(2)*a[3]
           [] k = 6 -> aa(2)*a[4] + a[3]*a[3]
           [] k = 7 -> aa(3)*a[4]
           [] k = 8 -> a[4]*a[4])]

\* part1: the multiple of l that clears the low bits of a sum, and what is carried on
Factor52(sum) == W52(W52(sum) * LFACTOR52) % Radix52
Cleared52(sum) == WW52(sum + Factor52(sum) * L52[0]) \div Radix52
\* montgomery_reduce: the multiples of l[3] are skipped.
MontgomeryReduce52(limbs) ==
  LET s0 == limbs[0]
      n0 == Factor52(s0)
      s1 == WW52(Cleared52(s0) + limbs[1] + n0*L52[1])
      n1 == Factor52(s1)
      s2 == WW52(Cleared52(s1) + limbs[2] + n0*L52[2] + n1*L52[1])
      n2 == Factor52(s2)
      s3 == WW52(Cleared52(s2) + limbs[3] + n1*L52[2] + n2*L52[1])
      n3 == Factor52(s3)
      s4 == WW52(Cleared52(s3) + limbs[4] + n0*L52[4] + n2*L52[2] + n3*L52[1])
      n4 == Factor52(s4)
      s5 == WW52(Cleared52(s4) + limbs[5] + n1*L52[4] + n3*L52[2] + n4*L52[1])
      s6 == WW52((s5 \div Radix52) + limbs[6] + n2*L52[4] + n4*L52[2])
      s7 == WW52((s6 \div Radix52) + limbs[7] + n3*L52[4])
      s8 == WW52((s7 \div Radix52) + limbs[8] + n4*L52[4])
  IN  Sub52(New52(s5 % Radix52, s6 % Radix52, s7 % Radix52, s8 % Radix52, W52(s8 \div Radix52)), L52)

MontgomeryMul52(a, b) == MontgomeryReduce52(MulInternal52(a, b))
MontgomerySquare52(a) == MontgomeryReduce52(SquareInternal52(a))
Mul52(a, b) == MontgomeryMul52(MontgomeryMul52(a, b), RR52)
Square52(a) == MontgomeryMul52(MontgomerySquare52(a), RR52)
ToMontgomery52(a) == MontgomeryMul52(a, RR52)
FromMontgomery52(a) == MontgomeryReduce52([k \in 0..8 |-> IF k < 5 THEN a[k] ELSE 0])
\* from_bytes_wide: the 512-bit number lo + hi * R.
FromWide52(lo, hi) == Add52(MontgomeryMul52(hi, RR52), MontgomeryMul52(lo, R52))

-----------------------------------------------------------------------------
(* The byte layouts, at the real widths: a value is the set of its bits.   *)

\* Limb i of from_bytes: word w shifted right by r, and the next word shifted left by l.
Rows52 == <<<<0, 0, 0>>, <<0, 52, 12>>, <<1, 40, 24>>, <<2, 28, 36>>, <<3, 16, 0>>>>
WideRows52 == <<<<0, 0, 0>>, <<0, 52, 12>>, <<1, 40, 24>>, <<2, 28, 36>>, <<3, 16, 48>>,
                <<4, 4, 0>>, <<4, 56, 8>>, <<5, 44, 20>>, <<6, 32, 32>>, <<7, 20, 0>>>>
LimbBits52(B, row, bits) ==
  {t \in 0..(bits - 1) : \/ t + row[2] < 64 /\ 64 * row[1] + t + row[2] \in B
                         \/ row[3] > 0 /\ t >= row[3] /\ 64 * (row[1] + 1) + t - row[3] \in B}
FromBytes52(B) ==
  UNION {{52 * i + t : t \in LimbBits52(B, Rows52[i + 1], IF i = 4 THEN 48 ELSE 52)} : i \in S5}
WideBits52(B) ==
  UNION {{52 * i + t : t \in LimbBits52(B, WideRows52[i + 1], IF i = 9 THEN 64 ELSE 52)} : i \in 0..9}
\* to_bytes: limb i's bits go up from bit 4 (odd limbs) or 0 of its first byte.
ToBytes52(V) ==
  UNION {{8 * <<0, 6, 13, 19, 26>>[i + 1] + (IF i % 2 = 1 THEN 4 ELSE 0) + t :
            t \in {u \in 0..51 : 52 * i + u \in V}} : i \in S5} \cap 0..255
=============================================================================
