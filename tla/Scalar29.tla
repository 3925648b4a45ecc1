----------------------------- MODULE Scalar29 -----------------------------
(***************************************************************************)
(* The 32-bit backend of the scalars modulo l (u32/scalar.rs): nine limbs  *)
(* of 29 bits, Montgomery multiplication with R = 2^261, and a one-level   *)
(* Karatsuba product whose intermediate 64-bit words wrap below zero.      *)
(***************************************************************************)
EXTENDS Integers, Sequences, FiniteSetsExt

CONSTANTS Radix29, Word29, Wide29, Order29

S9 == 0..8
Digit29(n, i) == LET q[j \in S9] == IF j = 0 THEN n ELSE q[j - 1] \div Radix29 IN q[i] % Radix29
Limbs29(n) == [i \in S9 |-> Digit29(n, i)]
Value29(a) == LET v[i \in 0..9] == IF i = 9 THEN 0 ELSE a[i] + Radix29 * v[i + 1] IN v[0]

L29 == Limbs29(Order29)
LFACTOR29 == CHOOSE f \in 0..Radix29-1 : (f * L29[0]) % Radix29 = Radix29 - 1
RadixPower29 == LET p[k \in 0..18] == IF k = 0 THEN 1 ELSE (p[k - 1] * Radix29) % Order29 IN p
R29 == Limbs29(RadixPower29[9])
RR29 == Limbs29(RadixPower29[18])

ASSUME Order29Assumption ==
  /\ Order29 % 2 = 1 /\ L29[5] = 0 /\ L29[6] = 0 /\ L29[7] = 0 /\ L29[8] > 0
  /\ Word29 % Radix29 = 0 /\ 4 * Radix29 <= Word29
  /\ Wide29 % Word29 = 0 /\ 36 * Radix29 * Radix29 <= Wide29

W29(n) == n % Word29
WD29(n) == n % Wide29
Negative29(w) == IF 2 * w >= Word29 THEN 1 ELSE 0

Sub29(a, b) ==
  LET borrow[i \in S9] == W29(a[i] - W29(b[i] + IF i = 0 THEN 0 ELSE Negative29(borrow[i - 1])))
      l(i) == Negative29(borrow[8]) * L29[i]
      carry[i \in S9] == W29((IF i = 0 THEN 0 ELSE carry[i - 1] \div Radix29) + (borrow[i] % Radix29) + l(i))
  IN  [i \in S9 |-> carry[i] % Radix29]
Add29(a, b) ==
  LET carry[i \in S9] == W29(a[i] + b[i] + IF i = 0 THEN 0 ELSE carry[i - 1] \div Radix29)
  IN  Sub29([i \in S9 |-> carry[i] % Radix29], L29)

\* The product of two polynomials x and y given on 0..4: coefficient k.
Convolve(x, y, k) == MapThenSumSet(LAMBDA i : x[i] * y[k - i], {i \in 0..4 : k - i \in 0..4})
\* mul_internal: low half (limbs 0..4), high half (limbs 5..8) and the product of the
\* sums of the halves, combined with wrapping 64-bit additions and subtractions.
MulInternal29(a, b) ==
  LET high(x) == [i \in 0..4 |-> IF i < 4 THEN x[i + 5] ELSE 0]
      sums(x) == [i \in 0..4 |-> IF i < 4 THEN W29(x[i] + x[i + 5]) ELSE x[4]]
      c0(k) == Convolve(a, b, k)
      c1(k) == Convolve(high(a), high(b), k)
      c2(k) == Convolve(sums(a), sums(b), k)
      mixed(k) == WD29(c0(k + 5) - c1(k))   \* c05mc10, c06mc11, c07mc12
  IN  [k \in 0..16 |->
         CASE k < 5 -> c0(k)
           [] k \in 5..7 -> WD29(c2(k - 5) + WD29(mixed(k - 5) - c0(k - 5)))
           [] k = 8 -> WD29(c2(3) + WD29(WD29(c0(8) - c0(3)) - c1(3)))
           [] k = 9 -> WD29(c2(4) - WD29(c1(4) + c0(4)))
           [] k \in 10..11 -> WD29(c2(k - 5) - WD29(c1(k - 5) + mixed(k - 10)))
           [] k = 12 -> WD29(c2(7) - mixed(2))
           [] k > 12 -> c1(k - 10)]
SquareInternal29(a) ==
  [k \in 0..16 |-> MapThenSumSet(LAMBDA i : (IF 2 * i = k THEN a[i] ELSE W29(2 * a[i])) * a[k - i],
                                 {i \in S9 : k - i \in S9 /\ i <= k - i})]

\* montgomery_reduce: the multiples of l[5], l[6] and l[7] are skipped.
MontgomeryReduce29(limbs) ==
  LET start == [carry |-> 0, out |-> <<>>]
      \* out[k + 1] is n[k] for k < 9 and r[k - 9] afterwards
      step[k \in -1..16] ==
        IF k = -1 THEN start
        ELSE LET prev == step[k - 1]
                 sum == prev.carry + limbs[k] +
                        MapThenSumSet(LAMBDA j : prev.out[k - j + 1] * L29[j], {j \in {1, 2, 3, 4, 8} : k - j \in S9})
                 n == ((sum % Word29) * LFACTOR29) % Radix29
             IN  IF k < 9 THEN [carry |-> WD29(sum + n * L29[0]) \div Radix29, out |-> Append(prev.out, n)]
                          ELSE [carry |-> WD29(sum) \div Radix29, out |-> Append(prev.out, sum % Radix29)]
      last == step[16]
  IN  Sub29([i \in S9 |-> IF i = 8 THEN W29(last.carry) ELSE last.out[i + 10]], L29)

MontgomeryMul29(a, b) == MontgomeryReduce29(MulInternal29(a, b))
MontgomerySquare29(a) == MontgomeryReduce29(SquareInternal29(a))
Mul29(a, b) == MontgomeryMul29(MontgomeryMul29(a, b), RR29)
Square29(a) == MontgomeryMul29(MontgomerySquare29(a), RR29)
ToMontgomery29(a) == MontgomeryMul29(a, RR29)
FromMontgomery29(a) == MontgomeryReduce29([k \in 0..16 |-> IF k < 9 THEN a[k] ELSE 0])
FromWide29(lo, hi) == Add29(MontgomeryMul29(hi, RR29), MontgomeryMul29(lo, R29))

-----------------------------------------------------------------------------
(* The byte layouts, at the real widths: a value is the set of its bits.   *)

Rows29 == <<<<0, 0, 0>>, <<0, 29, 3>>, <<1, 26, 6>>, <<2, 23, 9>>, <<3, 20, 12>>, <<4, 17, 15>>,
            <<5, 14, 18>>, <<6, 11, 21>>, <<7, 8, 0>>>>
WideRows29 == <<<<0, 0, 0>>, <<0, 29, 3>>, <<1, 26, 6>>, <<2, 23, 9>>, <<3, 20, 12>>, <<4, 17, 15>>,
                <<5, 14, 18>>, <<6, 11, 21>>, <<7, 8, 24>>, <<8, 5, 27>>, <<9, 2, 0>>, <<9, 31, 1>>,
                <<10, 28, 4>>, <<11, 25, 7>>, <<12, 22, 10>>, <<13, 19, 13>>, <<14, 16, 16>>, <<15, 13, 0>>>>
LimbBits29(B, row, bits) ==
  {t \in 0..(bits - 1) : \/ t + row[2] < 32 /\ 32 * row[1] + t + row[2] \in B
                         \/ row[3] > 0 /\ t >= row[3] /\ 32 * (row[1] + 1) + t - row[3] \in B}
FromBytes29(B) ==
  UNION {{29 * i + t : t \in LimbBits29(B, Rows29[i + 1], IF i = 8 THEN 24 ELSE 29)} : i \in S9}
WideBits29(B) ==
  UNION {{29 * i + t : t \in LimbBits29(B, WideRows29[i + 1], IF i = 17 THEN 32 ELSE 29)} : i \in 0..17}
\* to_bytes: limb i's bits go up from bit Store29[i + 1][2] of byte Store29[i + 1][1].
Store29 == <<<<0, 0>>, <<3, 5>>, <<7, 2>>, <<10, 7>>, <<14, 4>>, <<18, 1>>, <<21, 6>>, <<25, 3>>, <<29, 0>>>>
ToBytes29(V) ==
  UNION {{8 * Store29[i + 1][1] + Store29[i + 1][2] + t : t \in {u \in 0..28 : 29 * i + u \in V}} : i \in S9}
  \cap 0..255
=============================================================================
