------------------------- MODULE FieldElement2625 -------------------------
(***************************************************************************)
(* The 32-bit backend of the field (u32/field.rs): ten limbs in the mixed  *)
(* radix 26, 25, 26, 25, ... bits.  Here limbs have radix Even and Odd by  *)
(* turns, the fold (19) is Fold10, 32-bit words wrap modulo Word32 and     *)
(* 64-bit words modulo Word64, and a multiplication accepts limbs up to    *)
(* Excess hundredths of their radix (the code's 2^1.75, that is 336).      *)
(***************************************************************************)
EXTENDS Integers, FiniteSetsExt

CONSTANTS Even, Odd, Fold10, Word32, Word64, Excess

ASSUME Radix10Assumption ==
  /\ Odd > 1 /\ Even = 2 * Odd /\ Fold10 > 1 /\ Fold10 < Odd
  /\ (Excess \div 100 + 17) * Even <= Word32
  /\ Fold10 * (Excess \div 100 + 1) * Even <= Word32
  /\ (((1 + 9 * Fold10) * Excess * Excess) \div 10000 + 1) * Even * Even <= Word64

I10 == 0..9
Radix(i) == IF i % 2 = 0 THEN Even ELSE Odd
Bounded10(x, e) == \A i \in I10 : 100 * x[i] < e * Radix(i)

W32(n) == n % Word32
WD64(n) == n % Word64

Zero10 == [i \in I10 |-> 0]
One10 == [i \in I10 |-> IF i = 0 THEN 1 ELSE 0]
MinusOne10 == [i \in I10 |-> Radix(i) - IF i = 0 THEN Fold10 + 1 ELSE 1]
SixteenP10(i) == 16 * (Radix(i) - IF i = 0 THEN Fold10 ELSE 1)

\* carry(i): the excess of limb i goes to limb i + 1.
CarryAt(z, i) ==
  [z EXCEPT ![i] = z[i] % Radix(i), ![i + 1] = WD64(z[i + 1] + z[i] \div Radix(i))]
\* The ten carries interleave two chains that start at limbs 0 and 4.
CarryOrder == <<0, 4, 1, 5, 2, 6, 3, 7, 4, 8>>
CarryChain(z) ==
  LET after[k \in 0..10] == IF k = 0 THEN z ELSE CarryAt(after[k - 1], CarryOrder[k])
  IN  after[10]
\* reduce: the carry out of limb 9 comes back to limb 0 times 19.
\* Variant: the fold is the last step, no carry follows it.
Reduce10Early(z) ==
  LET c == CarryChain(z)
  IN  [i \in I10 |-> W32(CASE i = 0 -> c[0] + Fold10 * (c[9] \div Odd) [] i = 9 -> c[9] % Odd [] OTHER -> c[i])]
Reduce10(z) ==
  LET c == CarryChain(z)
      w == CarryAt([c EXCEPT ![0] = WD64(c[0] + Fold10 * (c[9] \div Odd)), ![9] = c[9] % Odd], 0)
  IN  [i \in I10 |-> W32(w[i])]

Add10(x, y) == [i \in I10 |-> W32(x[i] + y[i])]
Sub10(x, y) == Reduce10([i \in I10 |-> W32(W32(x[i] + SixteenP10(i)) - y[i])])
Negate10(x) == Reduce10([i \in I10 |-> W32(SixteenP10(i) - x[i])])

\* Two odd limbs meet one bit too high: one of them is doubled, in 32 bits.
DoubledIfOdd(x, i, j) == IF i % 2 = 1 /\ j % 2 = 1 THEN W32(2 * x[i]) ELSE x[i]
\* A product of weight 2^255 or more takes 19 times the second limb, in 32 bits.
\* Variant: the products of weight 2^255 itself are not folded.
FoldedLimbLate(y, i, j) == IF i + j > 10 THEN W32(Fold10 * y[j]) ELSE y[j]
FoldedLimb(y, i, j) == IF i + j >= 10 THEN W32(Fold10 * y[j]) ELSE y[j]
Mul10(x, y) ==
  Reduce10([k \in I10 |->
     WD64(MapThenSumSet(LAMBDA i :
            LET j == (k + 10 - i) % 10 IN DoubledIfOdd(x, i, j) * FoldedLimb(y, i, j), I10))])

\* square_inner adds the product of each unordered pair of limbs once.  The factor 2 of
\* an odd-odd folded pair is taken out of the 32-bit product and applied in 64 bits.
SquareTerm(x, i, j) ==
  LET bothOdd == i % 2 = 1 /\ j % 2 = 1
      twice(l, c) == IF c THEN W32(2 * x[l]) ELSE x[l]
  IN  CASE i + j < 10 -> twice(i, i < j \/ bothOdd) * twice(j, i < j /\ bothOdd)
        [] i + j >= 10 /\ j % 2 = 0 -> twice(i, i < j) * W32(Fold10 * x[j])
        [] i + j >= 10 /\ j % 2 = 1 /\ i % 2 = 1 -> twice(i, i < j) * W32(Fold10 * x[j]) * 2
        [] i + j >= 10 /\ j % 2 = 1 /\ i % 2 = 0 -> x[i] * W32(Fold10 * x[j]) * 2
SquareInner10(x) ==
  [k \in I10 |-> WD64(MapThenSumSet(LAMBDA i : SquareTerm(x, i, (k + 10 - i) % 10),
                                    {i \in I10 : i <= (k + 10 - i) % 10}))]
Square10(x) == Reduce10(SquareInner10(x))
Square2Of10(x) == LET z == SquareInner10(x) IN Reduce10([i \in I10 |-> WD64(2 * z[i])])
Pow2k10(x, k) ==
  LET sq[j \in 1..k] == IF j = 1 THEN Square10(x) ELSE Square10(sq[j - 1])
  IN  sq[k]

ConditionalSelect10(a, b, choice) == [i \in I10 |-> IF choice THEN b[i] ELSE a[i]]

\* to_bytes: q is the carry of the value plus 19, that is, whether the value is p or more.
Canonical10(x) ==
  LET h == Reduce10(x)
      q[i \in I10] == (h[i] + IF i = 0 THEN Fold10 ELSE q[i - 1]) \div Radix(i)
      l[i \in I10] == h[i] + IF i = 0 THEN Fold10 * q[9] ELSE l[i - 1] \div Radix(i - 1)
  IN  [i \in I10 |-> l[i] % Radix(i)]

-----------------------------------------------------------------------------
(* The byte layouts, at the real widths: a value is the set of its bits.   *)

\* The weight of limb i's lowest bit.
Position10(i) == 26 * ((i + 1) \div 2) + 25 * (i \div 2)
\* from_bytes: limb i is loaded from Bytes bytes at At and shifted left; limb 9 keeps 23 bits.
Load10 == [i \in I10 |->
  CASE i = 0 -> [at |-> 0, bytes |-> 4, shift |-> 0]  [] i = 1 -> [at |-> 4, bytes |-> 3, shift |-> 6]
    [] i = 2 -> [at |-> 7, bytes |-> 3, shift |-> 5]  [] i = 3 -> [at |-> 10, bytes |-> 3, shift |-> 3]
    [] i = 4 -> [at |-> 13, bytes |-> 3, shift |-> 2] [] i = 5 -> [at |-> 16, bytes |-> 4, shift |-> 0]
    [] i = 6 -> [at |-> 20, bytes |-> 3, shift |-> 7] [] i = 7 -> [at |-> 23, bytes |-> 3, shift |-> 5]
    [] i = 8 -> [at |-> 26, bytes |-> 3, shift |-> 4] [] i = 9 -> [at |-> 29, bytes |-> 3, shift |-> 2]]
FromBytes10(B) ==
  UNION {{Position10(i) + Load10[i].shift + t : t \in {u \in 0..(8 * Load10[i].bytes - 1) :
             8 * Load10[i].at + u \in B /\ (i = 9 => u < 23)}} : i \in I10}
\* to_bytes: limb i's bits go up from bit Store10[i][2] of byte Store10[i][1].
Store10 == [i \in I10 |->
  CASE i = 0 -> <<0, 0>>  [] i = 1 -> <<3, 2>>  [] i = 2 -> <<6, 3>>  [] i = 3 -> <<9, 5>>  [] i = 4 -> <<12, 6>>
    [] i = 5 -> <<16, 0>> [] i = 6 -> <<19, 1>> [] i = 7 -> <<22, 3>> [] i = 8 -> <<25, 4>> [] i = 9 -> <<28, 6>>]
ToBytes10(V) ==
  UNION {{8 * Store10[i][1] + Store10[i][2] + t :
            t \in {u \in 0..(IF i % 2 = 0 THEN 25 ELSE 24) : Position10(i) + u \in V}} : i \in I10}
=============================================================================
