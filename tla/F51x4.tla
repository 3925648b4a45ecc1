------------------------------- MODULE F51x4 -------------------------------
(***************************************************************************)
(* The IFMA backend (ifma/field.rs): four field elements in radix 2^51,    *)
(* multiplied with vpmadd52: the low and the high 52 bits of the product   *)
(* of two 52-bit operands.  52 bits are Half (twice the radix), a lane's   *)
(* 64-bit word is WordV.  The type F51x4Reduced holds limbs below 2^52,    *)
(* F51x4Unreduced anything that fits a word.                               *)
(***************************************************************************)
EXTENDS FieldElement51, VectorLanes, FiniteSetsExt

CONSTANTS Half, WordV

ASSUME HalfAssumption ==
  /\ Half = 2 * Limb /\ WordV \in Nat
  /\ Limb + Fold * (WordV \div Limb) <= Half

Reduced51x4(x) == \A l \in Lanes4 : Bounded51(x[l], Half)

WV(n) == n % WordV
\* madd52lo and madd52hi use the low 52 bits of x and of y.
Lo52(x, y) == ((x % Half) * (y % Half)) % Half
Hi52(x, y) == ((x % Half) * (y % Half)) \div Half

\* From<F51x4Unreduced>: parallel carries, the top one times 19 with madd52lo.
ReduceV(x) ==
  [i \in I5 |-> WV((x[i] % Limb) + IF i = 0 THEN Lo52(x[4] \div Limb, Fold) ELSE x[i - 1] \div Limb)]
Reduce51x4(x) == [l \in Lanes4 |-> ReduceV(x[l])]

New51x4(y) == y
AddV4(x, y) == [l \in Lanes4 |-> [i \in I5 |-> WV(x[l][i] + y[l][i])]]
NegateLazyV4(x) == [l \in Lanes4 |-> [i \in I5 |-> WV(SixteenP(i) - x[l][i])]]
NegV4(x) == Reduce51x4(NegateLazyV4(x))
DiffSumV4(x) == AddV4(ShuffleIfma(x, "BADC"), BlendIfma(x, NegateLazyV4(x), "AC"))

\* Coefficient k of a product: z1[k] counts once, z2[k] twice, because the high half of
\* a product of weight 51(k-1) has weight 51(k-1) + 52.  Coefficients 5 to 9 are folded
\* times 19, in two halves of 52 bits; the one of weight 51*10 twice.
FoldV(z1, z2) ==
  LET z == [k \in 5..9 |-> WV(z1[k] + z2[k] + z2[k])]
      high(k) == WV(Hi52(Fold, z[k]) + Lo52(Fold, z[k] \div Half))
      a1 == [k \in I5 |-> WV(z1[k] + Lo52(Fold, z[k + 5]))]
      a2 == [k \in I5 |-> WV(z2[k] + IF k = 0 THEN Lo52(Fold, high(9)) ELSE high(k + 4))]
  IN  [k \in I5 |-> WV(a1[k] + a2[k] + a2[k])]

PairsOf(k) == {p \in I5 \X I5 : p[1] + p[2] = k}
MulV(x, y) ==
  FoldV([k \in 0..9 |-> MapThenSumSet(LAMBDA p : Lo52(x[p[1]], y[p[2]]), PairsOf(k))],
        [k \in 0..9 |-> MapThenSumSet(LAMBDA p : Hi52(x[p[1]], y[p[2]]), PairsOf(k - 1))])
MulV4(x, y) == [l \in Lanes4 |-> MulV(x[l], y[l])]

\* square: the high halves of the mixed products count four times, as a left shift by 2.
SquareV(x) ==
  LET mixed(k) == {p \in PairsOf(k) : p[1] < p[2]}
      equal(k) == {p \in PairsOf(k) : p[1] = p[2]}
      lo(S) == MapThenSumSet(LAMBDA p : Lo52(x[p[1]], x[p[2]]), S)
      hi(S) == MapThenSumSet(LAMBDA p : Hi52(x[p[1]], x[p[2]]), S)
  IN  FoldV([k \in 0..9 |-> WV(4 * hi(mixed(k - 1)) + lo(equal(k)))],
            [k \in 0..9 |-> WV(lo(mixed(k)) + hi(equal(k - 1)))])
SquareV4(x) == [l \in Lanes4 |-> SquareV(x[l])]

\* Mul by small constants: only the top high half is folded, times 19.
MulSmallV(x, y) ==
  [k \in I5 |-> WV(Lo52(y, x[k]) +
     IF k = 0 THEN Lo52(WV(2 * Hi52(y, x[4])), Fold) ELSE 2 * Hi52(y, x[k - 1]))]
MulSmallV4(x, y) == [l \in Lanes4 |-> MulSmallV(x[l], y[l])]

ConditionalSelectV4(a, b, choice) == [l \in Lanes4 |-> IF choice THEN b[l] ELSE a[l]]
=============================================================================
