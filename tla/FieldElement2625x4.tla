------------------------ MODULE FieldElement2625x4 ------------------------
(***************************************************************************)
(* The AVX2 backend (avx2/field.rs): four field elements at once, each ten *)
(* 32-bit limbs as in the serial 32-bit backend; a value here is four      *)
(* lanes of ten limbs (the code interleaves them in five registers).       *)
(* Additions and differences are lazy; the bounds are hundredths of a      *)
(* limb's radix, and the code's powers of two are in the comments.         *)
(***************************************************************************)
EXTENDS FieldElement2625, VectorLanes

CONSTANTS
  MulLeft,    \* 2^2.5, the left operand of a multiplication
  SquarePre,  \* 2^1.5, the operand of a square
  LazyPre,    \* 2^0.999, the operand of a lazy negation
  Post,       \* 2^0.007, what a multiplication or a square leaves
  PShift      \* 2^37, the multiple of p a wide coefficient is subtracted from

ASSUME LanesAssumption == {MulLeft, SquarePre, LazyPre, Post, PShift} \subseteq Nat

Each(f(_), x) == [l \in Lanes4 |-> f(x[l])]
Bounded4(x, e) == \A l \in Lanes4 : Bounded10(x[l], e)

\* reduce: all ten carries at once, the top one back at limb 0 times 19.
Reduce32(x) ==
  [i \in I10 |-> W32((x[i] % Radix(i)) +
      IF i = 0 THEN Fold10 * (x[9] \div Odd) ELSE x[i - 1] \div Radix(i - 1))]
\* reduce64: the last carry is split in two so that each half times 19 fits 32 bits.
Reduce64(z) ==
  LET c == CarryChain(z)
      out == c[9] \div Odd
      w == CarryAt([c EXCEPT ![0] = WD64(c[0] + Fold10 * W32(out % Even)),
                             ![1] = WD64(c[1] + Fold10 * W32(out \div Even)),
                             ![9] = c[9] % Odd], 0)
  IN  [i \in I10 |-> W32(w[i])]

\* new and split: limb i of the radix-2^51 form is x[2i] + x[2i+1] * 2^26.
NewLane(y) == Reduce32([i \in I10 |-> IF i % 2 = 0 THEN y[i \div 2] % Even ELSE W32(y[i \div 2] \div Even)])
New4(y) == Each(NewLane, y)
SplitLane(x) == [i \in 0..4 |-> x[2 * i] + x[2 * i + 1] * Even]
Split4(x) == Each(SplitLane, x)

PTimes(k, i) == k * (Radix(i) - IF i = 0 THEN Fold10 ELSE 1)
NegateLazy4(x) == [l \in Lanes4 |-> [i \in I10 |-> W32(PTimes(2, i) - x[l][i])]]
Neg4(x) == [l \in Lanes4 |-> Reduce32([i \in I10 |-> W32(PTimes(16, i) - x[l][i])])]
Add4(x, y) == [l \in Lanes4 |-> Add10(x[l], y[l])]
DiffSum4(x) == Add4(ShuffleAvx2(x, "BADC"), BlendAvx2(x, NegateLazy4(x), "AC"))

\* Mul by four small constants, and by another vector.
MulSmall4(x, k) == [l \in Lanes4 |-> Reduce64([i \in I10 |-> WD64(x[l][i] * k[l])])]
MulInner4(x, y) ==
  [k \in I10 |-> WD64(MapThenSumSet(LAMBDA i :
      LET j == (k + 10 - i) % 10 IN DoubledIfOdd(x, i, j) * FoldedLimb(y, i, j), I10))]
Mul4(x, y) == [l \in Lanes4 |-> Reduce64(MulInner4(x[l], y[l]))]
\* The square of every lane, lane D's wide coefficients subtracted from a multiple of p.
SquareAndNegateD4(x) ==
  [l \in Lanes4 |->
     LET z == SquareInner10(x[l])
     IN  Reduce64([i \in I10 |-> IF l = 4 THEN WD64(PTimes(PShift, i) - z[i]) ELSE z[i]])]

ConditionalSelect4(a, b, choice) == [l \in Lanes4 |-> IF choice THEN b[l] ELSE a[l]]
=============================================================================
