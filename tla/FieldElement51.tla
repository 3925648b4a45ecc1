-------------------------- MODULE FieldElement51 --------------------------
(***************************************************************************)
(* The 64-bit backend of the field of 2^255 - 19 elements (u64/field.rs):  *)
(* a field element is five 64-bit limbs in radix 2^51, not necessarily     *)
(* reduced.  Here the radix is Limb, the fold (19) is Fold, so that the    *)
(* modulus is Limb^5 - Fold, a machine word holds the numbers below Word,  *)
(* and Headroom (2^54) bounds the limbs of a multiplication's operands.    *)
(* Every 64-bit operation wraps modulo Word; that none does on such        *)
(* operands is proved in DalekProofs.                                      *)
(***************************************************************************)
EXTENDS Integers

CONSTANTS
  Limb,   \* 2^51
  Fold,   \* 19
  Headroom,   \* 2^54, the limit the debug assertions of mul and pow2k state
  Word    \* 2^64

ASSUME LimbAssumption == Limb \in Nat /\ Fold \in Nat /\ Headroom \in Nat /\ Word \in Nat
\* What the comments of mul, pow2k, sub and reduce derive from 51, 19, 54 and 64.
ASSUME RoomAssumption ==
  /\ 1 < Fold /\ Fold < Limb /\ Limb < Headroom
  /\ Headroom <= 16 * (Limb - Fold)
  /\ Headroom + 16 * Limb <= Word
  /\ Fold * Headroom <= Word
  /\ Fold * Word + Limb * Limb < Limb * Headroom
  /\ Word + 17 * Limb <= Limb * Limb
  /\ Headroom * Headroom * (1 + 4 * Fold) + Word < Limb * Word
  /\ Fold * (5 * Headroom * Headroom + Word) + Limb * Limb < Limb * Word

I5 == 0..4
FE51 == [I5 -> 0..Word-1]
Bounded51(x, n) == \A i \in I5 : x[i] < n

\* 64-bit arithmetic
W64(n) == n % Word

Zero51 == [i \in I5 |-> 0]
One51 == [i \in I5 |-> IF i = 0 THEN 1 ELSE 0]
MinusOne51 == [i \in I5 |-> IF i = 0 THEN Limb - Fold - 1 ELSE Limb - 1]

\* 16 times the modulus, limb by limb
SixteenP(i) == 16 * (IF i = 0 THEN Limb - Fold ELSE Limb - 1)

\* The carries are taken in parallel; the top one comes back times 19.
Reduce51(x) ==
  [i \in I5 |-> W64((x[i] % Limb) + (IF i = 0 THEN Fold * (x[4] \div Limb) ELSE x[i - 1] \div Limb))]

Add51(x, y) == [i \in I5 |-> W64(x[i] + y[i])]
Sub51(x, y) == Reduce51([i \in I5 |-> W64(W64(x[i] + SixteenP(i)) - y[i])])
Negate51(x) == Reduce51([i \in I5 |-> W64(SixteenP(i) - x[i])])

\* One chain of carries over the 128-bit coefficients c[0..4], as mul and pow2k end.
Carry51(c) ==
  LET c1 == c[1] + W64(c[0] \div Limb)
      c2 == c[2] + W64(c1 \div Limb)
      c3 == c[3] + W64(c2 \div Limb)
      c4 == c[4] + W64(c3 \div Limb)
      o0 == W64((c[0] % Limb) + W64(Fold * W64(c4 \div Limb)))
  IN  [i \in I5 |-> CASE i = 0 -> o0 % Limb
                      [] i = 1 -> (c1 % Limb) + (o0 \div Limb)
                      [] i = 2 -> c2 % Limb
                      [] i = 3 -> c3 % Limb
                      [] i = 4 -> c4 % Limb]

\* Products whose weight reaches Limb^5 use the 64-bit product of the operand and 19.
Mul51(a, b) ==
  LET b19 == [i \in I5 |-> W64(b[i] * Fold)]
  IN  Carry51(
       [i \in I5 |->
          CASE i = 0 -> a[0]*b[0] + a[4]*b19[1] + a[3]*b19[2] + a[2]*b19[3] + a[1]*b19[4]
            [] i = 1 -> a[1]*b[0] + a[0]*b[1] + a[4]*b19[2] + a[3]*b19[3] + a[2]*b19[4]
            [] i = 2 -> a[2]*b[0] + a[1]*b[1] + a[0]*b[2] + a[4]*b19[3] + a[3]*b19[4]
            [] i = 3 -> a[3]*b[0] + a[2]*b[1] + a[1]*b[2] + a[0]*b[3] + a[4]*b19[4]
            [] i = 4 -> a[4]*b[0] + a[3]*b[1] + a[2]*b[2] + a[1]*b[3] + a[0]*b[4]])

\* One round of pow2k's loop.
SquareOnce51(a) ==
  LET a3 == W64(Fold * a[3])
      a4 == W64(Fold * a[4])
  IN  Carry51(
       [i \in I5 |->
          CASE i = 0 -> a[0]*a[0] + 2 * (a[1]*a4 + a[2]*a3)
            [] i = 1 -> a[3]*a3 + 2 * (a[0]*a[1] + a[2]*a4)
            [] i = 2 -> a[1]*a[1] + 2 * (a[0]*a[2] + a[4]*a3)
            [] i = 3 -> a[4]*a4 + 2 * (a[0]*a[3] + a[1]*a[2])
            [] i = 4 -> a[2]*a[2] + 2 * (a[0]*a[4] + a[1]*a[3])])

Pow2k51(a, k) ==
  LET sq[j \in 0..k] == IF j = 0 THEN a ELSE SquareOnce51(sq[j - 1])
  IN  sq[k]
Square51(a) == Pow2k51(a, 1)
Square2Of51(a) == LET s == Pow2k51(a, 1) IN [i \in I5 |-> W64(2 * s[i])]

ConditionalSelect51(a, b, choice) == [i \in I5 |-> IF choice THEN b[i] ELSE a[i]]

\* to_bytes: the limbs of the canonical representative, which the bytes spell out.
Canonical51(x) ==
  LET r == Reduce51(x)
      q0 == (r[0] + Fold) \div Limb
      q1 == (r[1] + q0) \div Limb
      q2 == (r[2] + q1) \div Limb
      q3 == (r[3] + q2) \div Limb
      q == (r[4] + q3) \div Limb
      l0 == r[0] + Fold * q
      l1 == r[1] + l0 \div Limb
      l2 == r[2] + l1 \div Limb
      l3 == r[3] + l2 \div Limb
      l4 == r[4] + l3 \div Limb
  IN  [i \in I5 |-> (CASE i = 0 -> l0 [] i = 1 -> l1 [] i = 2 -> l2 [] i = 3 -> l3 [] i = 4 -> l4) % Limb]

-----------------------------------------------------------------------------
(* The byte layouts, at the real widths: a value is the set of its bits.   *)

\* from_bytes: limb i is the 64-bit word at byte Load51[i][1], shifted right and masked.
\* Variant: the top limb is shifted one bit too far.
Load51Far == [i \in I5 |-> CASE i = 0 -> <<0, 0>> [] i = 1 -> <<6, 3>> [] i = 2 -> <<12, 6>>
                              [] i = 3 -> <<19, 1>> [] i = 4 -> <<24, 13>>]
Load51 == [i \in I5 |-> CASE i = 0 -> <<0, 0>> [] i = 1 -> <<6, 3>> [] i = 2 -> <<12, 6>>
                           [] i = 3 -> <<19, 1>> [] i = 4 -> <<24, 12>>]
FromBytes51(B) ==
  UNION {{51 * i + t : t \in {u \in 0..50 : u + Load51[i][2] < 64 /\ 8 * Load51[i][1] + Load51[i][2] + u \in B}} :
         i \in I5}
\* to_bytes: limb i's bits go up from bit Store51[i][2] of byte Store51[i][1].
Store51 == [i \in I5 |-> CASE i = 0 -> <<0, 0>> [] i = 1 -> <<6, 3>> [] i = 2 -> <<12, 6>>
                            [] i = 3 -> <<19, 1>> [] i = 4 -> <<25, 4>>]
ToBytes51(V) ==
  UNION {{8 * Store51[i][1] + Store51[i][2] + t : t \in {u \in 0..50 : 51 * i + u \in V}} : i \in I5}
=============================================================================
