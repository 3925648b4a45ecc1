--------------------------- MODULE RingRegisters ---------------------------
(***************************************************************************)
(* What a field or scalar backend promises: two registers that hold        *)
(* elements of a ring, and the ring operations on them.  A register is a   *)
(* tuple of lanes; an element is given by its residues modulo the members  *)
(* of ring, which are pairwise coprime.  op is the last operation: its     *)
(* name and its argument.                                                  *)
(***************************************************************************)
EXTENDS Integers

VARIABLES ring, op, ra, rb

vars == <<ring, op, ra, rb>>

\* Element by element: f of the residues of ra and rb modulo m.
RingMap(f(_, _, _)) == [l \in DOMAIN ra |-> [m \in ring |-> f(ra[l][m], rb[l][m], m) % m]]
\* Lane by lane: f of the residues of the lanes of ra modulo m.
LaneMap(f(_, _, _)) == [l \in DOMAIN ra |-> [m \in ring |-> f([k \in DOMAIN ra |-> ra[k][m]], l, m) % m]]

Power(x, k, m) == LET p[j \in 0..k] == IF j = 0 THEN x ELSE (p[j - 1] * p[j - 1]) % m IN p[k]

Init == op = <<"init", 0>>

Add == op'[1] = "add" /\ ra' = RingMap(LAMBDA x, y, m : x + y)
Sub == op'[1] = "sub" /\ ra' = RingMap(LAMBDA x, y, m : x - y)
Mul == op'[1] = "mul" /\ ra' = RingMap(LAMBDA x, y, m : x * y)
Neg == op'[1] = "neg" /\ ra' = RingMap(LAMBDA x, y, m : -x)
Square == op'[1] = "square" /\ ra' = RingMap(LAMBDA x, y, m : x * x)
Square2 == op'[1] = "square2" /\ ra' = RingMap(LAMBDA x, y, m : 2 * ((x * x) % m))
\* The square, k times.
Pow2k == op'[1] = "pow2k" /\ ra' = RingMap(LAMBDA x, y, m : Power(x, op'[2], m))
Same == op'[1] = "same" /\ ra' = ra
\* (B - A, B + A, D - C, D + C)
DiffSum == op'[1] = "diff_sum" /\ ra' = LaneMap(LAMBDA r, l, m : IF l % 2 = 1 THEN r[l + 1] - r[l]
                                                                           ELSE r[l - 1] + r[l])
\* (A^2, B^2, C^2, -D^2)
SquareNegD == op'[1] = "square_neg_d" /\ ra' = LaneMap(LAMBDA r, l, m : (IF l = 4 THEN -1 ELSE 1) * (r[l] * r[l]))
\* The lanes times the constants of the argument.
Small == op'[1] = "small" /\ ra' = LaneMap(LAMBDA r, l, m : op'[2][l] * r[l])
\* The double-width number ra + rb * R, where the argument gives R's residues.
Wide == op'[1] = "wide" /\ ra' = RingMap(LAMBDA x, y, m : x + y * op'[2][m])
Swap == op'[1] = "swap" /\ ra' = rb /\ rb' = ra

Next ==
  /\ ring' = ring
  /\ \/ /\ rb' = rb
        /\ \/ Add \/ Sub \/ Mul \/ Neg \/ Square \/ Square2 \/ Pow2k
           \/ Same \/ DiffSum \/ SquareNegD \/ Small \/ Wide
     \/ Swap

Spec == Init /\ [][Next]_vars
=============================================================================
