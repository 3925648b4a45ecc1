--------------------------- MODULE GroupRegisters ---------------------------
(***************************************************************************)
(* What the curve code promises: registers that hold elements of a cyclic  *)
(* group of order N, written as logarithms.  op is the last operation, gu  *)
(* the elements a Montgomery u-coordinate may stand for, and terms the     *)
(* scalars and elements given to a multiplication.                         *)
(***************************************************************************)
EXTENDS Integers, Sequences, FiniteSetsExt

CONSTANT N

VARIABLES op, ga, gb, gu, terms

vars == <<op, ga, gb, gu, terms>>

Init == op = <<"init", 0>>

\* The terms repeated cyclically until there are size of them, multiplied out and summed
Repeats(j, size) == (size + Len(terms) - j) \div Len(terms)
SumOfTerms(size) ==
  MapThenSumSet(LAMBDA j : (Repeats(j, size) * ((terms[j][1] * terms[j][2]) % N)) % N, DOMAIN terms) % N
Classes(x) == {y \in 0..(N - 1) : y = x % N \/ y = (-x) % N \/ ((2 * x) % N = 0 /\ (2 * y) % N = 0)}

Add == op'[1] = "add" /\ ga' = (ga + gb) % N
Sub == op'[1] = "sub" /\ ga' = (ga - gb) % N
Neg == op'[1] = "neg" /\ ga' = (-ga) % N
\* k doublings
Pow2 == op'[1] = "pow2" /\ ga' = (2 ^ (op'[2]) * ga) % N
Same == op'[1] = "same" /\ ga' = ga
\* Another representative of the same coset of the four-torsion
Coset == op'[1] = "coset" /\ (4 * (ga' - ga)) % N = 0
\* The u-coordinate of the neutral element is also that of the element of order two.
Lossy == op'[1] = "lossy" /\ ga' = IF ga = 0 THEN N \div 2 ELSE ga
Multiscalar == op'[1] = "multiscalar" /\ ga' = SumOfTerms(op'[2])
Swap == op'[1] = "swap" /\ ga' = gb /\ gb' = ga
\* Start of a computation, or one that has no result
Quiet == op'[1] = "quiet" /\ ga' = ga
Ladder == op'[1] = "ladder" /\ gu' = Classes(terms[1][1] * terms[1][2])

Next ==
  /\ terms' = terms
  /\ \/ gu' = gu /\ gb' = gb /\ (Add \/ Sub \/ Neg \/ Pow2 \/ Same \/ Coset \/ Lossy \/ Multiscalar \/ Quiet)
     \/ gu' = gu /\ Swap
     \/ ga' = ga /\ gb' = gb /\ Ladder

Spec == Init /\ [][Next]_vars
=============================================================================
