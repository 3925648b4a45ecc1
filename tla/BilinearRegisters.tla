------------------------- MODULE BilinearRegisters -------------------------
(***************************************************************************)
(* What the pairing code promises: registers that hold elements of groups  *)
(* of prime order N, written as logarithms, and a target register whose    *)
(* logarithms are products of theirs.  did is the last operation and its   *)
(* argument.                                                               *)
(***************************************************************************)
EXTENDS Integers

CONSTANT N

VARIABLES did, la, lb, lt

vars == <<did, la, lb, lt>>

Init == did = <<"init", 0>>

Sum(k) == did'[1] = "sum" /\ la' = (la + k * lb) % N
Scale == did'[1] = "scale" /\ la' = (did'[2] * la) % N
Swap == did'[1] = "swap" /\ la' = lb /\ lb' = la
\* A multi-exponentiation: so much of a, so much of b
Combine == did'[1] = "combine" /\ la' = (did'[2][1] * la + did'[2][2] * lb) % N
\* Any element but the neutral one
Draw == did'[1] = "draw" /\ la' \in 1..(N - 1)
\* The target becomes, or is multiplied by, a power of the pairing of a and b.
Pair == did'[1] = "pair" /\ lt' = (did'[2] * ((la * lb) % N)) % N
Accumulate == did'[1] = "accumulate" /\ lt' = (lt + did'[2] * ((la * lb) % N)) % N
Power == did'[1] = "power" /\ lt' = (did'[2] * lt) % N

Next ==
  \/ lb' = lb /\ lt' = lt /\ (Sum(did'[2]) \/ Scale \/ Combine \/ Draw)
  \/ lt' = lt /\ Swap
  \/ la' = la /\ lb' = lb /\ (Pair \/ Accumulate \/ Power)

Spec == Init /\ [][Next]_vars
=============================================================================
