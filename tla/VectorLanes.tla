---------------------------- MODULE VectorLanes ----------------------------
(***************************************************************************)
(* The four lanes A, B, C, D of the vector backends, as sequences of       *)
(* length 4, whatever a lane holds: the permutations and the blends of     *)
(* avx2/field.rs and of ifma/field.rs.                                     *)
(***************************************************************************)
EXTENDS Integers

Lanes4 == 1..4
Vector(f(_)) == <<f(1), f(2), f(3), f(4)>>

\* avx2: the index vector given to vpermd, at the low word of each lane; the words
\* of a 256-bit register are a0, b0, a1, b1, c0, d0, c1, d1.
LaneAtWord(w) == CASE w = 0 -> 1 [] w = 1 -> 2 [] w = 4 -> 3 [] w = 5 -> 4
ShuffleWords ==
  [AAAA |-> <<0, 0, 0, 0>>, BBBB |-> <<1, 1, 1, 1>>, CACA |-> <<4, 0, 4, 0>>, DBBD |-> <<5, 1, 1, 5>>,
   ADDA |-> <<0, 5, 5, 0>>, CBCB |-> <<4, 1, 4, 1>>, ABAB |-> <<0, 1, 0, 1>>, BADC |-> <<1, 0, 5, 4>>,
   BACD |-> <<1, 0, 4, 5>>, ABDC |-> <<0, 1, 5, 4>>]
ShuffleAvx2(x, control) == Vector(LAMBDA i : x[LaneAtWord(ShuffleWords[control][i])])
LaneSets ==
  [C |-> {3}, D |-> {4}, AB |-> {1, 2}, AC |-> {1, 3}, CD |-> {3, 4}, AD |-> {1, 4}, BC |-> {2, 3}, ABCD |-> Lanes4]
BlendAvx2(x, y, control) == Vector(LAMBDA i : IF i \in LaneSets[control] THEN y[i] ELSE x[i])

\* ifma: the two-bit fields of vpermq's immediate, lowest first.
PermuteFields ==
  [AAAA |-> <<0, 0, 0, 0>>, BBBB |-> <<1, 1, 1, 1>>, BADC |-> <<1, 0, 3, 2>>, BACD |-> <<1, 0, 2, 3>>,
   ADDA |-> <<0, 3, 3, 0>>, CBCB |-> <<2, 1, 2, 1>>, ABDC |-> <<0, 1, 3, 2>>, ABAB |-> <<0, 1, 0, 1>>,
   DBBD |-> <<3, 1, 1, 3>>, CACA |-> <<2, 0, 2, 0>>]
ShuffleIfma(x, control) == Vector(LAMBDA i : x[PermuteFields[control][i] + 1])
BlendSets == [D |-> {4}, C |-> {3}, AB |-> {1, 2}, AC |-> {1, 3}, AD |-> {1, 4}, BCD |-> {2, 3, 4}]
BlendIfma(x, y, control) == Vector(LAMBDA i : IF i \in BlendSets[control] THEN y[i] ELSE x[i])
=============================================================================
