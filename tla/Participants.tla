----------------------------- MODULE Participants -----------------------------
(***************************************************************************)
(* The N nodes every protocol of the repository runs on, of which at most  *)
(* f do not follow the code (N >= 3f + 1, asserted by reliablebroadcast).  *)
(***************************************************************************)
EXTENDS Naturals, FiniteSets

CONSTANTS Nodes,      \* the participants
          f,          \* tolerated faults
          Faulty,     \* the participants that do not follow the code
          None        \* Python's None

N == Cardinality(Nodes)
Correct == Nodes \ Faulty

ASSUME NodesAssumption == IsFiniteSet(Nodes) /\ Faulty \subseteq Nodes
ASSUME ResilienceAssumption == f \in Nat /\ N >= 3 * f + 1 /\ Cardinality(Faulty) <= f

(* The peers whose accepted message, recorded in row, was r.               *)
Senders(row, r) == {q \in Nodes : row[q] = r}
=============================================================================
