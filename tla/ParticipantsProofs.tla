-------------------------- MODULE ParticipantsProofs --------------------------
(***************************************************************************)
(* Counting arguments shared by the proofs about the protocols.            *)
(***************************************************************************)
EXTENDS Participants, FiniteSetTheorems, TLAPS

(* Every set of participants is finite and no larger than N.               *)
LEMMA NodeSets ==
  /\ N \in Nat
  /\ \A S \in SUBSET Nodes : /\ IsFiniteSet(S)
                             /\ Cardinality(S) \in Nat
                             /\ Cardinality(S) <= N
BY NodesAssumption, FS_Subset, FS_CardinalityType DEF N

(* Counts of participants only grow with the set counted.                  *)
LEMMA CountMonotone ==
  ASSUME NEW S \in SUBSET Nodes, NEW T \in SUBSET S
  PROVE  Cardinality(T) <= Cardinality(S)
BY NodeSets, FS_Subset

(* f+1 participants include a correct one: what ReadyThreshold, the        *)
(* signature counts and the multicast threshold rely on.                   *)
LEMMA CorrectWitness ==
  ASSUME NEW S \in SUBSET Nodes, Cardinality(S) >= f + 1
  PROVE  \E q \in Correct : q \in S
<1>1. SUFFICES ASSUME ~ \E q \in Correct : q \in S PROVE FALSE
  OBVIOUS
<1>2. S \in SUBSET Faulty
  BY <1>1 DEF Correct
<1>3. Cardinality(S) <= Cardinality(Faulty)
  BY <1>2, NodesAssumption, NodeSets, FS_Subset
<1> QED BY <1>3, NodesAssumption, ResilienceAssumption, NodeSets

(* Disjoint sets of participants are counted separately.                   *)
LEMMA DisjointCount ==
  ASSUME NEW A \in SUBSET Nodes, NEW B \in SUBSET Nodes, A \cap B = {},
         NEW S, S = A \cup B
  PROVE  Cardinality(S) = Cardinality(A) + Cardinality(B)
<1>1. Cardinality(A \cup B) = Cardinality(A) + Cardinality(B) - Cardinality(A \cap B)
  BY NodeSets, FS_Union
<1>2. Cardinality(A \cap B) = 0
  BY FS_EmptySet
<1>3. Cardinality(A) \in Nat /\ Cardinality(B) \in Nat
  BY NodeSets
<1> QED BY <1>1, <1>2, <1>3

(* Among n participants at least n - f are correct.                        *)
LEMMA CorrectMany ==
  ASSUME NEW S \in SUBSET Nodes
  PROVE  Cardinality(S \cap Correct) >= Cardinality(S) - f
<1>1. /\ S \cap Correct \in SUBSET Nodes
      /\ S \cap Faulty \in SUBSET Faulty
      /\ S \cap Faulty \in SUBSET Nodes
      /\ (S \cap Correct) \cup (S \cap Faulty) = S
      /\ (S \cap Correct) \cap (S \cap Faulty) = {}
  BY NodesAssumption DEF Correct
<1>2. Cardinality(S \cap Faulty) <= f
  BY <1>1, NodesAssumption, ResilienceAssumption, NodeSets, CountMonotone
<1>3. Cardinality(S) = Cardinality(S \cap Correct) + Cardinality(S \cap Faulty)
  BY <1>1, DisjointCount
<1>4. /\ Cardinality(S) \in Nat
      /\ Cardinality(S \cap Correct) \in Nat
      /\ Cardinality(S \cap Faulty) \in Nat
  BY <1>1, NodeSets
<1> QED BY <1>2, <1>3, <1>4, ResilienceAssumption

(* Two sets of N-f participants share a correct one: what the echo and     *)
(* ready thresholds of the protocols rely on.                              *)
LEMMA QuorumsMeet ==
  ASSUME NEW S \in SUBSET Nodes, NEW T \in SUBSET Nodes,
         Cardinality(S) >= N - f, Cardinality(T) >= N - f
  PROVE  \E q \in Correct : q \in S /\ q \in T
<1>1. Cardinality(S \cup T) = Cardinality(S) + Cardinality(T) - Cardinality(S \cap T)
  BY NodeSets, FS_Union
<1>2. Cardinality(S \cup T) <= N /\ Cardinality(S \cap T) \in Nat /\ S \cap T \in SUBSET Nodes
      /\ Cardinality(S \cup T) \in Nat /\ Cardinality(S) \in Nat /\ Cardinality(T) \in Nat
  <2>1. S \cup T \in SUBSET Nodes /\ S \cap T \in SUBSET Nodes
    OBVIOUS
  <2> QED BY <2>1, NodeSets
<1>3. Cardinality(S \cap T) >= f + 1
  BY <1>1, <1>2, NodeSets, ResilienceAssumption
<1> QED BY <1>2, <1>3, CorrectWitness

(* Recording one more message, over an empty entry, keeps every sender     *)
(* that was counted.                                                       *)
LEMMA SendersGrow ==
  ASSUME NEW row, NEW row2, NEW r,
         \A q \in Nodes : row[q] = r => row2[q] = r
  PROVE  /\ Senders(row, r) \in SUBSET Nodes
         /\ Senders(row2, r) \in SUBSET Nodes
         /\ Cardinality(Senders(row, r)) <= Cardinality(Senders(row2, r))
<1>1. Senders(row2, r) \in SUBSET Nodes /\ Senders(row, r) \in SUBSET Senders(row2, r)
  BY DEF Senders
<1> QED BY <1>1, CountMonotone
=============================================================================
