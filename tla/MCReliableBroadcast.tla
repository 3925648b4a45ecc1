-------------------------- MODULE MCReliableBroadcast --------------------------
(* Bounds reliablebroadcast for TLC: faulty nodes get at most              *)
(* MaxFaultyMsgs messages accepted by correct nodes.                       *)
EXTENDS ReliableBroadcast, TLC

CONSTANT MaxFaultyMsgs

Symmetry == Permutations(Correct \ {Leader}) \cup Permutations(Values)

AcceptedFromFaulty(table) ==
  Cardinality({pq \in Correct \X Faulty : table[pq[1]][pq[2]] # None})

FaultyMsgs ==
  AcceptedFromFaulty(echoes) + AcceptedFromFaulty(readies)
    + IF Leader \in Faulty THEN Cardinality({p \in Correct : fromLeader[p] # None}) ELSE 0

WithinBudget == FaultyMsgs' <= MaxFaultyMsgs

MCNext ==
  \/ \E v \in Values : LeaderInput(v)
  \/ \E p \in Correct, r \in Roots : RecvVal(p, r) /\ WithinBudget
  \/ \E p \in Correct, q \in Nodes, r \in Roots : RecvEcho(p, q, r) /\ WithinBudget
  \/ \E p \in Correct, q \in Nodes, r \in Roots : RecvReady(p, q, r) /\ WithinBudget

MCSpec == Init /\ [][MCNext]_vars

MCFairSpec == MCSpec /\ WF_vars(CorrectStep)
=============================================================================
