---------------------------- MODULE CommonCoinProofs ----------------------------
(***************************************************************************)
(* The receive loop of shared_coin never raises and the coin stays unknown *)
(* until a correct node asks, for all N, f and rounds.                     *)
(***************************************************************************)
EXTENDS CommonCoin, ParticipantsProofs

(* All queues, sets and results start empty.                               *)
LEMMA InitIInv == Init => IInv
<1> SUFFICES ASSUME Init PROVE IInv
  OBVIOUS
<1>1. TypeOK
  BY DEF Init, TypeOK, PerNode
<1>2. ReceiverSurvives /\ Unpredictable /\ SharesValid
  BY DEF Init, ReceiverSurvives, Unpredictable, SharesValid, PerNode
<1>3. QueueAfterThreshold /\ SharesAsked
  BY DEF Init, QueueAfterThreshold, SharesAsked, PerNode
<1> QED BY <1>1, <1>2, <1>3 DEF IInv

(* Sending a share changes no receiver's count.                            *)
LEMMA GetCoinIInv ==
  ASSUME IInv, NEW p \in Correct, NEW r \in Rounds, GetCoin(p, r)
  PROVE  IInv'
<1> USE DEF IInv, GetCoin
<1>1. TypeOK'
  BY DEF TypeOK
<1>2. (ReceiverSurvives /\ SharesValid /\ QueueAfterThreshold)'
  BY DEF ReceiverSurvives, SharesValid, QueueAfterThreshold
<1>3. Unpredictable'
  BY DEF Unpredictable, TypeOK
<1>4. SharesAsked'
  BY DEF SharesAsked, TypeOK
<1> QED BY <1>1, <1>2, <1>3, <1>4

(* Emptying the queue only weakens what is demanded of it.                 *)
LEMMA ReturnCoinIInv ==
  ASSUME IInv, NEW p \in Correct, NEW r \in Rounds, ReturnCoin(p, r)
  PROVE  IInv'
<1> USE DEF IInv, ReturnCoin
<1>1. TypeOK'
  BY DEF TypeOK
<1>2. (ReceiverSurvives /\ SharesValid /\ SharesAsked)'
  BY DEF ReceiverSurvives, SharesValid, SharesAsked
<1>3. (Unpredictable /\ QueueAfterThreshold)'
  BY DEF Unpredictable, QueueAfterThreshold, TypeOK
<1> QED BY <1>1, <1>2, <1>3

(* A share read: it is valid if it is kept, so combining succeeds; it      *)
(* makes f+1 only once, so the queue is empty then; and f+1 senders are    *)
(* not all faulty, so a correct node has asked.                            *)
LEMMA RecvIInv ==
  ASSUME IInv, NEW p \in Correct, NEW r \in Rounds, NEW i \in Nodes, NEW valid \in BOOLEAN,
         NEW o \in Outputs, Recv(p, r, i, valid, o)
  PROVE  IInv'
<1> USE DEF IInv
<1>t. TypeOK
  OBVIOUS
<1>a. /\ shares' = [shares EXCEPT ![p][r] = @ \ {i}]
      /\ asked' = asked /\ got' = got
      /\ i \in Faulty \/ (i \in shares[p][r] /\ valid)
  BY DEF Recv
<1>b. shares' \in [Correct -> [Rounds -> SUBSET Correct]]
  BY <1>a, <1>t DEF TypeOK
<1>1. CASE i \in received[p][r] \/ ~Accepts(p, i, valid)
  <2>1. UNCHANGED <<received, invalid, outputQueue, dead, beacon>>
    BY <1>1 DEF Recv
  <2>2. TypeOK'
    BY <2>1, <1>a, <1>b, <1>t DEF TypeOK
  <2>3. SharesAsked'
    BY <2>1, <1>a, <1>t DEF SharesAsked, TypeOK
  <2>4. (ReceiverSurvives /\ Unpredictable /\ SharesValid /\ QueueAfterThreshold)'
    BY <2>1, <1>a DEF ReceiverSurvives, Unpredictable, SharesValid, QueueAfterThreshold
  <2> QED BY <2>2, <2>3, <2>4
<1>2. CASE i \notin received[p][r] /\ Accepts(p, i, valid)
  <2>1. /\ received' = [received EXCEPT ![p][r] = @ \cup {i}]
        /\ invalid' = [invalid EXCEPT ![p][r] = IF valid THEN @ ELSE @ \cup {i}]
        /\ IF ReachesThreshold(received'[p][r])
             THEN Combine(p, r, invalid'[p][r], o)
             ELSE UNCHANGED <<outputQueue, dead, beacon>>
    BY <1>2 DEF Recv
  <2>2. valid
    BY <1>2, <1>a DEF Accepts, Correct
  <2>3. /\ received'[p][r] = received[p][r] \cup {i}
        /\ received' \in [Correct -> [Rounds -> SUBSET Nodes]]
        /\ received'[p][r] \in SUBSET Nodes
        /\ \A q \in Correct, s \in Rounds : received[q][s] \subseteq received'[q][s]
        /\ \A q \in Correct, s \in Rounds :
             <<q, s>> # <<p, r>> => received'[q][s] = received[q][s]
    BY <2>1, <1>t DEF TypeOK
  <2>4. invalid' = invalid /\ invalid'[p][r] = {} /\ SharesValid'
    BY <2>1, <2>2, <1>t DEF TypeOK, SharesValid
  <2>5. SharesAsked'
    <3>1. \A q \in Correct, s \in Rounds : shares'[q][s] \subseteq shares[q][s]
      BY <1>a, <1>t DEF TypeOK
    <3>2. i \in Correct => r \in asked[i]
      BY <1>a DEF SharesAsked, Correct
    <3>3. \A q \in Correct, s \in Rounds : \A j \in received'[q][s] :
            j \in received[q][s] \/ (j = i /\ s = r)
      BY <2>3, <1>t DEF TypeOK
    <3> QED BY <3>1, <3>2, <3>3, <1>a DEF SharesAsked
  <2>6. Cardinality(received[p][r]) \in Nat
        /\ Cardinality(received'[p][r]) = Cardinality(received[p][r]) + 1
    <3>1. IsFiniteSet(received[p][r]) /\ Cardinality(received[p][r]) \in Nat
      BY <1>t, NodeSets DEF TypeOK
    <3> QED BY <3>1, <1>2, <2>3, FS_AddElement
  <2>7. \A q \in Correct, s \in Rounds :
          Cardinality(received[q][s]) >= f + 1 => Cardinality(received'[q][s]) >= f + 1
    <3> TAKE q \in Correct, s \in Rounds
    <3>1. CASE q = p /\ s = r
      BY <3>1, <2>6, ResilienceAssumption
    <3>2. CASE ~(q = p /\ s = r)
      <4>1. received'[q][s] = received[q][s]
        BY <3>2, <2>3
      <4> QED BY <4>1
    <3> QED BY <3>1, <3>2
  <2>8. CASE ReachesThreshold(received'[p][r])
    <3>1. Cardinality(received'[p][r]) = f + 1 /\ outputQueue[p][r] = None
      BY <2>8, <2>6, ResilienceAssumption DEF ReachesThreshold, QueueAfterThreshold
    <3>2. /\ beacon' = [beacon EXCEPT ![r] = o]
          /\ outputQueue' = [outputQueue EXCEPT ![p][r] = o]
          /\ dead' = dead
      BY <2>1, <2>4, <2>8, <3>1 DEF Combine
    <3>3. TypeOK'
      BY <1>a, <1>b, <1>t, <2>3, <2>4, <3>2 DEF TypeOK
    <3>4. QueueAfterThreshold'
      BY <2>7, <3>1, <3>2, <1>t, ResilienceAssumption DEF QueueAfterThreshold, TypeOK
    <3>5. \E q \in Correct : r \in asked'[q]
      <4>1. PICK q \in Correct : q \in received'[p][r]
        BY <2>3, <3>1, ResilienceAssumption, CorrectWitness
      <4> QED BY <4>1, <2>5 DEF SharesAsked
    <3>6. Unpredictable'
      BY <3>2, <3>5, <1>a, <1>t DEF Unpredictable, TypeOK
    <3>7. ReceiverSurvives'
      BY <3>2 DEF ReceiverSurvives
    <3> QED BY <2>4, <2>5, <3>3, <3>4, <3>6, <3>7
  <2>9. CASE ~ReachesThreshold(received'[p][r])
    <3>1. UNCHANGED <<outputQueue, dead, beacon>>
      BY <2>1, <2>9
    <3>2. TypeOK'
      BY <1>a, <1>b, <1>t, <2>3, <2>4, <3>1 DEF TypeOK
    <3>3. QueueAfterThreshold'
      BY <2>7, <3>1 DEF QueueAfterThreshold
    <3>4. (Unpredictable /\ ReceiverSurvives)'
      BY <3>1, <1>a DEF Unpredictable, ReceiverSurvives
    <3> QED BY <2>4, <2>5, <3>2, <3>3, <3>4
  <2> QED BY <2>8, <2>9
<1> QED BY <1>1, <1>2

(* Stuttering.                                                             *)
LEMMA StutterIInv == IInv /\ UNCHANGED vars => IInv'
BY DEF IInv, vars, TypeOK, ReceiverSurvives, Unpredictable, SharesValid, QueueAfterThreshold,
       SharesAsked

(* IInv is an invariant of shared_coin.                                    *)
THEOREM Invariance == Spec => []IInv
<1>1. IInv /\ [Next]_vars => IInv'
  BY GetCoinIInv, ReturnCoinIInv, RecvIInv, StutterIInv DEF Next
<1> QED BY <1>1, InitIInv, PTL DEF Spec

(* Every queue holds nothing or one selection, and counts are of nodes.    *)
THEOREM TypeCorrect == Spec => []TypeOK
<1>1. IInv => TypeOK
  BY DEF IInv
<1> QED BY <1>1, Invariance, PTL

(* No order of shares makes the assertion on the combined signature or     *)
(* put_nowait raise in _recv.                                              *)
THEOREM ReceiverSurvivesHolds == Spec => []ReceiverSurvives
<1>1. IInv => ReceiverSurvives
  BY DEF IInv
<1> QED BY <1>1, Invariance, PTL

(* Nothing a node can read of a round's coin exists before a correct node  *)
(* has called getCoin for it.                                              *)
THEOREM UnpredictableHolds == Spec => []Unpredictable
<1>1. IInv => Unpredictable
  BY DEF IInv
<1> QED BY <1>1, Invariance, PTL
=============================================================================
