------------------------ MODULE ReliableBroadcastProofs ------------------------
(***************************************************************************)
(* reliablebroadcast is type correct, keeps its agreement, validity and    *)
(* decodability for every N >= 3f+1, and implements BroadcastSpec.         *)
(***************************************************************************)
EXTENDS ReliableBroadcast, ParticipantsProofs

(* The helpers of the handlers stay within the types of the state.         *)
LEMMA HelperTypes ==
  ASSUME NEW row, NEW row2, NEW r \in Roots, NEW sent \in Roots \cup {None}
  PROVE  /\ ReadyAfterEcho(row, r, sent) \in Roots \cup {None}
         /\ ReadyAfterReady(row, r, sent) \in Roots \cup {None}
         /\ decode_output(r) \in Values \cup {Failed}
         /\ OutputAfter(row, row2, r) \in Values \cup {None, Failed}
BY DEF ReadyAfterEcho, ReadyAfterReady, decode_output, OutputAfter, OutputTest, Roots

LEMMA InitType == Init => TypeOK
BY DEF Init, TypeOK

(* Every handler preserves the types of the state.                         *)
LEMMA NextType == TypeOK /\ [Next]_vars => TypeOK'
<1> SUFFICES ASSUME TypeOK, [Next]_vars PROVE TypeOK'
  OBVIOUS
<1> USE DEF TypeOK
<1>1. ASSUME NEW v \in Values, LeaderInput(v) PROVE TypeOK'
  BY <1>1 DEF LeaderInput
<1>2. ASSUME NEW p \in Correct, NEW r \in Roots, RecvVal(p, r) PROVE TypeOK'
  BY <1>2 DEF RecvVal
<1>3. ASSUME NEW p \in Correct, NEW q \in Nodes, NEW r \in Roots, RecvEcho(p, q, r)
      PROVE  TypeOK'
  <2>1. echoes' \in [Correct -> [Nodes -> Roots \cup {None}]]
    BY <1>3 DEF RecvEcho
  <2>2. readySent' \in [Correct -> Roots \cup {None}]
    BY <1>3, HelperTypes DEF RecvEcho
  <2>3. output' \in [Correct -> Values \cup {None, Failed}]
    BY <1>3, HelperTypes DEF RecvEcho
  <2> QED BY <1>3, <2>1, <2>2, <2>3 DEF RecvEcho
<1>4. ASSUME NEW p \in Correct, NEW q \in Nodes, NEW r \in Roots, RecvReady(p, q, r)
      PROVE  TypeOK'
  <2>1. readies' \in [Correct -> [Nodes -> Roots \cup {None}]]
    BY <1>4 DEF RecvReady
  <2>2. readySent' \in [Correct -> Roots \cup {None}]
    BY <1>4, HelperTypes DEF RecvReady
  <2>3. output' \in [Correct -> Values \cup {None, Failed}]
    BY <1>4, HelperTypes DEF RecvReady
  <2> QED BY <1>4, <2>1, <2>2, <2>3 DEF RecvReady
<1>5. CASE UNCHANGED vars
  BY <1>5 DEF vars
<1> QED BY <1>1, <1>2, <1>3, <1>4, <1>5 DEF Next

(* Types are preserved by every run of reliablebroadcast.                  *)
THEOREM TypeCorrect == Spec => []TypeOK
BY InitType, NextType, PTL DEF Spec

-----------------------------------------------------------------------------
(* A quorum of echoes is never lost: accepted echoes are never overwritten.*)
LEMMA EchoQuorumStable ==
  ASSUME TypeOK, [Next]_vars, NEW r \in Roots, EchoQuorum(r)
  PROVE  \E p \in Correct : Cardinality(Senders(echoes'[p], r)) >= EchoThreshold
<1>1. PICK p \in Correct : Cardinality(Senders(echoes[p], r)) >= EchoThreshold
  BY DEF EchoQuorum
<1>2. \A q \in Nodes : echoes[p][q] = r => echoes'[p][q] = r
  BY DistinctAssumption
     DEF TypeOK, Next, vars, LeaderInput, RecvVal, RecvEcho, RecvReady
<1>3. /\ Cardinality(Senders(echoes[p], r)) <= Cardinality(Senders(echoes'[p], r))
      /\ Senders(echoes[p], r) \in SUBSET Nodes
      /\ Senders(echoes'[p], r) \in SUBSET Nodes
  BY <1>2, SendersGrow
<1>4. Cardinality(Senders(echoes'[p], r)) >= EchoThreshold
  BY <1>1, <1>3, NodeSets, ResilienceAssumption DEF EchoThreshold
<1> QED BY <1>4

(* f+1 readies for one root include one of a correct node.                 *)
LEMMA ReadyWitness ==
  ASSUME ReceivedWasSent, NEW p \in Correct, NEW r \in Roots,
         Cardinality(Senders(readies[p], r)) >= ReadyThreshold
  PROVE  \E q \in Correct : readySent[q] = r
<1>1. Senders(readies[p], r) \in SUBSET Nodes
  BY DEF Senders
<1>2. PICK q \in Correct : q \in Senders(readies[p], r)
  BY <1>1, CorrectWitness DEF ReadyThreshold
<1> QED BY <1>2, DistinctAssumption DEF ReceivedWasSent, Senders

(* Two quorums of echoes are for the same root.                            *)
LEMMA EchoQuorumUnique ==
  ASSUME ReceivedWasSent, NEW r \in Roots, NEW s \in Roots, EchoQuorum(r), EchoQuorum(s)
  PROVE  r = s
<1>1. PICK p \in Correct : Cardinality(Senders(echoes[p], r)) >= N - f
  BY DEF EchoQuorum, EchoThreshold
<1>2. PICK p2 \in Correct : Cardinality(Senders(echoes[p2], s)) >= N - f
  BY DEF EchoQuorum, EchoThreshold
<1>3. Senders(echoes[p], r) \in SUBSET Nodes /\ Senders(echoes[p2], s) \in SUBSET Nodes
  BY DEF Senders
<1>4. PICK q \in Correct : q \in Senders(echoes[p], r) /\ q \in Senders(echoes[p2], s)
  BY <1>1, <1>2, <1>3, QuorumsMeet
<1> QED BY <1>4, DistinctAssumption DEF ReceivedWasSent, Senders

(* Behind a READY for r there is an echo of a correct node for r.          *)
LEMMA EchoWitness ==
  ASSUME ReceivedWasSent, NEW r \in Roots, EchoQuorum(r)
  PROVE  \E q \in Correct : fromLeader[q] = r
<1>1. PICK p \in Correct : Cardinality(Senders(echoes[p], r)) >= N - f
  BY DEF EchoQuorum, EchoThreshold
<1>2. Senders(echoes[p], r) \in SUBSET Nodes
  BY DEF Senders
<1>3. PICK q \in Correct : q \in Senders(echoes[p], r)
  BY <1>1, <1>2, QuorumsMeet
<1> QED BY <1>3, DistinctAssumption DEF ReceivedWasSent, Senders

-----------------------------------------------------------------------------
LEMMA InitInv == Init => IInv
<1> SUFFICES ASSUME Init PROVE IInv
  OBVIOUS
<1>1. ReceivedWasSent
  BY DEF Init, ReceivedWasSent, Correct
<1>2. ReadyBacked /\ OutputBacked /\ ValFromInput
  BY DEF Init, ReadyBacked, OutputBacked, ValFromInput
<1> QED BY <1>1, <1>2, InitType DEF IInv

(* What correct peers sent never changes once sent.                        *)
LEMMA SentStable ==
  ASSUME TypeOK, [Next]_vars, NEW q \in Correct
  PROVE  /\ fromLeader[q] # None => fromLeader'[q] = fromLeader[q]
         /\ readySent[q] # None => readySent'[q] = readySent[q]
<1> USE DEF TypeOK
<1>1. ASSUME NEW v \in Values, LeaderInput(v)
      PROVE  fromLeader' = fromLeader /\ readySent' = readySent
  BY <1>1 DEF LeaderInput
<1>2. ASSUME NEW p \in Correct, NEW r \in Roots, RecvVal(p, r)
      PROVE  /\ fromLeader[q] # None => fromLeader'[q] = fromLeader[q]
             /\ readySent' = readySent
  BY <1>2 DEF RecvVal
<1>3. ASSUME NEW p \in Correct, NEW u \in Nodes, NEW r \in Roots, RecvEcho(p, u, r)
      PROVE  /\ fromLeader' = fromLeader
             /\ readySent[q] # None => readySent'[q] = readySent[q]
  BY <1>3 DEF RecvEcho, ReadyAfterEcho
<1>4. ASSUME NEW p \in Correct, NEW u \in Nodes, NEW r \in Roots, RecvReady(p, u, r)
      PROVE  /\ fromLeader' = fromLeader
             /\ readySent[q] # None => readySent'[q] = readySent[q]
  BY <1>4 DEF RecvReady, ReadyAfterReady
<1> QED BY <1>1, <1>2, <1>3, <1>4 DEF Next, vars

LEMMA NextReceived == IInv /\ [Next]_vars => ReceivedWasSent'
<1> SUFFICES ASSUME IInv, [Next]_vars, NEW p \in Correct, NEW q \in Correct
             PROVE  /\ echoes'[p][q] \in {None, fromLeader'[q]}
                    /\ readies'[p][q] \in {None, readySent'[q]}
  BY DEF ReceivedWasSent
<1>1. TypeOK /\ ReceivedWasSent
  BY DEF IInv
<1>2. q \in Nodes
  BY DEF Correct
<1>3. /\ echoes'[p][q] = echoes[p][q] \/ (echoes'[p][q] = fromLeader[q] /\ fromLeader[q] \in Roots)
      /\ readies'[p][q] = readies[p][q] \/ (readies'[p][q] = readySent[q] /\ readySent[q] \in Roots)
  <2> USE <1>1, <1>2 DEF TypeOK
  <2>1. ASSUME NEW v \in Values, LeaderInput(v) PROVE echoes' = echoes /\ readies' = readies
    BY <2>1 DEF LeaderInput
  <2>2. ASSUME NEW t \in Correct, NEW r \in Roots, RecvVal(t, r)
        PROVE  echoes' = echoes /\ readies' = readies
    BY <2>2 DEF RecvVal
  <2>3. ASSUME NEW t \in Correct, NEW u \in Nodes, NEW r \in Roots, RecvEcho(t, u, r)
        PROVE  /\ readies' = readies
               /\ \/ echoes'[p][q] = echoes[p][q]
                  \/ echoes'[p][q] = fromLeader[q] /\ fromLeader[q] \in Roots
    BY <2>3 DEF RecvEcho
  <2>4. ASSUME NEW t \in Correct, NEW u \in Nodes, NEW r \in Roots, RecvReady(t, u, r)
        PROVE  /\ echoes' = echoes
               /\ \/ readies'[p][q] = readies[p][q]
                  \/ readies'[p][q] = readySent[q] /\ readySent[q] \in Roots
    BY <2>4 DEF RecvReady
  <2> QED BY <2>1, <2>2, <2>3, <2>4 DEF Next, vars
<1> QED BY <1>1, <1>3, SentStable, DistinctAssumption DEF ReceivedWasSent

LEMMA NextReady == IInv /\ [Next]_vars => ReadyBacked'
<1> SUFFICES ASSUME IInv, [Next]_vars, NEW p \in Correct, readySent'[p] # None
             PROVE  \E w \in Correct :
                      Cardinality(Senders(echoes'[w], readySent'[p])) >= EchoThreshold
  BY DEF ReadyBacked, EchoQuorum
<1>1. TypeOK /\ TypeOK' /\ ReadyBacked /\ ReceivedWasSent /\ ReceivedWasSent'
  BY NextType, NextReceived DEF IInv
<1>2. readySent[p] \in Roots \cup {None} /\ readySent'[p] \in Roots
  BY <1>1 DEF TypeOK
<1>3. CASE readySent[p] # None
  <2>1. readySent'[p] = readySent[p] /\ EchoQuorum(readySent[p])
    BY <1>1, <1>3, SentStable DEF ReadyBacked
  <2> QED BY <1>1, <1>2, <2>1, EchoQuorumStable
<1>4. CASE readySent[p] = None
  <2>1. \/ \E q \in Nodes, r \in Roots : RecvEcho(p, q, r) /\ readySent'[p] = r
        \/ \E q \in Nodes, r \in Roots : RecvReady(p, q, r) /\ readySent'[p] = r
    <3>1. \E q \in Nodes, r \in Roots : RecvEcho(p, q, r) \/ RecvReady(p, q, r)
      <4>1. readySent'[p] # readySent[p]
        BY <1>4
      <4>2. ASSUME NEW v \in Values, LeaderInput(v) PROVE FALSE
        BY <4>1, <4>2 DEF LeaderInput
      <4>3. ASSUME NEW t \in Correct, NEW r \in Roots, RecvVal(t, r) PROVE FALSE
        BY <4>1, <4>3 DEF RecvVal
      <4>4. ASSUME NEW t \in Correct, NEW q \in Nodes, NEW r \in Roots,
                   RecvEcho(t, q, r) \/ RecvReady(t, q, r)
            PROVE  t = p
        BY <1>1, <4>1, <4>4 DEF RecvEcho, RecvReady, TypeOK
      <4> QED BY <4>1, <4>2, <4>3, <4>4 DEF Next, vars
    <3>2. ASSUME NEW q \in Nodes, NEW r \in Roots, RecvEcho(p, q, r) PROVE readySent'[p] = r
      BY <1>1, <1>4, <3>2 DEF RecvEcho, ReadyAfterEcho, TypeOK
    <3>3. ASSUME NEW q \in Nodes, NEW r \in Roots, RecvReady(p, q, r) PROVE readySent'[p] = r
      BY <1>1, <1>4, <3>3 DEF RecvReady, ReadyAfterReady, TypeOK
    <3> QED BY <3>1, <3>2, <3>3
  <2>2. ASSUME NEW q \in Nodes, NEW r \in Roots, RecvEcho(p, q, r), readySent'[p] = r
        PROVE  \E w \in Correct : Cardinality(Senders(echoes'[w], r)) >= EchoThreshold
    <3>1. readySent'[p] = ReadyAfterEcho(echoes'[p], r, readySent[p])
      BY <1>1, <2>2 DEF RecvEcho, TypeOK
    <3>2. Cardinality(Senders(echoes'[p], r)) >= EchoThreshold
      BY <1>4, <2>2, <3>1, DistinctAssumption DEF ReadyAfterEcho
    <3> QED BY <3>2
  <2>3. ASSUME NEW q \in Nodes, NEW r \in Roots, RecvReady(p, q, r), readySent'[p] = r
        PROVE  \E w \in Correct : Cardinality(Senders(echoes'[w], r)) >= EchoThreshold
    <3>1. readySent'[p] = ReadyAfterReady(readies'[p], r, readySent[p])
      BY <1>1, <2>3 DEF RecvReady, TypeOK
    <3>2. Cardinality(Senders(readies'[p], r)) >= ReadyThreshold
      BY <1>4, <2>3, <3>1, DistinctAssumption DEF ReadyAfterReady
    <3>3. PICK w \in Correct : w \in Senders(readies'[p], r)
      <4>1. Senders(readies'[p], r) \in SUBSET Nodes
        BY DEF Senders
      <4> QED BY <3>2, <4>1, CorrectWitness DEF ReadyThreshold
    <3>4. readies'[p][w] = r
      BY <3>3 DEF Senders
    <3>5. readySent[w] = r
      <4>1. CASE w = q
        BY <2>3, <4>1 DEF RecvReady
      <4>2. CASE w # q
        <5>1. readies[p][w] = r
          BY <1>1, <2>3, <3>4, <4>2 DEF RecvReady, TypeOK
        <5> QED BY <1>1, <5>1, DistinctAssumption DEF ReceivedWasSent
      <4> QED BY <4>1, <4>2
    <3>6. EchoQuorum(r)
      BY <1>1, <3>5, DistinctAssumption DEF ReadyBacked
    <3> QED BY <1>1, <3>6, EchoQuorumStable
  <2> QED BY <2>1, <2>2, <2>3
<1> QED BY <1>3, <1>4

LEMMA NextOutput == IInv /\ [Next]_vars => OutputBacked'
<1> SUFFICES ASSUME IInv, [Next]_vars, NEW p \in Correct, output'[p] # None
             PROVE  \E r \in Roots :
                      /\ output'[p] = decode_output(r)
                      /\ Cardinality(Senders(readies'[p], r)) >= OutputThreshold
  BY DEF OutputBacked, decode_output
<1>1. TypeOK /\ OutputBacked
  BY DEF IInv
<1>2. CASE output[p] # None
  <2>1. output'[p] = output[p] /\ readies'[p] = readies[p]
    BY <1>1, <1>2
       DEF TypeOK, Next, vars, LeaderInput, RecvVal, RecvEcho, RecvReady, Receiving
  <2> QED BY <1>1, <1>2, <2>1 DEF OutputBacked
<1>3. CASE output[p] = None
  <2>1. \E r \in Roots : output'[p] = OutputAfter(echoes'[p], readies'[p], r)
    <3>1. \E q \in Nodes, r \in Roots : RecvEcho(p, q, r) \/ RecvReady(p, q, r)
      BY <1>1, <1>3 DEF TypeOK, Next, vars, LeaderInput, RecvVal, RecvEcho, RecvReady
    <3> QED BY <1>1, <3>1 DEF RecvEcho, RecvReady, TypeOK
  <2> QED BY <2>1 DEF OutputAfter, OutputTest
<1> QED BY <1>2, <1>3

LEMMA NextVal == IInv /\ [Next]_vars => ValFromInput'
<1> SUFFICES ASSUME IInv, [Next]_vars, Leader \in Correct, NEW p \in Correct
             PROVE  fromLeader'[p] \in {None, input'}
  BY DEF ValFromInput
<1>1. TypeOK /\ fromLeader[p] \in {None, input}
  BY DEF IInv, ValFromInput
<1>2. input # None => input' = input
  BY DEF Next, vars, LeaderInput, RecvVal, RecvEcho, RecvReady
<1>3. fromLeader'[p] \in {fromLeader[p], input}
  BY <1>1 DEF TypeOK, Next, vars, LeaderInput, RecvVal, RecvEcho, RecvReady
<1>4. fromLeader'[p] # fromLeader[p] => input' = input
  BY <1>1 DEF TypeOK, Next, vars, LeaderInput, RecvVal, RecvEcho, RecvReady
<1> QED BY <1>1, <1>2, <1>3, <1>4

(* The invariant holds in every run.                                       *)
THEOREM Invariance == Spec => []IInv
<1>1. IInv /\ [Next]_vars => IInv'
  BY NextType, NextReceived, NextReady, NextOutput, NextVal DEF IInv
<1> QED BY <1>1, InitInv, PTL DEF Spec

-----------------------------------------------------------------------------
(* READYs of correct nodes agree in every state of the invariant.          *)
LEMMA InvReadyUnique == IInv => ReadyUnique
<1> SUFFICES ASSUME IInv, NEW p \in Correct, NEW q \in Correct,
                    readySent[p] # None, readySent[q] # None
             PROVE  readySent[p] = readySent[q]
  BY DEF ReadyUnique
<1>1. readySent[p] \in Roots /\ readySent[q] \in Roots
  BY DEF IInv, TypeOK
<1>2. EchoQuorum(readySent[p]) /\ EchoQuorum(readySent[q]) /\ ReceivedWasSent
  BY DEF IInv, ReadyBacked
<1> QED BY <1>1, <1>2, EchoQuorumUnique

(* An outcome comes from a root some correct node announced.               *)
LEMMA OutputReady ==
  ASSUME IInv, NEW p \in Correct, output[p] # None
  PROVE  \E r \in Roots, q \in Correct : output[p] = decode_output(r) /\ readySent[q] = r
<1>1. PICK r \in Roots : /\ output[p] = decode_output(r)
                         /\ Cardinality(Senders(readies[p], r)) >= OutputThreshold
  BY DEF IInv, OutputBacked
<1>2. Cardinality(Senders(readies[p], r)) >= ReadyThreshold
  <2>1. Cardinality(Senders(readies[p], r)) \in Nat
    BY NodeSets DEF Senders
  <2> QED BY <1>1, <2>1, ResilienceAssumption DEF OutputThreshold, ReadyThreshold
<1> QED BY <1>1, <1>2, ReadyWitness DEF IInv

LEMMA InvAgreement == IInv => Agreement
<1> SUFFICES ASSUME IInv, NEW p \in Correct, NEW q \in Correct,
                    output[p] # None, output[q] # None
             PROVE  output[p] = output[q]
  BY DEF Agreement
<1>1. PICK r \in Roots, u \in Correct : output[p] = decode_output(r) /\ readySent[u] = r
  BY OutputReady
<1>2. PICK s \in Roots, w \in Correct : output[q] = decode_output(s) /\ readySent[w] = s
  BY OutputReady
<1>3. r = s
  BY <1>1, <1>2, InvReadyUnique, DistinctAssumption DEF ReadyUnique
<1> QED BY <1>1, <1>2, <1>3

LEMMA InvValidity == IInv => Validity
<1> SUFFICES ASSUME IInv, Leader \in Correct, NEW p \in Correct, output[p] # None
             PROVE  output[p] = input
  BY DEF Validity
<1>1. PICK r \in Roots, u \in Correct : output[p] = decode_output(r) /\ readySent[u] = r
  BY OutputReady
<1>2. EchoQuorum(r) /\ ReceivedWasSent
  BY <1>1, DistinctAssumption DEF IInv, ReadyBacked
<1>3. PICK w \in Correct : fromLeader[w] = r
  BY <1>2, EchoWitness
<1>4. r = input
  BY <1>3, DistinctAssumption DEF IInv, ValFromInput
<1>5. input \in Values
  BY <1>4, DistinctAssumption DEF IInv, TypeOK
<1> QED BY <1>1, <1>4, <1>5 DEF decode_output

LEMMA InvDecodable == IInv => Decodable
<1> SUFFICES ASSUME IInv, NEW p \in Correct, output[p] # None
             PROVE  \E r \in Roots : /\ output[p] = decode_output(r)
                                     /\ Cardinality({q \in Correct : fromLeader[q] = r}) >= K
  BY DEF Decodable
<1>1. PICK r \in Roots, u \in Correct : output[p] = decode_output(r) /\ readySent[u] = r
  BY OutputReady
<1>2. EchoQuorum(r) /\ ReceivedWasSent
  BY <1>1, DistinctAssumption DEF IInv, ReadyBacked
<1>3. PICK w \in Correct : Cardinality(Senders(echoes[w], r)) >= N - f
  BY <1>2 DEF EchoQuorum, EchoThreshold
<1> DEFINE S == Senders(echoes[w], r)
           T == {q \in Correct : fromLeader[q] = r}
<1>4. S \in SUBSET Nodes /\ T \in SUBSET Nodes /\ S \cap Correct \in SUBSET T
  BY <1>2, DistinctAssumption DEF Senders, Correct, ReceivedWasSent
<1>5. Cardinality(S \cap Correct) >= Cardinality(S) - f
  BY <1>4, CorrectMany
<1>6. Cardinality(S \cap Correct) <= Cardinality(T)
  BY <1>4, CountMonotone
<1>7. /\ Cardinality(S) \in Nat /\ Cardinality(S \cap Correct) \in Nat
      /\ Cardinality(T) \in Nat /\ N \in Nat
  <2>1. S \cap Correct \in SUBSET Nodes
    BY <1>4
  <2> QED BY <1>4, <2>1, NodeSets
<1>8. Cardinality(S) >= N - f
  BY <1>3
<1> HIDE DEF S, T
<1>9. Cardinality(T) >= K
  BY <1>5, <1>6, <1>7, <1>8, ResilienceAssumption DEF K
<1> QED BY <1>1, <1>9 DEF T

(* No two correct nodes leave the broadcast differently, whatever up to f  *)
(* faulty nodes, the leader included, send.                                *)
THEOREM AgreementHolds == Spec => []Agreement
BY Invariance, InvAgreement, PTL

(* Correct nodes return nothing but a correct leader's input.              *)
THEOREM ValidityHolds == Spec => []Validity
BY Invariance, InvValidity, PTL

(* Correct nodes announce READY for one root only.                         *)
THEOREM ReadyUniqueHolds == Spec => []ReadyUnique
BY Invariance, InvReadyUnique, PTL

(* When one correct node finished, correct nodes have echoed K stripes of  *)
(* its root, so every correct node can decode it.                          *)
THEOREM DecodableHolds == Spec => []Decodable
BY Invariance, InvDecodable, PTL

-----------------------------------------------------------------------------
(* An echo or ready that makes p finish is a delivery of the abstract      *)
(* broadcast.                                                              *)
LEMMA OutputIsDelivery ==
  ASSUME IInv, IInv', input' = input, NEW p \in Correct, NEW o \in Values \cup {None, Failed},
         output[p] = None, output' = [output EXCEPT ![p] = o]
  PROVE  [Broadcast!Next]_(Broadcast!vars)
<1>1. CASE o = None
  <2>1. output' = output
    BY <1>1 DEF IInv, TypeOK
  <2> QED BY <2>1 DEF Broadcast!vars
<1>2. CASE o # None
  <2>1. output'[p] = o
    BY DEF IInv, TypeOK
  <2>2. Agreement' /\ Validity'
    BY InvAgreement, InvValidity, PTL
  <2>3. \A q \in Correct : output[q] \in {None, o}
    BY <1>2, <2>1, <2>2 DEF Agreement, IInv, TypeOK
  <2>4. Leader \in Correct => o = input
    BY <1>2, <2>1, <2>2 DEF Validity
  <2>5. Broadcast!Deliver(p, o)
    BY <1>2, <2>3, <2>4 DEF Broadcast!Deliver
  <2> QED BY <1>2, <2>5 DEF Broadcast!Next
<1> QED BY <1>1, <1>2

(* reliablebroadcast implements the abstract broadcast: what every caller  *)
(* of it may assume holds of the message-level protocol.                   *)
THEOREM Refinement == Spec => BroadcastSafety
<1>1. Init => Broadcast!Init
  BY DEF Init, Broadcast!Init
<1>2. IInv /\ IInv' /\ [Next]_vars => [Broadcast!Next]_(Broadcast!vars)
  <2> SUFFICES ASSUME IInv, IInv', [Next]_vars PROVE [Broadcast!Next]_(Broadcast!vars)
    OBVIOUS
  <2>1. ASSUME NEW v \in Values, LeaderInput(v) PROVE Broadcast!Next
    BY <2>1 DEF LeaderInput, Broadcast!Input, Broadcast!Next
  <2>2. ASSUME NEW p \in Correct, NEW r \in Roots, RecvVal(p, r) PROVE UNCHANGED Broadcast!vars
    BY <2>2 DEF RecvVal, Broadcast!vars
  <2>3. ASSUME NEW p \in Correct, NEW q \in Nodes, NEW r \in Roots, RecvEcho(p, q, r)
        PROVE  [Broadcast!Next]_(Broadcast!vars)
    BY <2>3, OutputIsDelivery, HelperTypes DEF RecvEcho, Receiving, IInv, TypeOK
  <2>4. ASSUME NEW p \in Correct, NEW q \in Nodes, NEW r \in Roots, RecvReady(p, q, r)
        PROVE  [Broadcast!Next]_(Broadcast!vars)
    BY <2>4, OutputIsDelivery, HelperTypes DEF RecvReady, Receiving, IInv, TypeOK
  <2>5. CASE UNCHANGED vars
    BY <2>5 DEF vars, Broadcast!vars
  <2> QED BY <2>1, <2>2, <2>3, <2>4, <2>5 DEF Next
<1> QED BY <1>1, <1>2, Invariance, PTL DEF Spec, BroadcastSafety, Broadcast!Spec
=============================================================================
