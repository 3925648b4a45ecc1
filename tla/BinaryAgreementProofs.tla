-------------------------- MODULE BinaryAgreementProofs --------------------------
(***************************************************************************)
(* binaryagreement decides one bit, some correct node's input, and a       *)
(* decision binds all later rounds: for all N >= 3f + 1, bounds on the     *)
(* rounds, coins and behaviours of the faulty nodes.                       *)
(*                                                                         *)
(* The argument: two quorums of CONF meet in a correct node, so a round    *)
(* has at most one bit with a quorum; a round is started with that bit or  *)
(* with the coin; where a decision was made the two are the same.          *)
(***************************************************************************)
EXTENDS BinaryAgreement, ParticipantsProofs

RoundsPlus == 0 .. MaxRound + 1

(* The rounds that are run, and the one after them.                        *)
LEMMA RoundSets ==
  /\ Rounds \subseteq RoundsPlus /\ 0 \in RoundsPlus /\ RoundsPlus \subseteq Nat
  /\ \A r \in Rounds : r + 1 \in RoundsPlus
BY RoundAssumption DEF Rounds, RoundsPlus

(* Rounds are compared as natural numbers.                                 *)
LEMMA RoundOrder ==
  /\ \A r \in RoundsPlus : r \in Nat /\ 0 <= r
  /\ \A r, r2 \in RoundsPlus : r < r2 \/ r2 < r \/ r = r2
<1>1. \A r \in RoundsPlus : r \in Nat /\ 0 <= r
  BY RoundSets
<1>2. \A m, n \in Nat : m < n \/ n < m \/ m = n
  OBVIOUS
<1> QED BY <1>1, <1>2

(* Writing one entry of a table of nodes and rounds.                       *)
LEMMA TableSet ==
  ASSUME NEW V, NEW t \in [Correct -> [RoundsPlus -> V]], NEW p \in Correct,
         NEW r \in RoundsPlus, NEW x \in V, NEW t2, t2 = [t EXCEPT ![p][r] = x]
  PROVE  /\ t2 \in [Correct -> [RoundsPlus -> V]]
         /\ \A q \in Correct, r2 \in RoundsPlus :
              t2[q][r2] = IF q = p /\ r2 = r THEN x ELSE t[q][r2]
OBVIOUS

(* The tables of TypeOK, over RoundsPlus.                                  *)
LEMMA Tables ==
  ASSUME TypeOK
  PROVE  /\ est_sent \in [Correct -> [RoundsPlus -> SUBSET Bits]]
         /\ bin_values \in [Correct -> [RoundsPlus -> SUBSET Bits]]
         /\ conf_sent \in [Correct -> [RoundsPlus -> SUBSET Bits]]
         /\ \A p \in Correct, r \in RoundsPlus : bin_values[p][r] \in SUBSET Bits
<1>1. /\ est_sent \in [Correct -> [RoundsPlus -> SUBSET Bits]]
      /\ bin_values \in [Correct -> [RoundsPlus -> SUBSET Bits]]
      /\ conf_sent \in [Correct -> [RoundsPlus -> SUBSET Bits]]
  BY DEF TypeOK, RoundsPlus
<1> QED BY <1>1

(* Hearing fewer faulty nodes gives no higher count of any kind.           *)
LEMMA CountOfAll ==
  ASSUME NEW S \in SUBSET Correct, NEW F \in SUBSET Faulty
  PROVE  /\ S \cup F \in SUBSET Nodes /\ S \cup Faulty \in SUBSET Nodes
         /\ Cardinality(S \cup F) <= Cardinality(S \cup Faulty)
         /\ Cardinality(S \cup F) \in Nat /\ Cardinality(S \cup Faulty) \in Nat
<1>1. S \cup Faulty \in SUBSET Nodes /\ S \cup F \in SUBSET (S \cup Faulty)
  BY NodesAssumption DEF Correct
<1> QED BY <1>1, CountMonotone, NodeSets

(* Whatever passes the relay threshold was sent by a correct node: what    *)
(* line 118 of binaryagreement.py relies on.                               *)
LEMMA RelayedWasSent ==
  ASSUME NEW r, NEW v, NEW F \in SUBSET Faulty, EstCount(r, v, F) >= RelayThreshold
  PROVE  EstOut(r, v)
<1> DEFINE S == {q \in Correct : v \in est_sent[q][r]}
<1>1. S \cup F \in SUBSET Nodes /\ Cardinality(S \cup F) >= f + 1
  BY CountOfAll DEF EstCount, RelayThreshold
<1>2. PICK q \in Correct : q \in S \cup F
  BY <1>1, CorrectWitness
<1> QED BY <1>2 DEF Correct, EstOut

(* A quorum of CONF holds a correct node's.                                *)
LEMMA ConfQuorumWitness ==
  ASSUME NEW r, NEW v, ConfQuorum(r, v)
  PROVE  \E q \in Correct : conf_sent[q][r] = {v}
<1> DEFINE S == {q \in Correct : conf_sent[q][r] = {v}}
<1>1. S \cup Faulty \in SUBSET Nodes /\ Cardinality(S \cup Faulty) >= N - f
  BY CountOfAll DEF ConfQuorum, ConfCount, WaitThreshold
<1>2. Cardinality(S \cup Faulty) >= f + 1
  BY <1>1, NodeSets, ResilienceAssumption
<1>3. PICK q \in Correct : q \in S \cup Faulty
  BY <1>1, <1>2, CorrectWitness
<1> QED BY <1>3 DEF Correct

(* A round has a quorum of CONF for at most one bit.                       *)
LEMMA ConfQuorumUnique ==
  ASSUME NEW r, NEW v, NEW w, ConfQuorum(r, v), ConfQuorum(r, w)
  PROVE  v = w
<1> DEFINE S(u) == {q \in Correct : conf_sent[q][r] = {u}} \cup Faulty
<1>1. S(v) \in SUBSET Nodes /\ Cardinality(S(v)) >= N - f
  BY CountOfAll DEF ConfQuorum, ConfCount, WaitThreshold
<1>2. S(w) \in SUBSET Nodes /\ Cardinality(S(w)) >= N - f
  BY CountOfAll DEF ConfQuorum, ConfCount, WaitThreshold
<1>3. PICK q \in Correct : q \in S(v) /\ q \in S(w)
  BY <1>1, <1>2, QuorumsMeet
<1> QED BY <1>3 DEF Correct

(* Sending CONF adds to a quorum and takes nothing from one.               *)
LEMMA ConfQuorumGrows ==
  ASSUME NEW r, NEW v, ConfQuorum(r, v),
         \A q \in Correct : conf_sent[q][r] = {v} => conf_sent'[q][r] = {v}
  PROVE  ConfQuorum(r, v)'
<1> DEFINE S == {q \in Correct : conf_sent[q][r] = {v}} \cup Faulty
           T == {q \in Correct : conf_sent'[q][r] = {v}} \cup Faulty
<1>1. T \in SUBSET Nodes /\ S \in SUBSET T
  BY NodesAssumption DEF Correct
<1>2. Cardinality(S) <= Cardinality(T) /\ Cardinality(S) \in Nat /\ Cardinality(T) \in Nat
  BY <1>1, CountMonotone, NodeSets
<1>3. WaitThreshold \in Int
  BY NodeSets, ResilienceAssumption DEF WaitThreshold
<1> QED BY <1>2, <1>3 DEF ConfQuorum, ConfCount

(* A count of CONF that suffices with the faulty nodes heard is a quorum,  *)
(* also at a node that heard only what was there when its loop ended.      *)
LEMMA HeardQuorum ==
  ASSUME HeardSent, NEW p \in Correct, NEW r \in Rounds, NEW v, NEW F \in SUBSET Faulty,
         ConfCount(ConfTo(p), r, {v}, F) >= WaitThreshold
  PROVE  ConfQuorum(r, v)
<1> DEFINE T == {q \in Correct : ConfTo(p)[q][r] = {v}}
           S == {q \in Correct : conf_sent[q][r] = {v}}
<1>t. T \subseteq S
  BY DEF ConfTo, HeardSent
<1>1. /\ Cardinality(T \cup F) <= Cardinality(S \cup Faulty)
      /\ Cardinality(T \cup F) \in Nat /\ Cardinality(S \cup Faulty) \in Nat
  <2>1. S \cup Faulty \in SUBSET Nodes /\ T \cup F \in SUBSET (S \cup Faulty)
    BY <1>t, NodesAssumption DEF Correct
  <2> QED BY <2>1, CountMonotone, NodeSets
<1>2. WaitThreshold \in Int
  BY NodeSets, ResilienceAssumption DEF WaitThreshold
<1> QED BY <1>1, <1>2 DEF ConfQuorum, ConfCount

(* What a node heard before its loop ended stays what was sent: a CONF     *)
(* that is out is not changed.                                             *)
LEMMA HeardKept ==
  ASSUME ReceivedOK, HeardSent, UNCHANGED received,
         \A q \in Correct, r \in Rounds :
           conf_sent[q][r] # {} => conf_sent'[q][r] = conf_sent[q][r]
  PROVE  ReceivedOK' /\ HeardSent'
<1>1. deaf' = deaf /\ heard' = heard
  BY DEF received
<1>2. ReceivedOK'
  BY <1>1 DEF ReceivedOK
<1>3. HeardSent'
  BY <1>1 DEF HeardSent
<1> QED BY <1>2, <1>3

(* One more EST: what correct nodes have sent grows by that bit.           *)
LEMMA EstAdded ==
  ASSUME TypeOK, NEW p \in Correct, NEW r \in RoundsPlus, NEW v \in Bits,
         est_sent' = [est_sent EXCEPT ![p][r] = @ \cup {v}]
  PROVE  /\ est_sent' \in [Correct -> [0 .. MaxRound + 1 -> SUBSET Bits]]
         /\ \A q \in Correct, r2 \in RoundsPlus : est_sent[q][r2] \subseteq est_sent'[q][r2]
         /\ v \in est_sent'[p][r]
         /\ \A r2 \in RoundsPlus, w \in Bits :
              EstOut(r2, w)' <=> (EstOut(r2, w) \/ (r2 = r /\ w = v))
<1>1. est_sent \in [Correct -> [RoundsPlus -> SUBSET Bits]]
  BY DEF TypeOK, RoundsPlus
<1>2. est_sent' \in [Correct -> [RoundsPlus -> SUBSET Bits]]
  BY <1>1
<1>3. \A q \in Correct, r2 \in RoundsPlus : est_sent[q][r2] \subseteq est_sent'[q][r2]
  BY <1>1
<1>4. v \in est_sent'[p][r]
  BY <1>1
<1>5. \A q \in Correct, r2 \in RoundsPlus, w \in Bits :
        w \in est_sent'[q][r2] <=> (w \in est_sent[q][r2] \/ (q = p /\ r2 = r /\ w = v))
  BY <1>1
<1>6. ASSUME NEW r2 \in RoundsPlus, NEW w \in Bits
      PROVE  EstOut(r2, w)' <=> (EstOut(r2, w) \/ (r2 = r /\ w = v))
  BY <1>5, <1>6 DEF EstOut
<1> QED BY <1>2, <1>3, <1>4, <1>6 DEF RoundsPlus

(* A relay adds a bit that is out already.                                 *)
LEMMA EstRelayed ==
  ASSUME IInv, NEW p \in Correct, NEW r \in Rounds, NEW v \in Bits, EstOut(r, v),
         est_sent' = [est_sent EXCEPT ![p][r] = @ \cup {v}],
         UNCHANGED <<phase, round, est, vi>>
  PROVE  /\ est_sent' \in [Correct -> [0 .. MaxRound + 1 -> SUBSET Bits]]
         /\ \A r2 \in RoundsPlus, w \in Bits : EstOut(r2, w)' <=> EstOut(r2, w)
         /\ EstimateSent'
         /\ InputsOnly'
         /\ RoundsShrink'
<1>1. TypeOK /\ r \in RoundsPlus
  BY RoundSets DEF IInv
<1>2. /\ est_sent' \in [Correct -> [0 .. MaxRound + 1 -> SUBSET Bits]]
      /\ \A q \in Correct, r2 \in RoundsPlus : est_sent[q][r2] \subseteq est_sent'[q][r2]
      /\ \A r2 \in RoundsPlus, w \in Bits : EstOut(r2, w)' <=> EstOut(r2, w)
  <2>1. /\ est_sent' \in [Correct -> [0 .. MaxRound + 1 -> SUBSET Bits]]
        /\ \A q \in Correct, r2 \in RoundsPlus : est_sent[q][r2] \subseteq est_sent'[q][r2]
        /\ \A r2 \in RoundsPlus, w \in Bits :
             EstOut(r2, w)' <=> (EstOut(r2, w) \/ (r2 = r /\ w = v))
    BY <1>1, EstAdded
  <2> QED BY <2>1
<1>3. EstimateSent'
  BY <1>1, <1>2 DEF IInv, EstimateSent, TypeOK, RoundsPlus
<1>4. InputsOnly'
  BY <1>2, RoundSets DEF IInv, InputsOnly
<1>5. RoundsShrink'
  BY <1>2 DEF IInv, RoundsShrink, RoundsPlus
<1> QED BY <1>2, <1>3, <1>4, <1>5

(* Nothing has been sent.                                                  *)
LEMMA InitIInv == Init => IInv
<1> SUFFICES ASSUME Init PROVE IInv
  OBVIOUS
<1> USE DEF Init, PerRound
<1>0. ReceivedOK /\ HeardSent
  BY RoundSets DEF ReceivedOK, HeardSent, RoundsPlus
<1>1. TypeOK
  BY <1>0, RoundSets DEF TypeOK, Rounds, RoundsPlus, Bits
<1>2. \A r \in RoundsPlus, v \in Bits : ~EstOut(r, v)
  BY DEF EstOut, RoundsPlus
<1>3. InputAtStart /\ EstimateSent /\ CoinRounds /\ ValuesBacked /\ DecisionBacked
  BY DEF InputAtStart, EstimateSent, CoinRounds, ValuesBacked, DecisionBacked
<1>4. InputsOnly /\ RoundsShrink
  BY <1>2, RoundSets DEF InputsOnly, RoundsShrink, RoundsPlus
<1>5. BinValuesSent /\ ConfInOrder
  BY RoundSets DEF BinValuesSent, ConfInOrder, RoundsPlus
<1>6. RoundsLinked
  BY <1>2, RoundSets DEF RoundsLinked
<1> QED BY <1>0, <1>1, <1>3, <1>4, <1>5, <1>6 DEF IInv

(* An input is what round 0 carries.                                       *)
LEMMA InputIInv ==
  ASSUME IInv, NEW p \in Correct, NEW v \in Bits, Input(p, v)
  PROVE  IInv'
<1>t. TypeOK
  BY DEF IInv
<1>a. /\ phase[p] = "input"
      /\ phase' = [phase EXCEPT ![p] = "est"]
      /\ vi' = [vi EXCEPT ![p] = v]
      /\ est' = [est EXCEPT ![p] = v]
      /\ est_sent' = [est_sent EXCEPT ![p][0] = @ \cup {v}]
      /\ UNCHANGED <<round, bin_values, aux_sent, conf_sent, values, decided, decidedAt, coin, received>>
  BY DEF Input
<1>1. /\ est_sent' \in [Correct -> [0 .. MaxRound + 1 -> SUBSET Bits]]
      /\ \A q \in Correct, r2 \in RoundsPlus : est_sent[q][r2] \subseteq est_sent'[q][r2]
      /\ v \in est_sent'[p][0]
      /\ \A r2 \in RoundsPlus, w \in Bits :
           EstOut(r2, w)' <=> (EstOut(r2, w) \/ (r2 = 0 /\ w = v))
  BY <1>t, <1>a, RoundSets, EstAdded
<1>c. \A r, w : ConfQuorum(r, w)' <=> ConfQuorum(r, w)
  BY <1>a DEF ConfQuorum, ConfCount
<1>h. ReceivedOK' /\ HeardSent'
  BY <1>t, <1>a, HeardKept DEF IInv, TypeOK
<1>2. TypeOK'
  BY <1>h, <1>t, <1>a, <1>1 DEF TypeOK
<1>3. round[p] = 0
  BY <1>a, <1>t DEF IInv, InputAtStart
<1>4. InputAtStart' /\ EstimateSent' /\ CoinRounds'
  <2>1. InputAtStart' /\ CoinRounds'
    BY <1>t, <1>a DEF IInv, InputAtStart, CoinRounds, TypeOK
  <2>2. EstimateSent'
    BY <1>t, <1>a, <1>1, <1>3 DEF IInv, EstimateSent, TypeOK, RoundsPlus
  <2> QED BY <2>1, <2>2
<1>5. InputsOnly'
  <2> SUFFICES ASSUME NEW w \in Bits, EstOut(0, w)' PROVE \E q \in Correct : vi'[q] = w
    BY DEF InputsOnly
  <2>1. CASE w = v
    BY <2>1, <1>a, <1>t DEF TypeOK
  <2>2. CASE w # v
    <3>1. PICK q \in Correct : vi[q] = w
      BY <2>2, <1>1, RoundSets DEF IInv, InputsOnly
    <3>2. q # p
      BY <3>1, <1>a, NoneIsNoBit DEF IInv, InputAtStart, Bits
    <3> QED BY <3>1, <3>2, <1>a, <1>t DEF TypeOK
  <2> QED BY <2>1, <2>2
<1>6. RoundsShrink'
  BY <1>1, RoundSets DEF IInv, RoundsShrink, RoundsPlus
<1>7. (BinValuesSent /\ ConfInOrder)'
  BY <1>a, <1>1, <1>t, RoundSets DEF IInv, BinValuesSent, ConfInOrder, TypeOK
<1>8. (ValuesBacked /\ DecisionBacked)'
  <2>1. ValuesBacked'
    <3>1. \A q \in Correct : phase'[q] = "coin" => phase[q] = "coin" /\ round[q] \in RoundsPlus
      BY <1>a, <1>t DEF TypeOK, RoundsPlus
    <3> QED BY <1>a, <1>1, <1>c, <3>1 DEF IInv, ValuesBacked
  <2>2. DecisionBacked'
    BY <1>a, <1>c DEF IInv, DecisionBacked
  <2> QED BY <2>1, <2>2
<1>9. RoundsLinked'
  <2> SUFFICES ASSUME NEW r \in Rounds, NEW w \in Bits, EstOut(r + 1, w)'
               PROVE  coin'[r] # None /\ (ConfQuorum(r, w)' \/ coin'[r] = w)
    BY DEF RoundsLinked
  <2>1. r + 1 \in RoundsPlus /\ r + 1 # 0
    BY RoundSets
  <2>2. EstOut(r + 1, w)
    BY <2>1, <1>1
  <2> QED BY <2>2, <1>a, <1>c DEF IInv, RoundsLinked
<1> QED BY <1>h, <1>2, <1>4, <1>5, <1>6, <1>7, <1>8, <1>9 DEF IInv

(* A relay adds no bit to a round.                                         *)
LEMMA RelayEstIInv ==
  ASSUME IInv, NEW p \in Correct, NEW r \in Rounds, NEW v \in Bits, NEW F \in SUBSET Faulty,
         RelayEst(p, r, v, F)
  PROVE  IInv'
<1>t. TypeOK
  BY DEF IInv
<1>a. /\ est_sent' = [est_sent EXCEPT ![p][r] = @ \cup {v}]
      /\ EstOut(r, v)
      /\ UNCHANGED <<phase, round, est, vi, bin_values, aux_sent, conf_sent, values, decided,
                     decidedAt, coin, received>>
  BY RelayedWasSent DEF RelayEst
<1>1. /\ est_sent' \in [Correct -> [0 .. MaxRound + 1 -> SUBSET Bits]]
      /\ \A r2 \in RoundsPlus, w \in Bits : EstOut(r2, w)' <=> EstOut(r2, w)
      /\ EstimateSent' /\ InputsOnly' /\ RoundsShrink'
  BY <1>a, EstRelayed
<1>2. \A r2, w : ConfQuorum(r2, w)' <=> ConfQuorum(r2, w)
  BY <1>a DEF ConfQuorum, ConfCount
<1>h. ReceivedOK' /\ HeardSent'
  BY <1>t, <1>a, HeardKept DEF IInv, TypeOK
<1>3. TypeOK'
  BY <1>h, <1>t, <1>a, <1>1 DEF TypeOK
<1>4. InputAtStart' /\ ConfInOrder' /\ CoinRounds'
  BY <1>a DEF IInv, InputAtStart, ConfInOrder, CoinRounds
<1>5. BinValuesSent'
  BY <1>a, <1>1, RoundSets DEF IInv, BinValuesSent
<1>6. ValuesBacked'
  BY <1>a, <1>1, <1>2, <1>t DEF IInv, ValuesBacked, TypeOK, RoundsPlus
<1>7. RoundsLinked'
  BY <1>a, <1>1, <1>2, RoundSets DEF IInv, RoundsLinked
<1>8. DecisionBacked'
  BY <1>a, <1>2 DEF IInv, DecisionBacked
<1> QED BY <1>h, <1>1, <1>3, <1>4, <1>5, <1>6, <1>7, <1>8 DEF IInv

(* A binary value has passed the relay threshold on its way.               *)
LEMMA AddBinValueIInv ==
  ASSUME IInv, NEW p \in Correct, NEW r \in Rounds, NEW v \in Bits, NEW F \in SUBSET Faulty,
         AddBinValue(p, r, v, F)
  PROVE  IInv'
<1>t. TypeOK
  BY DEF IInv
<1>o. EstOut(r, v)
  <2>1. EstCount(r, v, F) \in Nat /\ EstCount(r, v, F) >= 2 * f + 1
    BY CountOfAll DEF AddBinValue, EstCount, BinThreshold
  <2>2. EstCount(r, v, F) >= RelayThreshold
    BY <2>1, ResilienceAssumption DEF RelayThreshold
  <2> QED BY <2>2, RelayedWasSent
<1>a. /\ est_sent' = [est_sent EXCEPT ![p][r] = @ \cup {v}]
      /\ bin_values' = [bin_values EXCEPT ![p][r] = @ \cup {v}]
      /\ UNCHANGED <<phase, round, est, vi, aux_sent, conf_sent, values, decided, decidedAt, coin, received>>
  BY DEF AddBinValue
<1>1. /\ est_sent' \in [Correct -> [0 .. MaxRound + 1 -> SUBSET Bits]]
      /\ \A r2 \in RoundsPlus, w \in Bits : EstOut(r2, w)' <=> EstOut(r2, w)
      /\ EstimateSent' /\ InputsOnly' /\ RoundsShrink'
  BY <1>a, <1>o, EstRelayed
<1>2. \A r2, w : ConfQuorum(r2, w)' <=> ConfQuorum(r2, w)
  BY <1>a DEF ConfQuorum, ConfCount
<1>h. ReceivedOK' /\ HeardSent'
  BY <1>t, <1>a, HeardKept DEF IInv, TypeOK
<1>3. TypeOK'
  <2>1. bin_values' \in [Correct -> [0 .. MaxRound + 1 -> SUBSET Bits]]
    <3>1. /\ bin_values \in [Correct -> [RoundsPlus -> SUBSET Bits]] /\ r \in RoundsPlus
          /\ bin_values[p][r] \cup {v} \in SUBSET Bits
      BY <1>t, RoundSets, Tables
    <3>2. bin_values' \in [Correct -> [RoundsPlus -> SUBSET Bits]]
      BY <3>1, <1>a, TableSet
    <3> QED BY <3>2 DEF RoundsPlus
  <2> QED BY <1>h, <1>t, <1>a, <1>1, <2>1 DEF TypeOK
<1>4. InputAtStart' /\ ConfInOrder' /\ CoinRounds'
  BY <1>a DEF IInv, InputAtStart, ConfInOrder, CoinRounds
<1>5. BinValuesSent'
  <2> SUFFICES ASSUME NEW q \in Correct, NEW r2 \in Rounds, NEW w \in Bits,
                      w \in bin_values'[q][r2] \cup conf_sent'[q][r2]
               PROVE  EstOut(r2, w)
    BY <1>1, RoundSets DEF BinValuesSent
  <2>1. w \in bin_values[q][r2] \cup conf_sent[q][r2] \/ (r2 = r /\ w = v)
    BY <1>a, <1>t, RoundSets DEF TypeOK, RoundsPlus
  <2> QED BY <2>1, <1>o DEF IInv, BinValuesSent
<1>6. ValuesBacked'
  BY <1>a, <1>1, <1>2, <1>t DEF IInv, ValuesBacked, TypeOK, RoundsPlus
<1>7. RoundsLinked'
  BY <1>a, <1>1, <1>2, RoundSets DEF IInv, RoundsLinked
<1>8. DecisionBacked'
  BY <1>a, <1>2 DEF IInv, DecisionBacked
<1> QED BY <1>h, <1>1, <1>3, <1>4, <1>5, <1>6, <1>7, <1>8 DEF IInv

(* AUX is no part of the argument: no quorum of it is relied on.           *)
LEMMA SendAuxIInv ==
  ASSUME IInv, NEW p \in Correct, NEW r \in Rounds, SendAux(p, r)
  PROVE  IInv'
<1>t. TypeOK
  BY DEF IInv
<1>a. /\ phase[p] = "est" /\ round[p] = r
      /\ aux_sent' = [aux_sent EXCEPT ![p][r] = IF 0 \in bin_values[p][r] THEN 0 ELSE 1]
      /\ phase' = [phase EXCEPT ![p] = "aux"]
      /\ UNCHANGED <<round, est, vi, est_sent, bin_values, conf_sent, values, decided, decidedAt,
                     coin, received>>
  BY DEF SendAux
<1>1. \A r2, w : EstOut(r2, w)' <=> EstOut(r2, w)
  BY <1>a DEF EstOut
<1>2. \A r2, w : ConfQuorum(r2, w)' <=> ConfQuorum(r2, w)
  BY <1>a DEF ConfQuorum, ConfCount
<1>h. ReceivedOK' /\ HeardSent'
  BY <1>t, <1>a, HeardKept DEF IInv, TypeOK
<1>3. TypeOK'
  BY <1>h, <1>t, <1>a, RoundSets DEF TypeOK, RoundsPlus, Bits
<1>4. InputAtStart' /\ EstimateSent' /\ CoinRounds'
  BY <1>t, <1>a DEF IInv, InputAtStart, EstimateSent, CoinRounds, TypeOK
<1>5. InputsOnly' /\ RoundsShrink' /\ BinValuesSent'
  BY <1>a, <1>1 DEF IInv, InputsOnly, RoundsShrink, BinValuesSent
<1>6. ConfInOrder'
  BY <1>t, <1>a DEF IInv, ConfInOrder, TypeOK
<1>7. ValuesBacked'
  BY <1>t, <1>a, <1>1, <1>2 DEF IInv, ValuesBacked, TypeOK
<1>8. RoundsLinked' /\ DecisionBacked'
  BY <1>a, <1>1, <1>2 DEF IInv, RoundsLinked, DecisionBacked
<1> QED BY <1>h, <1>3, <1>4, <1>5, <1>6, <1>7, <1>8 DEF IInv

(* CONF is the first of its round, so it only adds to the quorums, and it  *)
(* carries binary values.                                                  *)
LEMMA SendConfIInv ==
  ASSUME IInv, NEW p \in Correct, NEW r \in Rounds, NEW F \in SUBSET Faulty, SendConf(p, r, F)
  PROVE  IInv'
<1>t. TypeOK
  BY DEF IInv
<1>a. /\ phase[p] = "aux" /\ round[p] = r
      /\ conf_sent' = [conf_sent EXCEPT ![p][r] = bin_values[p][r]]
      /\ phase' = [phase EXCEPT ![p] = "conf"]
      /\ UNCHANGED <<round, est, vi, est_sent, bin_values, aux_sent, values, decided, decidedAt,
                     coin, received>>
  BY DEF SendConf
<1>b. conf_sent[p][r] = {}
  <2>1. r \in Nat /\ ~(r < r)
    BY RoundSets
  <2> QED BY <2>1, <1>a DEF IInv, ConfInOrder
<1>c. /\ conf_sent' \in [Correct -> [0 .. MaxRound + 1 -> SUBSET Bits]]
      /\ \A q \in Correct, r2 \in RoundsPlus : conf_sent'[q][r2] =
           IF q = p /\ r2 = r THEN bin_values[p][r] ELSE conf_sent[q][r2]
  <2>1. /\ conf_sent \in [Correct -> [RoundsPlus -> SUBSET Bits]] /\ r \in RoundsPlus
        /\ bin_values[p][r] \in SUBSET Bits
    BY <1>t, RoundSets, Tables
  <2>2. /\ conf_sent' \in [Correct -> [RoundsPlus -> SUBSET Bits]]
        /\ \A q \in Correct, r2 \in RoundsPlus : conf_sent'[q][r2] =
             IF q = p /\ r2 = r THEN bin_values[p][r] ELSE conf_sent[q][r2]
    BY <2>1, <1>a, TableSet
  <2> QED BY <2>2 DEF RoundsPlus
<1>1. \A r2, w : EstOut(r2, w)' <=> EstOut(r2, w)
  BY <1>a DEF EstOut
<1>2. ASSUME NEW r2 \in Rounds, NEW w \in Bits, ConfQuorum(r2, w)
      PROVE  ConfQuorum(r2, w)'
  <2>1. \A q \in Correct : conf_sent[q][r2] = {w} => conf_sent'[q][r2] = {w}
    BY <1>b, <1>c, RoundSets
  <2> QED BY <1>2, <2>1, ConfQuorumGrows
<1>h. ReceivedOK' /\ HeardSent'
  <2>1. \A q \in Correct, r2 \in Rounds :
          conf_sent[q][r2] # {} => conf_sent'[q][r2] = conf_sent[q][r2]
    BY <1>b, <1>c, RoundSets
  <2> QED BY <2>1, <1>t, <1>a, HeardKept DEF IInv, TypeOK
<1>3. TypeOK'
  BY <1>h, <1>t, <1>a, <1>c DEF TypeOK
<1>4. InputAtStart' /\ EstimateSent' /\ CoinRounds'
  BY <1>t, <1>a DEF IInv, InputAtStart, EstimateSent, CoinRounds, TypeOK
<1>5. InputsOnly' /\ RoundsShrink'
  BY <1>a, <1>1 DEF IInv, InputsOnly, RoundsShrink
<1>6. BinValuesSent'
  <2> SUFFICES ASSUME NEW q \in Correct, NEW r2 \in Rounds, NEW w \in Bits,
                      w \in bin_values'[q][r2] \cup conf_sent'[q][r2]
               PROVE  EstOut(r2, w)
    BY <1>1 DEF BinValuesSent
  <2>1. w \in bin_values[q][r2] \cup conf_sent[q][r2]
    BY <1>a, <1>t, RoundSets DEF TypeOK, RoundsPlus
  <2> QED BY <2>1 DEF IInv, BinValuesSent
<1>7. ConfInOrder'
  BY <1>t, <1>a, RoundSets DEF IInv, ConfInOrder, TypeOK, RoundsPlus
<1>8. ValuesBacked'
  <2>1. \A q \in Correct : phase'[q] = "coin" => phase[q] = "coin" /\ round[q] \in Rounds
    BY <1>a, <1>t DEF IInv, CoinRounds, TypeOK
  <2> QED BY <2>1, <1>a, <1>1, <1>2 DEF IInv, ValuesBacked
<1>9. RoundsLinked' /\ DecisionBacked'
  <2>1. \A q \in Correct : decided[q] # None => decided[q] \in Bits
    BY <1>t DEF TypeOK
  <2> QED BY <2>1, <1>a, <1>1, <1>2 DEF IInv, RoundsLinked, DecisionBacked
<1> QED BY <1>h, <1>3, <1>4, <1>5, <1>6, <1>7, <1>8, <1>9 DEF IInv

(* A node leaves the CONF phase with what a quorum backs, or with both     *)
(* bits, which are binary values and so were sent.                         *)
LEMMA AskCoinIInv ==
  ASSUME IInv, NEW p \in Correct, NEW r \in Rounds, NEW C \in SUBSET Bits,
         NEW F \in SUBSET Faulty, AskCoin(p, r, C, F)
  PROVE  IInv'
<1>t. TypeOK
  BY DEF IInv
<1>a. /\ phase[p] = "conf" /\ round[p] = r
      /\ C \in ConfValues(p, r, bin_values[p][r], F)
      /\ values' = [values EXCEPT ![p] = C]
      /\ bin_values' = [bin_values EXCEPT ![p][r] = {}]
      /\ phase' = [phase EXCEPT ![p] = "coin"]
      /\ UNCHANGED <<round, est, vi, est_sent, aux_sent, conf_sent, decided, decidedAt, coin, received>>
  BY DEF AskCoin
<1>b. /\ bin_values' \in [Correct -> [0 .. MaxRound + 1 -> SUBSET Bits]]
      /\ \A q \in Correct, r2 \in RoundsPlus : bin_values'[q][r2] \subseteq bin_values[q][r2]
  <2>1. /\ bin_values \in [Correct -> [RoundsPlus -> SUBSET Bits]] /\ r \in RoundsPlus
        /\ {} \in SUBSET Bits
    BY <1>t, RoundSets, Tables
  <2>2. /\ bin_values' \in [Correct -> [RoundsPlus -> SUBSET Bits]]
        /\ \A q \in Correct, r2 \in RoundsPlus : bin_values'[q][r2] =
             IF q = p /\ r2 = r THEN {} ELSE bin_values[q][r2]
    BY <2>1, <1>a, TableSet
  <2> QED BY <2>2 DEF RoundsPlus
<1>1. \A r2, w : EstOut(r2, w)' <=> EstOut(r2, w)
  BY <1>a DEF EstOut
<1>2. \A r2, w : ConfQuorum(r2, w)' <=> ConfQuorum(r2, w)
  BY <1>a DEF ConfQuorum, ConfCount
<1>c. \/ \E v \in Bits : C = {v} /\ ConfQuorum(r, v)
      \/ C = Bits /\ \A v \in Bits : EstOut(r, v)
  <2>1. CASE \E v \in bin_values[p][r] : C = {v} /\ ConfCount(ConfTo(p), r, {v}, F) >= WaitThreshold
    <3>1. PICK v \in bin_values[p][r] : C = {v} /\ ConfCount(ConfTo(p), r, {v}, F) >= WaitThreshold
      BY <2>1
    <3>2. ConfQuorum(r, v)
      BY <3>1, HeardQuorum DEF IInv
    <3> QED BY <3>1, <3>2
  <2>2. CASE C = Bits /\ bin_values[p][r] = Bits
    BY <2>2 DEF IInv, BinValuesSent
  <2>3. \/ \E v \in bin_values[p][r] : C = {v} /\ ConfCount(ConfTo(p), r, {v}, F) >= WaitThreshold
        \/ C = Bits /\ bin_values[p][r] = Bits
    BY <1>a DEF ConfValues
  <2> QED BY <2>1, <2>2, <2>3
<1>h. ReceivedOK' /\ HeardSent'
  BY <1>t, <1>a, HeardKept DEF IInv, TypeOK
<1>3. TypeOK'
  BY <1>h, <1>t, <1>a, <1>b DEF TypeOK
<1>4. InputAtStart' /\ EstimateSent' /\ CoinRounds'
  BY <1>t, <1>a DEF IInv, InputAtStart, EstimateSent, CoinRounds, TypeOK
<1>5. InputsOnly' /\ RoundsShrink'
  BY <1>a, <1>1 DEF IInv, InputsOnly, RoundsShrink
<1>6. BinValuesSent'
  <2> SUFFICES ASSUME NEW q \in Correct, NEW r2 \in Rounds, NEW w \in Bits,
                      w \in bin_values'[q][r2] \cup conf_sent'[q][r2]
               PROVE  EstOut(r2, w)
    BY <1>1 DEF BinValuesSent
  <2>1. w \in bin_values[q][r2] \cup conf_sent[q][r2]
    BY <1>a, <1>b, RoundSets
  <2> QED BY <2>1 DEF IInv, BinValuesSent
<1>7. ConfInOrder'
  BY <1>t, <1>a DEF IInv, ConfInOrder, TypeOK
<1>8. ValuesBacked'
  <2> SUFFICES ASSUME NEW q \in Correct, phase'[q] = "coin"
               PROVE  \/ \E v \in Bits : values'[q] = {v} /\ ConfQuorum(round[q], v)
                      \/ values'[q] = Bits /\ \A v \in Bits : EstOut(round[q], v)
    BY <1>a, <1>1, <1>2 DEF ValuesBacked
  <2>1. CASE q = p
    BY <2>1, <1>a, <1>c, <1>t DEF TypeOK
  <2>2. CASE q # p
    BY <2>2, <1>a, <1>t DEF IInv, ValuesBacked, TypeOK
  <2> QED BY <2>1, <2>2
<1>9. RoundsLinked' /\ DecisionBacked'
  BY <1>a, <1>1, <1>2 DEF IInv, RoundsLinked, DecisionBacked
<1> QED BY <1>h, <1>3, <1>4, <1>5, <1>6, <1>7, <1>8, <1>9 DEF IInv

(* A coin that is out stays.                                               *)
LEMMA CoinSet ==
  ASSUME TypeOK, NEW r \in Rounds, NEW s \in Bits, coin[r] \in {None, s},
         coin' = [coin EXCEPT ![r] = s]
  PROVE  /\ coin' \in [Rounds -> Bits \cup {None}]
         /\ coin'[r] = s /\ s # None
         /\ \A r2 \in Rounds : coin[r2] # None => coin'[r2] = coin[r2]
BY NoneIsNoBit DEF TypeOK, Bits

(* What set_new_estimate makes of a node's values: its estimate was in     *)
(* this round already, and has its quorum or is the coin.                  *)
LEMMA NewEstimateBacked ==
  ASSUME IInv, NEW p \in Correct, NEW r \in Rounds, NEW s \in Bits,
         phase[p] = "coin", round[p] = r
  PROVE  /\ NewEstimate(p, s) \in Bits
         /\ EstOut(r, NewEstimate(p, s))
         /\ ConfQuorum(r, NewEstimate(p, s)) \/ NewEstimate(p, s) = s
         /\ values[p] = {s} => ConfQuorum(r, s)
<1>1. CASE values[p] = Bits /\ \A v \in Bits : EstOut(r, v)
  <2>1. NewEstimate(p, s) = s
    BY <1>1 DEF NewEstimate
  <2>2. values[p] # {s}
    BY <1>1 DEF Bits
  <2> QED BY <1>1, <2>1, <2>2
<1>2. CASE \E v \in Bits : values[p] = {v} /\ ConfQuorum(r, v)
  <2>1. PICK v \in Bits : values[p] = {v} /\ ConfQuorum(r, v)
    BY <1>2
  <2>2. values[p] # Bits
    BY <2>1 DEF Bits
  <2>3. (CHOOSE w \in Bits : values[p] = {w}) = v
    BY <2>1
  <2>4. NewEstimate(p, s) = v
    BY <2>2, <2>3 DEF NewEstimate
  <2>5. EstOut(r, v)
    <3>1. PICK q \in Correct : conf_sent[q][r] = {v}
      BY <2>1, ConfQuorumWitness
    <3> QED BY <3>1 DEF IInv, BinValuesSent
  <2>6. values[p] = {s} => s = v
    BY <2>1
  <2> QED BY <2>1, <2>4, <2>5, <2>6
<1> QED BY <1>1, <1>2 DEF IInv, ValuesBacked

(* A node that decided before leaves: only the coin may be new.            *)
LEMMA QuitIInv ==
  ASSUME IInv, NEW p \in Correct, NEW r \in Rounds, NEW s \in Bits, NEW F \in SUBSET Faulty,
         EndRound(p, r, s, F), Quits(p, s)
  PROVE  IInv'
<1>t. TypeOK
  BY DEF IInv
<1>a. /\ phase[p] = "coin" /\ round[p] = r
      /\ coin[r] \in {None, s}
      /\ coin' = [coin EXCEPT ![r] = s]
      /\ phase' = [phase EXCEPT ![p] = "quit"]
      /\ values' = [values EXCEPT ![p] = {}]
      /\ UNCHANGED <<round, est, vi, est_sent, bin_values, aux_sent, conf_sent, decided, decidedAt, received>>
  BY DEF EndRound
<1>b. /\ coin' \in [Rounds -> Bits \cup {None}]
      /\ \A r2 \in Rounds : coin[r2] # None => coin'[r2] = coin[r2]
  BY <1>t, <1>a, CoinSet
<1>1. \A r2, w : EstOut(r2, w)' <=> EstOut(r2, w)
  BY <1>a DEF EstOut
<1>2. \A r2, w : ConfQuorum(r2, w)' <=> ConfQuorum(r2, w)
  BY <1>a DEF ConfQuorum, ConfCount
<1>h. ReceivedOK' /\ HeardSent'
  BY <1>t, <1>a, HeardKept DEF IInv, TypeOK
<1>3. TypeOK'
  BY <1>h, <1>t, <1>a, <1>b DEF TypeOK
<1>4. InputAtStart' /\ EstimateSent' /\ CoinRounds'
  BY <1>t, <1>a DEF IInv, InputAtStart, EstimateSent, CoinRounds, TypeOK
<1>5. InputsOnly' /\ RoundsShrink' /\ BinValuesSent'
  BY <1>a, <1>1 DEF IInv, InputsOnly, RoundsShrink, BinValuesSent
<1>6. ConfInOrder'
  BY <1>t, <1>a DEF IInv, ConfInOrder, TypeOK
<1>7. ValuesBacked'
  BY <1>t, <1>a, <1>1, <1>2 DEF IInv, ValuesBacked, TypeOK
<1>8. RoundsLinked'
  BY <1>b, <1>1, <1>2 DEF IInv, RoundsLinked
<1>9. DecisionBacked'
  <2> SUFFICES ASSUME NEW q \in Correct, decided[q] # None
               PROVE  /\ decidedAt[q] \in Rounds
                      /\ coin'[decidedAt[q]] = decided[q]
                      /\ ConfQuorum(decidedAt[q], decided[q])
    BY <1>a, <1>2 DEF DecisionBacked
  <2>1. /\ decidedAt[q] \in Rounds
        /\ coin[decidedAt[q]] = decided[q]
        /\ ConfQuorum(decidedAt[q], decided[q])
    BY DEF IInv, DecisionBacked
  <2> QED BY <2>1, <1>b
<1> QED BY <1>h, <1>3, <1>4, <1>5, <1>6, <1>7, <1>8, <1>9 DEF IInv

(* The next round starts with a bit of this round, backed as RoundsLinked  *)
(* says; a decision is made where quorum and coin are the same.            *)
LEMMA NextRoundIInv ==
  ASSUME IInv, NEW p \in Correct, NEW r \in Rounds, NEW s \in Bits, NEW F \in SUBSET Faulty,
         EndRound(p, r, s, F), ~Quits(p, s)
  PROVE  IInv'
<1> DEFINE e == NewEstimate(p, s)
<1>t. TypeOK
  BY DEF IInv
<1>a. /\ phase[p] = "coin" /\ round[p] = r
      /\ coin[r] \in {None, s}
      /\ coin' = [coin EXCEPT ![r] = s]
      /\ phase' = [phase EXCEPT ![p] = "est"]
      /\ round' = [round EXCEPT ![p] = r + 1]
      /\ est' = [est EXCEPT ![p] = e]
      /\ values' = [values EXCEPT ![p] = {}]
      /\ UNCHANGED <<vi, bin_values, aux_sent, conf_sent, received>>
  BY DEF EndRound
<1>d. /\ decided' = [decided EXCEPT ![p] =
           IF Decides(p, s) THEN CHOOSE v \in Bits : values[p] = {v} ELSE @]
      /\ decidedAt' = [decidedAt EXCEPT ![p] = IF Decides(p, s) THEN r ELSE @]
  BY DEF EndRound
<1>b. /\ coin' \in [Rounds -> Bits \cup {None}]
      /\ coin'[r] = s /\ s # None
      /\ \A r2 \in Rounds : coin[r2] # None => coin'[r2] = coin[r2]
  BY <1>t, <1>a, CoinSet
<1>e. /\ e \in Bits /\ EstOut(r, e)
      /\ ConfQuorum(r, e) \/ e = s
      /\ values[p] = {s} => ConfQuorum(r, s)
  BY <1>a, NewEstimateBacked
<1>r. r \in RoundsPlus /\ r + 1 \in RoundsPlus /\ r \in Nat /\ r + 1 # 0
  BY RoundSets
<1>s. est_sent' = [est_sent EXCEPT ![p][r + 1] = @ \cup {e}]
  <2>1. est'[p] = e
    BY <1>a, <1>t DEF TypeOK
  <2> QED BY <2>1 DEF EndRound
<1> HIDE DEF e
<1>1. /\ est_sent' \in [Correct -> [0 .. MaxRound + 1 -> SUBSET Bits]]
      /\ \A q \in Correct, r2 \in RoundsPlus : est_sent[q][r2] \subseteq est_sent'[q][r2]
      /\ e \in est_sent'[p][r + 1]
      /\ \A r2 \in RoundsPlus, w \in Bits :
           EstOut(r2, w)' <=> (EstOut(r2, w) \/ (r2 = r + 1 /\ w = e))
  BY <1>t, <1>e, <1>r, <1>s, EstAdded
<1>2. \A r2, w : ConfQuorum(r2, w)' <=> ConfQuorum(r2, w)
  BY <1>a DEF ConfQuorum, ConfCount
<1>g. \A q \in Correct :
        \/ decided'[q] = decided[q] /\ decidedAt'[q] = decidedAt[q]
        \/ decided'[q] = s /\ decidedAt'[q] = r /\ ConfQuorum(r, s)
  <2>1. CASE Decides(p, s)
    <3>1. values[p] = {s} /\ (CHOOSE v \in Bits : values[p] = {v}) = s
      BY <2>1 DEF Decides
    <3>2. decided' = [decided EXCEPT ![p] = s] /\ decidedAt' = [decidedAt EXCEPT ![p] = r]
      BY <1>d, <2>1, <3>1
    <3> QED BY <3>1, <3>2, <1>e, <1>t DEF TypeOK
  <2>2. CASE ~Decides(p, s)
    BY <1>d, <2>2, <1>t DEF TypeOK
  <2> QED BY <2>1, <2>2
<1>h. ReceivedOK' /\ HeardSent'
  BY <1>t, <1>a, HeardKept DEF IInv, TypeOK
<1>3. TypeOK'
  <2>1. /\ decided' \in [Correct -> Bits \cup {None}]
        /\ decidedAt' \in [Correct -> Rounds \cup {None}]
    <3>1. CASE Decides(p, s)
      <4>1. (CHOOSE v \in Bits : values[p] = {v}) = s
        BY <3>1 DEF Decides
      <4>2. decided' = [decided EXCEPT ![p] = s] /\ decidedAt' = [decidedAt EXCEPT ![p] = r]
        BY <1>d, <3>1, <4>1
      <4> QED BY <4>2, <1>t DEF TypeOK
    <3>2. CASE ~Decides(p, s)
      <4>1. decided' = decided /\ decidedAt' = decidedAt
        BY <1>d, <3>2, <1>t DEF TypeOK
      <4> QED BY <4>1, <1>t DEF TypeOK
    <3> QED BY <3>1, <3>2
  <2>2. round' \in [Correct -> 0 .. MaxRound + 1]
    BY <1>a, <1>r, <1>t DEF TypeOK, RoundsPlus
  <2>3. est' \in [Correct -> Bits \cup {None}]
    BY <1>a, <1>e, <1>t DEF TypeOK
  <2> QED BY <1>h, <1>t, <1>a, <1>b, <1>1, <2>1, <2>2, <2>3 DEF TypeOK
<1>4. InputAtStart' /\ CoinRounds'
  BY <1>t, <1>a DEF IInv, InputAtStart, CoinRounds, TypeOK
<1>5. EstimateSent'
  <2> SUFFICES ASSUME NEW q \in Correct, phase'[q] # "input"
               PROVE  vi[q] \in Bits /\ est'[q] \in est_sent'[q][round'[q]]
    BY <1>a DEF EstimateSent
  <2>1. CASE q = p
    <3>1. round'[p] = r + 1 /\ est'[p] = e /\ vi[p] \in Bits
      BY <1>a, <1>t DEF IInv, EstimateSent, TypeOK
    <3> QED BY <3>1, <2>1, <1>1
  <2>2. CASE q # p
    <3>1. /\ round'[q] = round[q] /\ est'[q] = est[q] /\ round[q] \in RoundsPlus
          /\ phase[q] # "input"
      BY <2>2, <1>a, <1>t DEF TypeOK, RoundsPlus
    <3> QED BY <3>1, <1>1 DEF IInv, EstimateSent
  <2> QED BY <2>1, <2>2
<1>6. InputsOnly'
  BY <1>a, <1>1, <1>r, RoundSets DEF IInv, InputsOnly
<1>7. RoundsShrink'
  <2> SUFFICES ASSUME NEW r1 \in RoundsPlus, NEW r2 \in RoundsPlus, NEW w \in Bits,
                      r1 <= r2, EstOut(r2, w)'
               PROVE  EstOut(r1, w)'
    BY DEF RoundsShrink, RoundsPlus
  <2>1. CASE EstOut(r2, w)
    <3>1. EstOut(r1, w)
      BY <2>1 DEF IInv, RoundsShrink, RoundsPlus
    <3> QED BY <3>1, <1>1
  <2>2. CASE r2 = r + 1 /\ w = e /\ r1 = r + 1
    BY <2>2, <1>1
  <2>3. CASE r2 = r + 1 /\ w = e /\ r1 # r + 1
    <3>1. r1 <= r
      BY <2>3, <1>r, RoundSets
    <3>2. EstOut(r1, e)
      BY <3>1, <1>e, <1>r DEF IInv, RoundsShrink, RoundsPlus
    <3> QED BY <3>2, <2>3, <1>1
  <2> QED BY <2>1, <2>2, <2>3, <1>1
<1>8. BinValuesSent'
  BY <1>a, <1>1, RoundSets DEF IInv, BinValuesSent
<1>9. ConfInOrder'
  <2> SUFFICES ASSUME NEW q \in Correct, NEW r2 \in Rounds, conf_sent[q][r2] # {}
               PROVE  \/ r2 < round'[q]
                      \/ r2 = round'[q] /\ phase'[q] \in {"conf", "coin", "quit"}
    BY <1>a DEF ConfInOrder
  <2>1. \/ r2 < round[q]
        \/ r2 = round[q] /\ phase[q] \in {"conf", "coin", "quit"}
    BY DEF IInv, ConfInOrder
  <2>2. CASE q = p
    <3>1. round'[q] = r + 1 /\ r2 \in Nat
      BY <2>2, <1>a, <1>t, RoundSets DEF TypeOK
    <3> QED BY <3>1, <2>1, <2>2, <1>a, <1>r
  <2>3. CASE q # p
    BY <2>1, <2>3, <1>a, <1>t DEF TypeOK
  <2> QED BY <2>2, <2>3
<1>10. ValuesBacked'
  <2> SUFFICES ASSUME NEW q \in Correct, phase'[q] = "coin"
               PROVE  (\/ \E v \in Bits : values[q] = {v} /\ ConfQuorum(round[q], v)
                       \/ values[q] = Bits /\ \A v \in Bits : EstOut(round[q], v))'
    BY DEF ValuesBacked
  <2>1. /\ q # p /\ phase[q] = "coin" /\ round'[q] = round[q] /\ values'[q] = values[q]
        /\ round[q] \in RoundsPlus
    BY <1>a, <1>t DEF TypeOK, RoundsPlus
  <2>2. \/ \E v \in Bits : values[q] = {v} /\ ConfQuorum(round[q], v)
        \/ values[q] = Bits /\ \A v \in Bits : EstOut(round[q], v)
    BY <2>1 DEF IInv, ValuesBacked
  <2>3. \A v \in Bits : (EstOut(round[q], v) => EstOut(round[q], v)')
    BY <2>1, <1>1
  <2> QED BY <2>1, <2>2, <2>3, <1>2
<1>11. RoundsLinked'
  <2> SUFFICES ASSUME NEW r2 \in Rounds, NEW w \in Bits, EstOut(r2 + 1, w)'
               PROVE  coin'[r2] # None /\ (ConfQuorum(r2, w) \/ coin'[r2] = w)
    BY <1>2 DEF RoundsLinked
  <2>1. CASE EstOut(r2 + 1, w)
    BY <2>1, <1>b DEF IInv, RoundsLinked
  <2>2. CASE r2 + 1 = r + 1 /\ w = e
    <3>1. r2 = r
      BY <2>2, <1>r, RoundSets
    <3> QED BY <3>1, <2>2, <1>e, <1>b
  <2>3. r2 + 1 \in RoundsPlus
    BY RoundSets
  <2> QED BY <2>1, <2>2, <2>3, <1>1
<1>12. DecisionBacked'
  <2> SUFFICES ASSUME NEW q \in Correct, decided'[q] # None
               PROVE  /\ decidedAt'[q] \in Rounds
                      /\ coin'[decidedAt'[q]] = decided'[q]
                      /\ ConfQuorum(decidedAt'[q], decided'[q])
    BY <1>2 DEF DecisionBacked
  <2>1. CASE decided'[q] = decided[q] /\ decidedAt'[q] = decidedAt[q]
    <3>1. /\ decidedAt[q] \in Rounds
          /\ coin[decidedAt[q]] = decided[q]
          /\ ConfQuorum(decidedAt[q], decided[q])
      BY <2>1 DEF IInv, DecisionBacked
    <3> QED BY <3>1, <2>1, <1>b
  <2>2. CASE decided'[q] = s /\ decidedAt'[q] = r /\ ConfQuorum(r, s)
    BY <2>2, <1>b
  <2> QED BY <2>1, <2>2, <1>g
<1> QED BY <1>h, <1>3, <1>4, <1>5, <1>6, <1>7, <1>8, <1>9, <1>10, <1>11, <1>12 DEF IInv

(* A step that changes at most what nodes can receive.                     *)
LEMMA QuietIInv ==
  ASSUME IInv, ReceivedOK' /\ HeardSent',
         UNCHANGED <<phase, round, est, vi, est_sent, bin_values, aux_sent, conf_sent, values,
                     decided, decidedAt, coin>>
  PROVE  IInv'
<1>1. UNCHANGED <<phase, round, est, vi, est_sent, bin_values, aux_sent, conf_sent, values,
                  decided, decidedAt, coin>>
  OBVIOUS
<1>2. TypeOK' /\ InputAtStart' /\ EstimateSent' /\ CoinRounds' /\ ConfInOrder'
  BY <1>1 DEF IInv, TypeOK, InputAtStart, EstimateSent, CoinRounds, ConfInOrder
<1>3. \A r, v : EstOut(r, v)' <=> EstOut(r, v)
  BY <1>1 DEF EstOut
<1>4. \A r, v : ConfQuorum(r, v)' <=> ConfQuorum(r, v)
  BY <1>1 DEF ConfQuorum, ConfCount
<1>5. InputsOnly' /\ RoundsShrink' /\ BinValuesSent'
  BY <1>1, <1>3 DEF IInv, InputsOnly, RoundsShrink, BinValuesSent
<1>6. ValuesBacked' /\ RoundsLinked' /\ DecisionBacked'
  BY <1>1, <1>3, <1>4 DEF IInv, ValuesBacked, RoundsLinked, DecisionBacked
<1> QED BY <1>2, <1>5, <1>6 DEF IInv

(* A receive loop ends: what was sent until then is what was heard.        *)
LEMMA RecvRaisesIInv ==
  ASSUME IInv, NEW p \in Correct, NEW F \in SUBSET Faulty, RecvRaises(p, F)
  PROVE  IInv'
<1>t. TypeOK /\ ReceivedOK
  BY DEF IInv, TypeOK
<1>a. /\ deaf' = deaf \cup {p}
      /\ heard' = [heard EXCEPT ![p] = [aux |-> aux_sent, conf |-> conf_sent]]
      /\ UNCHANGED <<phase, round, est, vi, est_sent, bin_values, aux_sent, conf_sent, values,
                     decided, decidedAt, coin>>
  BY DEF RecvRaises
<1>1. ReceivedOK'
  BY <1>t, <1>a DEF ReceivedOK, TypeOK
<1>2. HeardSent'
  <2>1. \A q \in Correct : heard'[q].conf = IF q = p THEN conf_sent ELSE heard[q].conf
    BY <1>t, <1>a DEF ReceivedOK
  <2> QED BY <2>1, <1>a DEF IInv, HeardSent
<1> QED BY <1>1, <1>2, <1>a, QuietIInv

(* A step without effect.                                                  *)
LEMMA StutterIInv == ASSUME IInv, UNCHANGED vars PROVE IInv'
<1>1. /\ UNCHANGED <<phase, round, est, vi, est_sent, bin_values, aux_sent, conf_sent, values,
                     decided, decidedAt, coin>>
      /\ UNCHANGED received
  BY DEF vars, received
<1>2. ReceivedOK' /\ HeardSent'
  BY <1>1, HeardKept DEF IInv, TypeOK
<1> QED BY <1>1, <1>2, QuietIInv

-----------------------------------------------------------------------------
(* What every round starts with is linked to the one before, and every     *)
(* decision to a quorum and the coin of its round.                         *)
THEOREM Invariance == Spec => []IInv
<1>1. Init => IInv
  BY InitIInv
<1>2. IInv /\ [Next]_vars => IInv'
  <2> SUFFICES ASSUME IInv, [Next]_vars PROVE IInv'
    OBVIOUS
  <2>1. CASE UNCHANGED vars
    BY <2>1, StutterIInv
  <2>2. ASSUME NEW F \in SUBSET Faulty, Step(F) PROVE IInv'
    <3>1. ASSUME NEW p \in Correct, NEW v \in Bits, Input(p, v) PROVE IInv'
      BY <3>1, InputIInv
    <3>2. ASSUME NEW p \in Correct, NEW r \in Rounds, NEW v \in Bits, RelayEst(p, r, v, F)
          PROVE  IInv'
      BY <3>2, RelayEstIInv
    <3>3. ASSUME NEW p \in Correct, NEW r \in Rounds, NEW v \in Bits, AddBinValue(p, r, v, F)
          PROVE  IInv'
      BY <3>3, AddBinValueIInv
    <3>4. ASSUME NEW p \in Correct, NEW r \in Rounds, SendAux(p, r) PROVE IInv'
      BY <3>4, SendAuxIInv
    <3>5. ASSUME NEW p \in Correct, NEW r \in Rounds, SendConf(p, r, F) PROVE IInv'
      BY <3>5, SendConfIInv
    <3>6. ASSUME NEW p \in Correct, NEW r \in Rounds, NEW C \in SUBSET Bits, AskCoin(p, r, C, F)
          PROVE  IInv'
      BY <3>6, AskCoinIInv
    <3>7. ASSUME NEW p \in Correct, NEW r \in Rounds, NEW s \in Bits, EndRound(p, r, s, F)
          PROVE  IInv'
      BY <3>7, QuitIInv, NextRoundIInv
    <3>8. ASSUME NEW p \in Correct, RecvRaises(p, F) PROVE IInv'
      BY <3>8, RecvRaisesIInv
    <3> QED BY <2>2, <3>1, <3>2, <3>3, <3>4, <3>5, <3>6, <3>7, <3>8 DEF Step
  <2> QED BY <2>1, <2>2 DEF Next
<1> QED BY <1>1, <1>2, PTL DEF Spec

(* A bit with a quorum of CONF was sent as EST.                            *)
LEMMA QuorumWasSent ==
  ASSUME IInv, NEW r \in Rounds, NEW v \in Bits, ConfQuorum(r, v)
  PROVE  EstOut(r, v)
<1>1. PICK q \in Correct : conf_sent[q][r] = {v}
  BY ConfQuorumWitness
<1> QED BY <1>1 DEF IInv, BinValuesSent

(* Where quorum and coin agree, no later round holds another bit: what the *)
(* comment at line 299 of binaryagreement.py argues.                       *)
LEMMA DecisionBinds ==
  ASSUME IInv, NEW r0 \in Rounds, NEW v, ConfQuorum(r0, v), coin[r0] = v,
         NEW r \in RoundsPlus, r0 < r, NEW w \in Bits, EstOut(r, w)
  PROVE  w = v
<1>1. r0 + 1 <= r /\ r0 + 1 \in RoundsPlus
  BY RoundSets
<1>2. EstOut(r0 + 1, w)
  BY <1>1 DEF IInv, RoundsShrink, RoundsPlus
<1>3. ConfQuorum(r0, w) \/ coin[r0] = w
  BY <1>2 DEF IInv, RoundsLinked
<1> QED BY <1>3, ConfQuorumUnique

(* The main loop's state has its types: an undecided node's new estimate   *)
(* is a bit also after it took the coin's.                                 *)
THEOREM TypeCorrect == Spec => []TypeOK
<1>1. IInv => TypeOK
  BY DEF IInv
<1> QED BY <1>1, Invariance, PTL

(* No two correct nodes decide differently.                                *)
THEOREM AgreementHolds == Spec => []Agreement
<1>1. ASSUME IInv PROVE Agreement
  <2>1. ASSUME NEW p \in Correct, NEW q \in Correct, decided[p] # None, decided[q] # None,
               decidedAt[p] < decidedAt[q]
        PROVE  decided[p] = decided[q]
    <3>1. /\ decidedAt[p] \in Rounds /\ coin[decidedAt[p]] = decided[p]
          /\ ConfQuorum(decidedAt[p], decided[p])
          /\ decidedAt[q] \in Rounds /\ ConfQuorum(decidedAt[q], decided[q])
      BY <1>1, <2>1 DEF IInv, DecisionBacked
    <3>2. decided[q] \in Bits
      BY <1>1, <2>1 DEF IInv, TypeOK
    <3>3. EstOut(decidedAt[q], decided[q])
      BY <1>1, <3>1, <3>2, QuorumWasSent
    <3> QED BY <1>1, <2>1, <3>1, <3>2, <3>3, RoundSets, DecisionBinds
  <2> SUFFICES ASSUME NEW p \in Correct, NEW q \in Correct,
                      decided[p] # None, decided[q] # None
               PROVE  decided[p] = decided[q]
    BY DEF Agreement
  <2>2. /\ decidedAt[p] \in Rounds /\ coin[decidedAt[p]] = decided[p]
        /\ decidedAt[q] \in Rounds /\ coin[decidedAt[q]] = decided[q]
    BY <1>1 DEF IInv, DecisionBacked
  <2>3. \/ decidedAt[p] < decidedAt[q] \/ decidedAt[q] < decidedAt[p]
        \/ decidedAt[p] = decidedAt[q]
    <3>1. decidedAt[p] \in RoundsPlus /\ decidedAt[q] \in RoundsPlus
      BY <2>2, RoundSets
    <3> QED BY <3>1, RoundOrder
  <2> QED BY <2>1, <2>2, <2>3
<1> QED BY <1>1, Invariance, PTL

(* A decision was some correct node's input: rounds and coins add none.    *)
THEOREM ValidityHolds == Spec => []Validity
<1>1. ASSUME IInv PROVE Validity
  <2> SUFFICES ASSUME NEW p \in Correct, decided[p] # None
               PROVE  \E q \in Correct : vi[q] = decided[p]
    BY DEF Validity
  <2>1. decidedAt[p] \in Rounds /\ ConfQuorum(decidedAt[p], decided[p]) /\ decided[p] \in Bits
    BY <1>1 DEF IInv, DecisionBacked, TypeOK
  <2>2. EstOut(decidedAt[p], decided[p])
    BY <1>1, <2>1, QuorumWasSent
  <2>3. decidedAt[p] \in RoundsPlus /\ 0 \in RoundsPlus /\ 0 <= decidedAt[p]
    <3>1. decidedAt[p] \in RoundsPlus /\ 0 \in RoundsPlus
      BY <2>1, RoundSets
    <3> QED BY <3>1, RoundOrder
  <2>4. EstOut(0, decided[p])
    BY <1>1, <2>1, <2>2, <2>3 DEF IInv, RoundsShrink, RoundsPlus
  <2> QED BY <1>1, <2>1, <2>4 DEF IInv, InputsOnly
<1> QED BY <1>1, Invariance, PTL

(* The comment in set_new_estimate: after a decision everybody proposes    *)
(* its value in all the following rounds.                                  *)
THEOREM DecisionFixesEstimatesHolds == Spec => []DecisionFixesEstimates
<1>1. ASSUME IInv PROVE DecisionFixesEstimates
  <2> SUFFICES ASSUME NEW p \in Correct, NEW q \in Correct, decided[p] # None,
                      round[q] > decidedAt[p]
               PROVE  est[q] = decided[p]
    BY DEF DecisionFixesEstimates
  <2>1. /\ decidedAt[p] \in Rounds /\ coin[decidedAt[p]] = decided[p]
        /\ ConfQuorum(decidedAt[p], decided[p])
    BY <1>1 DEF IInv, DecisionBacked
  <2>2. round[q] \in RoundsPlus /\ est_sent[q][round[q]] \in SUBSET Bits
    <3>1. TypeOK
      BY <1>1 DEF IInv
    <3>2. round[q] \in RoundsPlus
      BY <3>1 DEF TypeOK, RoundsPlus
    <3> QED BY <3>1, <3>2, Tables
  <2>3. phase[q] # "input"
    <3>1. decidedAt[p] \in Nat
      BY <2>1, RoundSets
    <3>2. round[q] # 0
      BY <3>1
    <3> QED BY <1>1, <3>2 DEF IInv, InputAtStart
  <2>4. est[q] \in est_sent[q][round[q]]
    BY <1>1, <2>3 DEF IInv, EstimateSent
  <2>5. est[q] \in Bits /\ EstOut(round[q], est[q])
    BY <2>2, <2>4 DEF EstOut
  <2>6. decidedAt[p] < round[q]
    BY <2>1, <2>2, RoundSets
  <2> QED BY <1>1, <2>1, <2>2, <2>5, <2>6, DecisionBinds
<1> QED BY <1>1, Invariance, PTL

(* Two nodes never leave the CONF phase of a round with opposite bits.     *)
THEOREM ConfConsistentHolds == Spec => []ConfConsistent
<1>1. ASSUME IInv PROVE ConfConsistent
  <2>1. ASSUME NEW p \in Correct, phase[p] = "coin", NEW v \in Bits, values[p] = {v}
        PROVE  ConfQuorum(round[p], v)
    <3>1. values[p] # Bits
      BY <2>1 DEF Bits
    <3> QED BY <1>1, <2>1, <3>1 DEF IInv, ValuesBacked
  <2>2. 0 \in Bits /\ 1 \in Bits /\ 0 # 1
    BY DEF Bits
  <2> QED BY <2>1, <2>2, ConfQuorumUnique DEF ConfConsistent
<1> QED BY <1>1, Invariance, PTL
=============================================================================
