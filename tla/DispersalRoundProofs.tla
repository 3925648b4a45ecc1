-------------------------- MODULE DispersalRoundProofs --------------------------
(***************************************************************************)
(* What a dispersal round returns, for all N, f, sizes and values.         *)
(***************************************************************************)
EXTENDS DispersalRound, ParticipantsProofs, SequenceTheorems, FunctionTheorems

(* Nothing has been delivered or returned at the start.                    *)
LEMMA InitResults == Init => ResultInv
BY DEF Init, RBC!Init, ResultInv, OutputsAgree, ResultsFollow, ResultsLast, Typed

(* The dealer's data is set once, before anything is delivered.            *)
LEMMA DealerInputResults ==
  ASSUME ResultInv, NEW v \in Values, DealerInput(v)
  PROVE  ResultInv'
<1>1. /\ Leader \in Correct /\ input = None
      /\ UNCHANGED <<output, stage, result, complained>>
  BY DEF DealerInput, RBC!Input
<1>2. OutputsAgree'
  BY <1>1 DEF OutputsAgree, ResultInv
<1> QED BY <1>1, <1>2 DEF ResultInv, Typed, ResultsLast, ResultsFollow

(* The broadcast delivers what it delivered elsewhere, to a node that has  *)
(* nothing yet and so has returned nothing.                                *)
LEMMA RbcReturnResults ==
  ASSUME ResultInv, NEW p \in Correct, NEW o \in Values \cup {Failed}, RbcReturn(p, o)
  PROVE  ResultInv'
<1>1. /\ stage[p] = "rbc"
      /\ \A q \in Correct : output[q] \in {None, o}
      /\ Leader \in Correct => o = input
      /\ output' = [output EXCEPT ![p] = o]
      /\ UNCHANGED <<input, result, complained>>
      /\ stage' = [stage EXCEPT ![p] = IF o = Failed THEN "crashed" ELSE "verify"]
  BY DEF RbcReturn, RBC!Deliver, Enter
<1>2. Typed'
  BY <1>1 DEF Typed, ResultInv
<1>3. OutputsAgree'
  BY <1>1 DEF OutputsAgree, Typed, ResultInv
<1>4. ResultsLast' /\ ResultsFollow'
  BY <1>1 DEF ResultsFollow, ResultsLast, Typed, ResultInv
<1> QED BY <1>2, <1>3, <1>4 DEF ResultInv

(* A step that delivers and returns nothing, and moves a node that has     *)
(* returned nothing or stops it.                                           *)
LEMMA MoveResults ==
  ASSUME ResultInv, NEW p \in Correct,
         NEW s \in {"multicast", "collect", "final", "crashed", "stopped"},
         UNCHANGED <<input, output, result, complained>>,
         stage' = [stage EXCEPT ![p] = s],
         stage[p] \notin {"done", "stopped"} \/ s = "stopped"
  PROVE  ResultInv'
<1>1. Typed'
  BY DEF ResultInv, Typed
<1>2. OutputsAgree' /\ ResultsFollow'
  BY DEF ResultInv, OutputsAgree, ResultsFollow
<1>3. ResultsLast'
  BY DEF ResultInv, ResultsLast, Typed
<1> QED BY <1>1, <1>2, <1>3 DEF ResultInv

(* FINAL is returned with a complaint, or is of the node's own outcome.    *)
LEMMA FinalDoneResults ==
  ASSUME ResultInv, NEW p \in Correct, NEW v \in Values, FinalDone(p, v)
  PROVE  ResultInv'
<1>1. /\ result' = [result EXCEPT ![p] = v]
      /\ complained' = IF v = output[p] THEN complained ELSE complained \cup {p}
      /\ stage' = [stage EXCEPT ![p] = "done"]
      /\ UNCHANGED <<input, output>>
  BY DEF FinalDone, Enter, rbc
<1>2. Typed'
  BY <1>1 DEF ResultInv, Typed
<1>3. OutputsAgree'
  BY <1>1 DEF ResultInv, OutputsAgree
<1>4. ResultsLast'
  BY <1>1 DEF ResultInv, ResultsLast, Typed
<1>5. ResultsFollow'
  BY <1>1 DEF ResultInv, ResultsFollow, Typed
<1> QED BY <1>2, <1>3, <1>4, <1>5 DEF ResultInv

(* Messages in transit, correct or not, change nothing of it.              *)
LEMMA QuietResults ==
  ASSUME ResultInv, UNCHANGED <<input, output, stage, result, complained>>
  PROVE  ResultInv'
BY DEF ResultInv, Typed, OutputsAgree, ResultsLast, ResultsFollow

(* ResultInv is an invariant of the round.                                 *)
THEOREM Invariance == Spec => []ResultInv
<1>1. ASSUME ResultInv, [Next]_vars
      PROVE  ResultInv'
  <2>1. CASE \E v \in Values : DealerInput(v)
    BY <1>1, <2>1, DealerInputResults
  <2>2. CASE \E p \in Correct, o \in Values \cup {Failed} : RbcReturn(p, o)
    BY <1>1, <2>2, RbcReturnResults
  <2>3. CASE \E p \in Correct : VerifyDone(p)
    <3>1. PICK p \in Correct : VerifyDone(p)
      BY <2>3
    <3> QED BY <1>1, <3>1, MoveResults DEF VerifyDone, Enter, rbc
  <2>4. CASE \E p \in Correct : MulticastDone(p)
    <3>1. PICK p \in Correct : MulticastDone(p)
      BY <2>4
    <3>2. \E s \in {"collect", "final"} : stage' = [stage EXCEPT ![p] = s]
      BY <3>1 DEF MulticastDone, Enter
    <3> QED BY <1>1, <3>1, <3>2, MoveResults DEF MulticastDone, rbc
  <2>5. CASE LeaderReads
    <3>1. PICK x \in inbox[Leader] :
            Redundant(x) \/ Collect(x) \/ Decode(x) \/ TooFewToRecover(x)
      BY <2>5 DEF LeaderReads
    <3>2. Leader \in Correct
      BY <2>5 DEF LeaderReads
    <3>3. CASE Redundant(x) \/ Collect(x)
      BY <1>1, <3>3, QuietResults DEF Redundant, Collect, rbc
    <3>4. CASE Decode(x)
      BY <1>1, <3>2, <3>4, MoveResults DEF Decode, Accepts, Reads, rbc
    <3>5. CASE TooFewToRecover(x)
      BY <1>1, <3>2, <3>5, MoveResults DEF TooFewToRecover, Accepts, Reads, Enter, rbc
    <3> QED BY <3>1, <3>3, <3>4, <3>5
  <2>6. CASE \E p \in Correct, v \in Values : FinalDone(p, v)
    BY <1>1, <2>6, FinalDoneResults
  <2>7. CASE \E p, q \in Correct : Transmit(p, q)
    BY <1>1, <2>7, QuietResults DEF Transmit, rbc
  <2>8. CASE \E p \in Correct : Stop(p)
    BY <1>1, <2>8, MoveResults DEF Stop, rbc
  <2>9. CASE \E q \in Faulty, p \in Correct, m \in Messages : FaultySend(q, p, m)
    BY <1>1, <2>9, QuietResults DEF FaultySend, rbc
  <2>10. CASE \E p \in Correct : UnknownTag(p)
    BY <1>1, <2>10, QuietResults DEF UnknownTag, rbc
  <2>11. CASE \E p \in Correct : Malformed(p)
    <3>1. PICK p \in Correct : Malformed(p)
      BY <2>11
    <3>2. stage[p] \notin {"done", "stopped"} /\ stage' = [stage EXCEPT ![p] = "crashed"]
      BY <3>1 DEF Malformed, Enter
    <3> QED BY <1>1, <3>1, <3>2, MoveResults DEF Malformed, rbc
  <2>12. CASE UNCHANGED vars
    BY <1>1, <2>12, QuietResults DEF vars
  <2> QED BY <1>1, <2>1, <2>2, <2>3, <2>4, <2>5, <2>6, <2>7, <2>8, <2>9, <2>10, <2>11, <2>12
          DEF Next, CorrectStep
<1> QED BY <1>1, InitResults, PTL DEF Spec

(* Two correct nodes that finish without complaining hold shares of one    *)
(* value.                                                                  *)
THEOREM NoSilentDivergenceHolds == Spec => []NoSilentDivergence
<1>1. ResultInv => NoSilentDivergence
  BY DEF ResultInv, OutputsAgree, ResultsFollow, NoSilentDivergence
<1> QED BY <1>1, Invariance, PTL

(* What nodes return of a correct dealer's data without complaining is     *)
(* that data.                                                              *)
THEOREM DataKeptHolds == Spec => []DataKept
<1>1. ResultInv => DataKept
  BY DEF ResultInv, OutputsAgree, ResultsFollow, DataKept
<1> QED BY <1>1, Invariance, PTL

-----------------------------------------------------------------------------
(* Division by the number of nodes is monotone.                            *)
LEMMA DivMonotone ==
  ASSUME NEW n \in Nat \ {0}, NEW a \in Nat, NEW b \in Nat, a <= b
  PROVE  a \div n \in Nat /\ b \div n \in Nat /\ a \div n <= b \div n
OBVIOUS

(* A multiple is divided exactly.                                          *)
LEMMA DivExact == ASSUME NEW n \in Nat \ {0}, NEW a \in Nat PROVE (n * a) \div n = a
OBVIOUS

(* There are nodes, and they are the numbers below N.                      *)
LEMMA NodeRange == N \in Nat \ {0} /\ Nodes = 0 .. N - 1 /\ size \in Nat
<1>1. N \in Nat
  BY NodeSets
<1>2. N # 0
  BY <1>1, NodeNumbers
<1> QED BY <1>1, <1>2, NodeNumbers, SizeAssumption

(* A later node's range starts where, or after, an earlier one's ends.     *)
LEMMA RangesInOrder ==
  ASSUME NEW i \in Nat, NEW j \in Nat, i < j
  PROVE  /\ ((i + 1) * size) \div N \in Nat /\ (j * size) \div N \in Nat
         /\ ((i + 1) * size) \div N <= (j * size) \div N
<1>1. (i + 1) * size \in Nat /\ j * size \in Nat
  BY NodeRange
<1>2. PICK k \in Nat : j = (i + 1) + k
  <2>1. j - (i + 1) \in Nat /\ j = (i + 1) + (j - (i + 1))
    OBVIOUS
  <2> QED BY <2>1
<1>3. j * size = (i + 1) * size + k * size /\ k * size \in Nat
  BY <1>2, NodeRange
<1>4. (i + 1) * size <= j * size
  BY <1>1, <1>3
<1> QED BY <1>1, <1>4, NodeRange, DivMonotone

(* No stripe belongs to two nodes: the ranges of refresh_2.py, line 70.    *)
LEMMA RangesDisjoint ==
  ASSUME NEW i \in Nodes, NEW j \in Nodes, NEW x, x \in ShareRange(i), x \in ShareRange(j)
  PROVE  i = j
<1>1. i \in Nat /\ j \in Nat
  BY NodeRange
<1>2. ASSUME NEW a \in Nat, NEW b \in Nat, a < b, x \in ShareRange(a), x \in ShareRange(b)
      PROVE  FALSE
  <2>1. /\ ((a + 1) * size) \div N \in Nat /\ (b * size) \div N \in Nat
        /\ ((a + 1) * size) \div N <= (b * size) \div N
    BY <1>2, RangesInOrder
  <2>2. x \in Int /\ x <= ((a + 1) * size) \div N - 1 /\ (b * size) \div N <= x
    BY <1>2, <2>1 DEF ShareRange, start_index, end_index
  <2> QED BY <2>1, <2>2
<1>3. i < j \/ j < i \/ i = j
  BY <1>1
<1> QED BY <1>1, <1>2, <1>3

(* The last range ends with the last stripe.                               *)
LEMMA RangeBound ==
  ASSUME NEW i \in Nodes
  PROVE  ShareRange(i) \subseteq 0 .. size - 1
<1>1. i \in Nat /\ i < N /\ N \in Nat
  BY NodeRange
<1>2. /\ ((i + 1) * size) \div N \in Nat
      /\ ((i + 1) * size) \div N <= size
  <2>1. CASE i + 1 < N
    <3>1. ((i + 1) * size) \div N <= (N * size) \div N /\ ((i + 1) * size) \div N \in Nat
      <4>1. /\ ((i + 1) * size) \div N \in Nat /\ ((i + 2) * size) \div N \in Nat
        BY <1>1, RangesInOrder, NodeRange
      <4> QED BY <1>1, RangesInOrder
    <3>2. (N * size) \div N = size
      BY NodeRange, DivExact
    <3> QED BY <3>1, <3>2
  <2>2. CASE i + 1 = N
    <3>1. (N * size) \div N = size
      BY NodeRange, DivExact
    <3> QED BY <2>2, <3>1, NodeRange
  <2> QED BY <1>1, <2>1, <2>2
<1>3. (i * size) \div N \in Nat
  <2>1. i * size \in Nat
    BY <1>1, NodeRange
  <2> QED BY <2>1, NodeRange, DivMonotone
<1> QED BY <1>2, <1>3, NodeRange DEF ShareRange, start_index, end_index

(* The stripes of a correct node's share, in order: the start index is a   *)
(* number, every stripe is in the node's range, and below size.            *)
LEMMA ShareItems ==
  ASSUME NEW p \in Nodes
  PROVE  /\ start_index(p) \in Nat /\ end_index(p) \in Nat
         /\ DOMAIN share(p) = 1 .. end_index(p) - start_index(p)
         /\ \A i \in DOMAIN share(p) : /\ share(p)[i] = start_index(p) + i - 1
                                       /\ share(p)[i] \in ShareRange(p)
         /\ share(p) \in Seq(0 .. size - 1)
<1>1. start_index(p) \in Nat /\ end_index(p) \in Nat
  <2>1. p \in Nat /\ p * size \in Nat /\ (p + 1) * size \in Nat
    BY NodeRange
  <2> QED BY <2>1, NodeRange, DivMonotone DEF start_index, end_index
<1>2. DOMAIN share(p) = 1 .. end_index(p) - start_index(p)
  BY DEF share
<1>3. \A i \in DOMAIN share(p) : /\ share(p)[i] = start_index(p) + i - 1
                                 /\ share(p)[i] \in ShareRange(p)
  BY <1>1 DEF share, ShareRange
<1>4. share(p) \in Seq(0 .. size - 1)
  <2>1. share(p) \in [1 .. end_index(p) - start_index(p) -> 0 .. size - 1]
    BY <1>3, RangeBound DEF share
  <2>2. \E n \in Nat : 1 .. end_index(p) - start_index(p) = 1 .. n
    <3>1. CASE end_index(p) - start_index(p) \in Nat
      BY <3>1
    <3>2. CASE end_index(p) - start_index(p) \notin Nat
      <4>1. 1 .. end_index(p) - start_index(p) = 1 .. 0
        BY <1>1, <3>2
      <4> QED BY <4>1
    <3> QED BY <3>1, <3>2
  <2>3. PICK n \in Nat : 1 .. end_index(p) - start_index(p) = 1 .. n
    BY <2>2
  <2>4. share(p) \in [1 .. n -> 0 .. size - 1]
    BY <2>1, <2>3
  <2> QED BY <2>4, SeqDef
<1> QED BY <1>1, <1>2, <1>3, <1>4

(* An item the leader verifies of a correct node's share.                  *)
LEMMA VerifiedItem ==
  ASSUME NEW S,
         \A x \in S : /\ x[1] \in Correct
                      /\ \E v \in Values : x = <<x[1], Msg("SHARE", x[1], v, share(x[1]))>>,
         NEW xi \in Verified(S)
  PROVE  LET q == xi[1][1]
         IN  /\ q \in Nodes
             /\ xi = <<xi[1], xi[2]>>
             /\ xi[1] = <<q, Msg("SHARE", q, output[Leader], share(q))>>
             /\ xi[2] \in DOMAIN share(q)
             /\ xi[1][2].items[xi[2]] = share(q)[xi[2]]
<1>1. PICK x \in S : x[2].val = output[Leader] /\ xi \in {x} \X DOMAIN x[2].items
  BY DEF Verified
<1>2. xi[1] = x /\ xi[2] \in DOMAIN x[2].items /\ xi = <<xi[1], xi[2]>>
  BY <1>1
<1>3. PICK v \in Values : x = <<x[1], Msg("SHARE", x[1], v, share(x[1]))>>
  OBVIOUS
<1>4. x[2].val = v /\ x[2].items = share(x[1])
  <2>1. x[2] = Msg("SHARE", x[1], v, share(x[1]))
    BY <1>3
  <2> QED BY <2>1 DEF Msg
<1>5. x[1] \in Nodes
  BY DEF Correct
<1> QED BY <1>1, <1>2, <1>3, <1>4, <1>5

(* There are finitely many stripes.                                        *)
LEMMA StripesFinite == IsFiniteSet(0 .. size - 1)
BY FS_Interval, NodeRange

(* Positions of one share differ where their stripes do.                   *)
LEMMA SamePosition ==
  ASSUME NEW s \in Nat, NEW e \in Nat, NEW i \in 1 .. e - s, NEW j \in 1 .. e - s,
         s + i - 1 = s + j - 1
  PROVE  i = j
OBVIOUS

(* The leader's counter counts no stripe of correct nodes twice.           *)
LEMMA CounterCounts ==
  ASSUME NEW S,
         \A x \in S : /\ x[1] \in Correct
                      /\ \E v \in Values : x = <<x[1], Msg("SHARE", x[1], v, share(x[1]))>>
  PROVE  /\ counter(S) \in Nat /\ Cardinality(values(S)) \in Nat
         /\ counter(S) <= Cardinality(values(S))
<1> DEFINE item == [xi \in Verified(S) |-> xi[1][2].items[xi[2]]]
<1>1. \A xi \in Verified(S) : item[xi] \in 0 .. size - 1
  <2> SUFFICES ASSUME NEW xi \in Verified(S) PROVE item[xi] \in 0 .. size - 1
    OBVIOUS
  <2>1. PICK q \in Nodes : xi[2] \in DOMAIN share(q) /\ item[xi] = share(q)[xi[2]]
    BY VerifiedItem
  <2>2. share(q)[xi[2]] \in ShareRange(q)
    BY <2>1, ShareItems
  <2> QED BY <2>1, <2>2, RangeBound
<1>2. IsFiniteSet(values(S)) /\ Cardinality(values(S)) \in Nat
  <2>1. IsFiniteSet(0 .. size - 1)
    BY StripesFinite
  <2>2. values(S) \subseteq 0 .. size - 1
    BY <1>1 DEF values
  <2> QED BY <2>1, <2>2, FS_Subset, FS_CardinalityType
<1>3. item \in Injection(Verified(S), values(S))
  <2>1. item \in [Verified(S) -> values(S)]
    BY DEF values
  <2>2. ASSUME NEW a \in Verified(S), NEW b \in Verified(S), item[a] = item[b] PROVE a = b
    <3>1. PICK q \in Nodes : /\ a = <<<<q, Msg("SHARE", q, output[Leader], share(q))>>, a[2]>>
                             /\ a[2] \in DOMAIN share(q) /\ item[a] = share(q)[a[2]]
      BY VerifiedItem
    <3>2. PICK r \in Nodes : /\ b = <<<<r, Msg("SHARE", r, output[Leader], share(r))>>, b[2]>>
                             /\ b[2] \in DOMAIN share(r) /\ item[b] = share(r)[b[2]]
      BY VerifiedItem
    <3>3. item[a] \in ShareRange(q) /\ item[a] \in ShareRange(r)
      BY <2>2, <3>1, <3>2, ShareItems
    <3>4. q = r
      BY <3>3, RangesDisjoint
    <3>5. a[2] = b[2]
      <4> HIDE DEF item
      <4>1. a[2] \in DOMAIN share(q) /\ b[2] \in DOMAIN share(q)
        BY <3>1, <3>2, <3>4
      <4>2. share(q)[a[2]] = share(q)[b[2]]
        BY <2>2, <3>1, <3>2, <3>4
      <4>3. /\ start_index(q) \in Nat /\ end_index(q) \in Nat
            /\ a[2] \in 1 .. end_index(q) - start_index(q)
            /\ b[2] \in 1 .. end_index(q) - start_index(q)
            /\ start_index(q) + a[2] - 1 = start_index(q) + b[2] - 1
        BY <4>1, <4>2, ShareItems
      <4> QED BY <4>3, SamePosition
    <3> QED BY <3>1, <3>2, <3>4, <3>5
  <2> QED BY <2>1, <2>2, Fun_IsInj
<1>4. IsFiniteSet(Verified(S)) /\ Cardinality(Verified(S)) <= Cardinality(values(S))
  <2> HIDE DEF item
  <2> QED BY <1>2, <1>3, FS_Injection
<1>5. Cardinality(Verified(S)) \in Nat
  BY <1>4, FS_CardinalityType
<1> QED BY <1>2, <1>4, <1>5 DEF counter

-----------------------------------------------------------------------------
(* RoundInv, part by part: the flat variables, the queues of the clients,  *)
(* the queues of the steps, the shares read.                               *)
Stages == {"rbc", "verify", "multicast", "collect", "final", "done", "crashed", "stopped"}
FlatOK ==
  /\ input \in Values \cup {None}
  /\ output \in [Correct -> Values \cup {None, Failed}]
  /\ stage \in [Correct -> Stages]
  /\ deaf \subseteq Correct
  /\ result \in [Correct -> Values \cup {None}]
  /\ complained \subseteq Correct
OutboxOK ==
  /\ outbox \in [Correct -> [Correct -> Seq(Messages)]]
  /\ \A p, q \in Correct : outbox[p][q] \in Seq(Built(p))
InboxOK ==
  /\ inbox \in [Correct -> SUBSET (Nodes \X Messages)]
  /\ \A q \in Correct : \A x \in inbox[q] : x[1] \in Correct => x[2] \in Built(x[1])
SharesOK ==
  /\ shares \subseteq Nodes \X Messages
  /\ \A x \in FromCorrect : \E v \in Values : x[2] = Msg("SHARE", x[1], v, share(x[1]))
RoundParts == FlatOK /\ OutboxOK /\ InboxOK /\ SharesOK /\ ValueHeld /\ DecodeBlamed

(* What the code builds has the format of a message.                       *)
LEMMA BuiltMessages ==
  ASSUME NEW p \in Nodes
  PROVE  /\ Built(p) \subseteq Messages
         /\ \A v \in Values : /\ Msg("VERIFY", p, v, << >>) \in Built(p)
                              /\ Msg("PROOF", p, v, << >>) \in Built(p)
                              /\ Msg("FINAL", p, v, << >>) \in Built(p)
                              /\ Msg("SHARE", p, v, share(p)) \in Built(p)
<1>1. << >> \in Seq(0 .. size - 1)
  BY EmptySeq
<1>2. share(p) \in Seq(0 .. size - 1)
  BY ShareItems
<1>3. ASSUME NEW v \in Values, NEW tag \in {"VERIFY", "PROOF", "FINAL"}
      PROVE  Msg(tag, p, v, << >>) \in Messages
  BY <1>1 DEF Msg, Messages
<1>4. ASSUME NEW v \in Values PROVE Msg("SHARE", p, v, share(p)) \in Messages
  BY <1>2 DEF Msg, Messages
<1>5. Built(p) \subseteq Messages
  BY <1>3, <1>4 DEF Built
<1>6. ASSUME NEW v \in Values
      PROVE  /\ Msg("VERIFY", p, v, << >>) \in Built(p) /\ Msg("PROOF", p, v, << >>) \in Built(p)
             /\ Msg("FINAL", p, v, << >>) \in Built(p) /\ Msg("SHARE", p, v, share(p)) \in Built(p)
  BY DEF Built
<1> QED BY <1>5, <1>6

(* A sequence of what p builds is one of messages.                         *)
LEMMA BuiltSequences ==
  ASSUME NEW p \in Nodes, NEW s \in Seq(Built(p))
  PROVE  s \in Seq(Messages)
<1>1. Built(p) \subseteq Messages
  BY BuiltMessages
<1> HIDE DEF Built, Messages
<1>2. PICK n \in Nat : s \in [1 .. n -> Built(p)]
  BY SeqDef
<1>3. s \in [1 .. n -> Messages]
  BY <1>1, <1>2
<1> QED BY <1>3, SeqDef

(* p's queues are replaced by queues of what p builds.                     *)
LEMMA OutboxSet ==
  ASSUME OutboxOK, NEW p \in Correct, NEW box,
         box \in [Correct -> Seq(Built(p))], outbox' = [outbox EXCEPT ![p] = box]
  PROVE  OutboxOK'
<1>1. p \in Nodes
  BY DEF Correct
<1>2. \A q \in Correct : box[q] \in Seq(Messages)
  BY <1>1, BuiltSequences
<1>3. outbox' \in [Correct -> [Correct -> Seq(Messages)]]
  <2>1. box \in [Correct -> Seq(Messages)]
    BY <1>2
  <2> QED BY <2>1 DEF OutboxOK
<1>4. ASSUME NEW a \in Correct, NEW b \in Correct PROVE outbox'[a][b] \in Seq(Built(a))
  <2>1. CASE a = p
    <3>1. outbox'[a] = box
      BY <2>1 DEF OutboxOK
    <3> QED BY <2>1, <3>1
  <2>2. CASE a # p
    <3>1. outbox'[a] = outbox[a]
      BY <2>2 DEF OutboxOK
    <3> QED BY <3>1 DEF OutboxOK
  <2> QED BY <2>1, <2>2
<1> QED BY <1>3, <1>4 DEF OutboxOK

(* A broadcast appends a message to every queue.                           *)
LEMMA BroadcastBuilt ==
  ASSUME OutboxOK, NEW p \in Correct, NEW v \in Values, NEW tag \in {"VERIFY", "PROOF", "FINAL"}
  PROVE  Broadcast(p, tag, v) \in [Correct -> Seq(Built(p))]
<1>1. Msg(tag, p, v, << >>) \in Built(p)
  BY BuiltMessages DEF Correct
<1>2. \A q \in Correct : Append(outbox[p][q], Msg(tag, p, v, << >>)) \in Seq(Built(p))
  BY <1>1, AppendProperties DEF OutboxOK
<1> QED BY <1>2 DEF Broadcast

(* A node's queue of messages shrinks, or a message arrives that is of a   *)
(* faulty node or as its sender builds it.                                 *)
LEMMA InboxShrinks ==
  ASSUME InboxOK, NEW p \in Correct, NEW kept,
         kept \subseteq inbox[p], inbox' = [inbox EXCEPT ![p] = kept]
  PROVE  InboxOK'
<1>1. kept \in SUBSET (Nodes \X Messages)
  BY DEF InboxOK
<1>2. \A q \in Correct : inbox'[q] \subseteq inbox[q]
  BY DEF InboxOK
<1> QED BY <1>1, <1>2 DEF InboxOK

(* One message more, of a faulty node or as its sender builds it.          *)
LEMMA InboxGrows ==
  ASSUME InboxOK, NEW p \in Correct, NEW q \in Nodes, NEW m \in Messages,
         q \in Correct => m \in Built(q),
         inbox' = [inbox EXCEPT ![p] = @ \cup {<<q, m>>}]
  PROVE  InboxOK'
<1>1. inbox[p] \cup {<<q, m>>} \in SUBSET (Nodes \X Messages)
  BY DEF InboxOK
<1>2. inbox' \in [Correct -> SUBSET (Nodes \X Messages)]
  BY <1>1 DEF InboxOK
<1>3. ASSUME NEW r \in Correct, NEW x \in inbox'[r], x[1] \in Correct PROVE x[2] \in Built(x[1])
  <2>1. x \in inbox[r] \/ x = <<q, m>>
    BY DEF InboxOK
  <2>2. CASE x \in inbox[r]
    BY <1>3, <2>2 DEF InboxOK
  <2>3. CASE x = <<q, m>>
    BY <1>3, <2>3
  <2> QED BY <2>1, <2>2, <2>3
<1> QED BY <1>2, <1>3 DEF InboxOK

(* Entering a stage forgets messages and adds none.                        *)
LEMMA EnterType ==
  ASSUME FlatOK, InboxOK, NEW p \in Correct, NEW s \in Stages, Enter(p, s)
  PROVE  /\ stage' \in [Correct -> Stages] /\ InboxOK'
         /\ \A q \in Correct : stage'[q] = IF q = p THEN s ELSE stage[q]
<1>1. stage' = [stage EXCEPT ![p] = s]
  BY DEF Enter
<1>2. inbox' = [inbox EXCEPT ![p] = {m \in inbox[p] : m[2].tag \in Awaited(p, s)}]
  BY DEF Enter
<1>3. InboxOK'
  <2>1. {m \in inbox[p] : m[2].tag \in Awaited(p, s)} \subseteq inbox[p]
    OBVIOUS
  <2> QED BY <1>2, <2>1, InboxShrinks
<1> QED BY <1>1, <1>3 DEF FlatOK

(* The leader accepts a share.                                             *)
LEMMA AcceptsShares ==
  ASSUME InboxOK, SharesOK, Leader \in Correct, NEW x \in inbox[Leader], Accepts(x)
  PROVE  SharesOK'
<1>1. shares' = shares \cup {x} /\ x[2].tag = "SHARE"
  BY DEF Accepts, Reads
<1>2. x \in Nodes \X Messages
  BY DEF InboxOK
<1>3. x[1] \in Correct => \E v \in Values : x[2] = Msg("SHARE", x[1], v, share(x[1]))
  <2> SUFFICES ASSUME x[1] \in Correct PROVE \E v \in Values : x[2] = Msg("SHARE", x[1], v, share(x[1]))
    OBVIOUS
  <2>1. x[2] \in Built(x[1])
    BY DEF InboxOK
  <2> QED BY <1>1, <2>1 DEF Built, Msg
<1>4. shares' \subseteq Nodes \X Messages
  BY <1>1, <1>2 DEF SharesOK
<1>5. ASSUME NEW y \in FromCorrect' PROVE \E v \in Values : y[2] = Msg("SHARE", y[1], v, share(y[1]))
  <2>1. y[1] \in Correct /\ (y \in shares \/ y = x)
    BY <1>1 DEF FromCorrect
  <2>2. CASE y \in shares
    BY <2>1, <2>2 DEF SharesOK, FromCorrect
  <2>3. CASE y = x
    BY <1>3, <2>1, <2>3
  <2> QED BY <2>1, <2>2, <2>3
<1> QED BY <1>4, <1>5 DEF SharesOK

(* Of correct nodes' shares alone enough items are enough stripes.         *)
LEMMA HonestCount ==
  ASSUME SharesOK
  PROVE  /\ counter(FromCorrect) \in Nat /\ Cardinality(values(FromCorrect)) \in Nat
         /\ counter(FromCorrect) <= Cardinality(values(FromCorrect))
<1>1. \A x \in FromCorrect : x = <<x[1], x[2]>> /\ x[1] \in Correct
  BY DEF SharesOK, FromCorrect
<1>2. \A x \in FromCorrect :
        /\ x[1] \in Correct
        /\ \E v \in Values : x = <<x[1], Msg("SHARE", x[1], v, share(x[1]))>>
  BY <1>1 DEF SharesOK
<1> QED BY <1>2, CounterCounts

(* At the start no message is under way.                                   *)
LEMMA InitRound == Init => RoundParts
<1> SUFFICES ASSUME Init PROVE RoundParts
  OBVIOUS
<1>1. FlatOK
  BY DEF Init, RBC!Init, FlatOK, Stages
<1>2. OutboxOK
  <2>1. << >> \in Seq(Messages) /\ \A p \in Correct : << >> \in Seq(Built(p))
    BY EmptySeq
  <2> QED BY <2>1 DEF Init, OutboxOK
<1>3. InboxOK /\ SharesOK /\ ValueHeld /\ DecodeBlamed
  BY DEF Init, InboxOK, SharesOK, FromCorrect, ValueHeld, DecodeBlamed
<1> QED BY <1>1, <1>2, <1>3 DEF RoundParts

(* The dealer's data is one of the values.                                 *)
LEMMA DealerInputRound ==
  ASSUME RoundParts, NEW v \in Values, DealerInput(v)
  PROVE  RoundParts'
<1>1. input' = v /\ UNCHANGED <<output, stage, outbox, inbox, shares, deaf, result, complained>>
  BY DEF DealerInput, RBC!Input
<1>2. FlatOK' /\ OutboxOK' /\ InboxOK'
  BY <1>1 DEF RoundParts, FlatOK, OutboxOK, InboxOK
<1>3. SharesOK' /\ ValueHeld' /\ DecodeBlamed'
  BY <1>1 DEF RoundParts, SharesOK, FromCorrect, ValueHeld, DecodeBlamed
<1> QED BY <1>2, <1>3 DEF RoundParts

(* Only a failed broadcast leaves a node without a value, and a correct    *)
(* dealer's does not fail.                                                 *)
LEMMA RbcReturnRound ==
  ASSUME RoundParts, NEW p \in Correct, NEW o \in Values \cup {Failed}, RbcReturn(p, o)
  PROVE  RoundParts'
<1> DEFINE s == IF o = Failed THEN "crashed" ELSE "verify"
<1>t. FlatOK /\ OutboxOK /\ InboxOK /\ SharesOK /\ ValueHeld /\ DecodeBlamed
  BY DEF RoundParts
<1>1. /\ Leader \in Correct => o = input
      /\ output' = [output EXCEPT ![p] = o]
      /\ Enter(p, s)
      /\ outbox' = IF o = Failed THEN outbox
                   ELSE [outbox EXCEPT ![p] = Broadcast(p, "VERIFY", o)]
      /\ UNCHANGED <<input, shares, deaf, result, complained>>
  BY DEF RbcReturn, RBC!Deliver
<1>s. s \in Stages /\ (o # Failed => s = "verify") /\ s \notin {"multicast", "collect"}
      /\ (o = Failed => s = "crashed")
  BY DEF Stages
<1> HIDE DEF s
<1>2. /\ stage' \in [Correct -> Stages] /\ InboxOK'
      /\ \A q \in Correct : stage'[q] = IF q = p THEN s ELSE stage[q]
  BY <1>s, <1>t, <1>1, EnterType
<1>3. OutboxOK'
  <2>1. CASE o = Failed
    BY <2>1, <1>t, <1>1 DEF OutboxOK
  <2>2. CASE o # Failed
    <3>1. Broadcast(p, "VERIFY", o) \in [Correct -> Seq(Built(p))]
      BY <2>2, <1>t, BroadcastBuilt
    <3> QED BY <2>2, <3>1, <1>t, <1>1, OutboxSet
  <2> QED BY <2>1, <2>2
<1>4. FlatOK' /\ SharesOK'
  BY <1>t, <1>1, <1>2 DEF FlatOK, SharesOK, FromCorrect
<1>5. ValueHeld'
  <2>1. \A q \in Correct : output'[q] = IF q = p THEN o ELSE output[q]
    BY <1>t, <1>1 DEF FlatOK
  <2>2. s = "verify" => o \in Values
    BY <1>s
  <2>3. ASSUME NEW q \in Correct, stage'[q] \in {"verify", "multicast", "collect"}
        PROVE  output'[q] \in Values
    <3>1. CASE q = p
      BY <2>1, <2>2, <2>3, <3>1, <1>2, <1>s
    <3>2. CASE q # p
      BY <2>1, <2>3, <3>2, <1>2, <1>t DEF ValueHeld
    <3> QED BY <3>1, <3>2
  <2> QED BY <2>3 DEF ValueHeld
<1>6. DecodeBlamed'
  <2>1. Leader \in Correct => o # Failed
    BY <1>1, <1>t, OutcomesDiffer DEF FlatOK
  <2>2. Leader \in Correct /\ stage'[Leader] = "crashed" => stage[Leader] = "crashed"
    BY <2>1, <1>2, <1>s
  <2> QED BY <2>2, <1>t, <1>1 DEF DecodeBlamed, FromCorrect
<1> QED BY <1>2, <1>3, <1>4, <1>5, <1>6 DEF RoundParts

(* A step of one node that reads no share and keeps its value: its stage,  *)
(* queues and result change.                                               *)
LEMMA StepRound ==
  ASSUME RoundParts, NEW p \in Correct, NEW s \in Stages,
         OutboxOK', InboxOK',
         stage' \in [Correct -> Stages],
         \A q \in Correct : stage'[q] = IF q = p THEN s ELSE stage[q],
         UNCHANGED <<input, output, shares>>,
         deaf' \subseteq Correct, deaf \subseteq deaf',
         result' \in [Correct -> Values \cup {None}], complained' \subseteq Correct,
         s \in {"multicast", "collect"} => output[p] \in Values,
         s # "verify",
         s = "crashed" => p \in deaf'
  PROVE  RoundParts'
<1>t. FlatOK /\ SharesOK /\ ValueHeld /\ DecodeBlamed
  BY DEF RoundParts
<1>1. FlatOK' /\ SharesOK'
  BY <1>t DEF FlatOK, SharesOK, FromCorrect
<1>2. ValueHeld'
  BY <1>t DEF ValueHeld
<1>3. DecodeBlamed'
  BY <1>t DEF DecodeBlamed, FromCorrect
<1> QED BY <1>1, <1>2, <1>3 DEF RoundParts

(* The vote and the share are of the value held.                           *)
LEMMA VerifyDoneRound ==
  ASSUME RoundParts, NEW p \in Correct, VerifyDone(p)
  PROVE  RoundParts'
<1> DEFINE voted == Broadcast(p, "PROOF", output[p])
           sent == [q \in Correct |-> IF q = Leader
                      THEN Append(voted[q], Msg("SHARE", p, output[p], share(p))) ELSE voted[q]]
<1>t. FlatOK /\ OutboxOK /\ InboxOK /\ ValueHeld
  BY DEF RoundParts
<1>1. /\ stage[p] = "verify" /\ Enter(p, "multicast")
      /\ outbox' = [outbox EXCEPT ![p] = sent]
      /\ UNCHANGED <<input, output, shares, deaf, result, complained>>
  BY DEF VerifyDone, rbc
<1>2. output[p] \in Values
  BY <1>1, <1>t DEF ValueHeld
<1>3. sent \in [Correct -> Seq(Built(p))]
  <2>1. voted \in [Correct -> Seq(Built(p))]
    BY <1>2, <1>t, BroadcastBuilt
  <2>2. Msg("SHARE", p, output[p], share(p)) \in Built(p)
    BY <1>2, BuiltMessages DEF Correct
  <2> HIDE DEF voted
  <2>3. \A q \in Correct : Append(voted[q], Msg("SHARE", p, output[p], share(p))) \in Seq(Built(p))
    BY <2>1, <2>2, AppendProperties
  <2> QED BY <2>1, <2>3
<1>4. OutboxOK'
  <2> HIDE DEF sent
  <2> QED BY <1>t, <1>1, <1>3, OutboxSet
<1>5. "multicast" \in Stages
  BY DEF Stages
<1>6. /\ stage' \in [Correct -> Stages] /\ InboxOK'
      /\ \A q \in Correct : stage'[q] = IF q = p THEN "multicast" ELSE stage[q]
  BY <1>t, <1>1, <1>5, EnterType
<1>7. /\ UNCHANGED <<input, output, shares>>
      /\ deaf' \subseteq Correct /\ deaf \subseteq deaf'
      /\ result' \in [Correct -> Values \cup {None}] /\ complained' \subseteq Correct
  BY <1>t, <1>1 DEF FlatOK
<1> QED BY <1>2, <1>4, <1>5, <1>6, <1>7, StepRound

(* The leader goes on to collect, everybody else waits for FINAL.          *)
LEMMA MulticastDoneRound ==
  ASSUME RoundParts, NEW p \in Correct, MulticastDone(p)
  PROVE  RoundParts'
<1> DEFINE s == IF p = Leader THEN "collect" ELSE "final"
<1>t. FlatOK /\ OutboxOK /\ InboxOK /\ ValueHeld
  BY DEF RoundParts
<1>1. /\ stage[p] = "multicast" /\ Enter(p, s)
      /\ UNCHANGED <<input, output, outbox, shares, deaf, result, complained>>
  BY DEF MulticastDone, rbc
<1>2. output[p] \in Values
  BY <1>1, <1>t DEF ValueHeld
<1>3. s \in Stages /\ s \notin {"verify", "crashed"}
  BY DEF Stages
<1> HIDE DEF s
<1>4. /\ stage' \in [Correct -> Stages] /\ InboxOK'
      /\ \A q \in Correct : stage'[q] = IF q = p THEN s ELSE stage[q]
  BY <1>t, <1>1, <1>3, EnterType
<1>5. OutboxOK'
  BY <1>t, <1>1 DEF OutboxOK
<1>6. /\ UNCHANGED <<input, output, shares>>
      /\ deaf' \subseteq Correct /\ deaf \subseteq deaf'
      /\ result' \in [Correct -> Values \cup {None}] /\ complained' \subseteq Correct
  BY <1>t, <1>1 DEF FlatOK
<1> QED BY <1>2, <1>3, <1>4, <1>5, <1>6, StepRound

(* What is returned is one of the values.                                  *)
LEMMA FinalDoneRound ==
  ASSUME RoundParts, NEW p \in Correct, NEW v \in Values, FinalDone(p, v)
  PROVE  RoundParts'
<1>t. FlatOK /\ OutboxOK /\ InboxOK
  BY DEF RoundParts
<1>1. /\ Enter(p, "done")
      /\ result' = [result EXCEPT ![p] = v]
      /\ complained' = IF v = output[p] THEN complained ELSE complained \cup {p}
      /\ UNCHANGED <<input, output, outbox, shares, deaf>>
  BY DEF FinalDone, rbc
<1>2. "done" \in Stages
  BY DEF Stages
<1>3. /\ stage' \in [Correct -> Stages] /\ InboxOK'
      /\ \A q \in Correct : stage'[q] = IF q = p THEN "done" ELSE stage[q]
  BY <1>t, <1>1, <1>2, EnterType
<1>4. OutboxOK'
  BY <1>t, <1>1 DEF OutboxOK
<1>5. /\ UNCHANGED <<input, output, shares>>
      /\ deaf' \subseteq Correct /\ deaf \subseteq deaf'
      /\ result' \in [Correct -> Values \cup {None}] /\ complained' \subseteq Correct
  BY <1>t, <1>1 DEF FlatOK
<1> QED BY <1>2, <1>3, <1>4, <1>5, StepRound

(* A node stops after its result or its failure.                           *)
LEMMA StopRound ==
  ASSUME RoundParts, NEW p \in Correct, Stop(p)
  PROVE  RoundParts'
<1> DEFINE box == [q \in Correct |-> << >>]
<1>t. FlatOK /\ OutboxOK /\ InboxOK
  BY DEF RoundParts
<1>1. /\ stage' = [stage EXCEPT ![p] = "stopped"]
      /\ outbox' = [outbox EXCEPT ![p] = box]
      /\ UNCHANGED <<input, output, inbox, shares, deaf, result, complained>>
  BY DEF Stop, rbc
<1>2. "stopped" \in Stages
  BY DEF Stages
<1>3. OutboxOK'
  <2>1. box \in [Correct -> Seq(Built(p))]
    BY EmptySeq
  <2> HIDE DEF box
  <2> QED BY <1>t, <1>1, <2>1, OutboxSet
<1>4. InboxOK'
  BY <1>t, <1>1 DEF InboxOK
<1>5. /\ stage' \in [Correct -> Stages]
      /\ \A q \in Correct : stage'[q] = IF q = p THEN "stopped" ELSE stage[q]
  BY <1>t, <1>1, <1>2 DEF FlatOK
<1>6. /\ UNCHANGED <<input, output, shares>>
      /\ deaf' \subseteq Correct /\ deaf \subseteq deaf'
      /\ result' \in [Correct -> Values \cup {None}] /\ complained' \subseteq Correct
  BY <1>t, <1>1 DEF FlatOK
<1> QED BY <1>2, <1>3, <1>4, <1>5, <1>6, StepRound

(* A step raises on a message.                                             *)
LEMMA MalformedRound ==
  ASSUME RoundParts, NEW p \in Correct, Malformed(p)
  PROVE  RoundParts'
<1>t. FlatOK /\ OutboxOK /\ InboxOK
  BY DEF RoundParts
<1>1. /\ Enter(p, "crashed") /\ deaf' = deaf \cup {p}
      /\ UNCHANGED <<input, output, outbox, shares, result, complained>>
  BY DEF Malformed, rbc
<1>2. "crashed" \in Stages
  BY DEF Stages
<1>3. /\ stage' \in [Correct -> Stages] /\ InboxOK'
      /\ \A q \in Correct : stage'[q] = IF q = p THEN "crashed" ELSE stage[q]
  BY <1>t, <1>1, <1>2, EnterType
<1>4. OutboxOK'
  BY <1>t, <1>1 DEF OutboxOK
<1>5. /\ UNCHANGED <<input, output, shares>>
      /\ deaf' \subseteq Correct /\ deaf \subseteq deaf' /\ p \in deaf'
      /\ result' \in [Correct -> Values \cup {None}] /\ complained' \subseteq Correct
  BY <1>t, <1>1 DEF FlatOK
<1> QED BY <1>2, <1>3, <1>4, <1>5, StepRound

(* Messages arrive or not, or a dispatcher raises.                         *)
LEMMA ArrivalRound ==
  ASSUME RoundParts, OutboxOK', InboxOK',
         UNCHANGED <<input, output, stage, shares, result, complained>>,
         deaf' \subseteq Correct, deaf \subseteq deaf'
  PROVE  RoundParts'
<1>1. FlatOK' /\ SharesOK'
  BY DEF RoundParts, FlatOK, SharesOK, FromCorrect
<1>2. ValueHeld' /\ DecodeBlamed'
  BY DEF RoundParts, ValueHeld, DecodeBlamed, FromCorrect
<1> QED BY <1>1, <1>2 DEF RoundParts

(* The client's next message, or none: one that nobody reads is dropped.   *)
LEMMA TransmitRound ==
  ASSUME RoundParts, NEW p \in Correct, NEW q \in Correct, Transmit(p, q)
  PROVE  RoundParts'
<1>t. FlatOK /\ OutboxOK /\ InboxOK
  BY DEF RoundParts
<1>1. /\ outbox[p][q] # << >>
      /\ outbox' = [outbox EXCEPT ![p][q] = Tail(@)]
      /\ \/ inbox' = [inbox EXCEPT ![q] = @ \cup {<<p, Head(outbox[p][q])>>}]
         \/ inbox' = inbox
      /\ UNCHANGED <<input, output, stage, shares, deaf, result, complained>>
  BY DEF Transmit, rbc
<1>2. p \in Nodes
  BY DEF Correct
<1>3. Head(outbox[p][q]) \in Built(p) /\ Tail(outbox[p][q]) \in Seq(Built(p))
  <2>1. outbox[p][q] \in Seq(Built(p))
    BY <1>t DEF OutboxOK
  <2> QED BY <1>1, <2>1, HeadTailProperties
<1>4. OutboxOK'
  <2> DEFINE box == [outbox[p] EXCEPT ![q] = Tail(outbox[p][q])]
  <2>1. outbox' = [outbox EXCEPT ![p] = box]
    BY <1>1, <1>t DEF OutboxOK
  <2>2. box \in [Correct -> Seq(Built(p))]
    <3>1. \A r \in Correct : outbox[p][r] \in Seq(Built(p))
      BY <1>t DEF OutboxOK
    <3>2. DOMAIN outbox[p] = Correct
      BY <1>t DEF OutboxOK
    <3> QED BY <1>3, <3>1, <3>2
  <2> HIDE DEF box
  <2> QED BY <1>t, <2>1, <2>2, OutboxSet
<1>5. InboxOK'
  <2>1. Head(outbox[p][q]) \in Messages
    BY <1>2, <1>3, BuiltMessages
  <2>2. CASE inbox' = inbox
    BY <2>2, <1>t DEF InboxOK
  <2>3. CASE inbox' = [inbox EXCEPT ![q] = @ \cup {<<p, Head(outbox[p][q])>>}]
    BY <2>1, <2>3, <1>t, <1>2, <1>3, InboxGrows
  <2> QED BY <1>1, <2>2, <2>3
<1>6. deaf' \subseteq Correct /\ deaf \subseteq deaf'
  BY <1>t, <1>1 DEF FlatOK
<1> QED BY <1>1, <1>4, <1>5, <1>6, ArrivalRound

(* A faulty node's message, whatever id and stripes it claims.             *)
LEMMA FaultySendRound ==
  ASSUME RoundParts, NEW q \in Faulty, NEW p \in Correct, NEW m \in Messages, FaultySend(q, p, m)
  PROVE  RoundParts'
<1>t. FlatOK /\ OutboxOK /\ InboxOK
  BY DEF RoundParts
<1>1. /\ inbox' = [inbox EXCEPT ![p] = @ \cup {<<q, m>>}]
      /\ UNCHANGED <<input, output, stage, outbox, shares, deaf, result, complained>>
  BY DEF FaultySend, rbc
<1>2. q \in Nodes /\ q \notin Correct
  BY NodesAssumption DEF Correct
<1>3. InboxOK'
  BY <1>t, <1>1, <1>2, InboxGrows
<1>4. OutboxOK' /\ deaf' \subseteq Correct /\ deaf \subseteq deaf'
  BY <1>t, <1>1 DEF OutboxOK, FlatOK
<1> QED BY <1>1, <1>3, <1>4, ArrivalRound

(* The leader's queue of shares: one it has read before, one more, the     *)
(* last one.  It decodes what it must, or a faulty node's share is to      *)
(* blame.                                                                  *)
LEMMA LeaderReadsRound ==
  ASSUME RoundParts, LeaderReads
  PROVE  RoundParts'
<1>t. FlatOK /\ OutboxOK /\ InboxOK /\ SharesOK /\ ValueHeld /\ DecodeBlamed
  BY DEF RoundParts
<1>1. Leader \in Correct
  BY DEF LeaderReads
<1>2. PICK x \in inbox[Leader] : Redundant(x) \/ Collect(x) \/ Decode(x) \/ TooFewToRecover(x)
  BY DEF LeaderReads
<1>3. stage[Leader] = "collect"
  BY <1>2 DEF Redundant, Collect, Decode, TooFewToRecover, Accepts, Reads
<1>4. output[Leader] \in Values
  BY <1>1, <1>3, <1>t DEF ValueHeld
<1>5. CASE Redundant(x)
  <2>1. /\ inbox' = [inbox EXCEPT ![Leader] = inbox[Leader] \ {x}]
        /\ UNCHANGED <<input, output, stage, outbox, shares, deaf, result, complained>>
    BY <1>5 DEF Redundant, rbc
  <2>2. InboxOK'
    BY <1>1, <1>t, <2>1, InboxShrinks
  <2>3. OutboxOK' /\ deaf' \subseteq Correct /\ deaf \subseteq deaf'
    BY <1>t, <2>1 DEF OutboxOK, FlatOK
  <2> QED BY <2>1, <2>2, <2>3, ArrivalRound
<1>6. CASE Collect(x)
  <2>1. /\ inbox' = [inbox EXCEPT ![Leader] = inbox[Leader] \ {x}]
        /\ Accepts(x)
        /\ UNCHANGED <<input, output, stage, outbox, deaf, result, complained>>
    BY <1>6 DEF Collect, rbc
  <2>2. InboxOK'
    BY <1>1, <1>t, <2>1, InboxShrinks
  <2>3. SharesOK'
    BY <1>1, <1>t, <2>1, AcceptsShares
  <2>4. OutboxOK' /\ FlatOK' /\ ValueHeld'
    BY <1>t, <2>1 DEF OutboxOK, FlatOK, ValueHeld
  <2>5. DecodeBlamed'
    BY <1>3, <2>1 DEF DecodeBlamed
  <2> QED BY <2>2, <2>3, <2>4, <2>5 DEF RoundParts
<1>7. CASE Decode(x)
  <2>1. /\ stage' = [stage EXCEPT ![Leader] = "final"]
        /\ outbox' = [outbox EXCEPT ![Leader] = Broadcast(Leader, "FINAL", output[Leader])]
        /\ Accepts(x)
        /\ UNCHANGED <<input, output, deaf, result, complained>>
    BY <1>7 DEF Decode, rbc
  <2>2. PICK kept \in SUBSET {m \in inbox[Leader] : m[2].tag = "FINAL"} :
          inbox' = [inbox EXCEPT ![Leader] = kept]
    BY <1>7 DEF Decode
  <2>3. InboxOK'
    <3>1. kept \subseteq inbox[Leader]
      OBVIOUS
    <3> QED BY <1>1, <1>t, <2>2, <3>1, InboxShrinks
  <2>4. SharesOK'
    BY <1>1, <1>t, <2>1, AcceptsShares
  <2>5. OutboxOK'
    <3>1. Broadcast(Leader, "FINAL", output[Leader]) \in [Correct -> Seq(Built(Leader))]
      BY <1>1, <1>4, <1>t, BroadcastBuilt
    <3> QED BY <1>1, <1>t, <2>1, <3>1, OutboxSet
  <2>6. FlatOK' /\ ValueHeld' /\ DecodeBlamed'
    <3>1. \A q \in Correct : stage'[q] = IF q = Leader THEN "final" ELSE stage[q]
      BY <1>t, <2>1 DEF FlatOK
    <3>2. FlatOK'
      BY <1>t, <2>1 DEF FlatOK, Stages
    <3>3. ValueHeld' /\ DecodeBlamed'
      BY <1>t, <2>1, <3>1 DEF ValueHeld, DecodeBlamed
    <3> QED BY <3>2, <3>3
  <2> QED BY <2>3, <2>4, <2>5, <2>6 DEF RoundParts
<1>8. CASE TooFewToRecover(x)
  <2>1. /\ Accepts(x) /\ Enter(Leader, "crashed")
        /\ counter(shares \cup {x}) >= data_threshold
        /\ Cardinality(values(shares \cup {x})) < data_threshold
        /\ UNCHANGED <<input, output, outbox, deaf, result, complained>>
    BY <1>8 DEF TooFewToRecover, rbc
  <2>2. "crashed" \in Stages
    BY DEF Stages
  <2>3. /\ stage' \in [Correct -> Stages] /\ InboxOK'
        /\ \A q \in Correct : stage'[q] = IF q = Leader THEN "crashed" ELSE stage[q]
    BY <1>1, <1>t, <2>1, <2>2, EnterType
  <2>4. SharesOK'
    BY <1>1, <1>t, <2>1, AcceptsShares
  <2>5. OutboxOK' /\ FlatOK'
    BY <1>t, <2>1, <2>3 DEF OutboxOK, FlatOK
  <2>6. ValueHeld'
    BY <1>t, <2>1, <2>3 DEF ValueHeld
  <2>7. DecodeBlamed'
    <3>1. shares' = shares \cup {x}
      BY <2>1 DEF Accepts
    <3>2. ASSUME shares' = FromCorrect' PROVE FALSE
      <4> DEFINE S == shares \cup {x}
      <4>1. \A y \in S : /\ y[1] \in Correct
                         /\ \E v \in Values : y = <<y[1], Msg("SHARE", y[1], v, share(y[1]))>>
        <5>1. \A y \in S : y \in FromCorrect' /\ y \in Nodes \X Messages
          BY <2>4, <3>1, <3>2 DEF SharesOK
        <5> HIDE DEF S
        <5>2. \A y \in S : y[1] \in Correct /\ y = <<y[1], y[2]>>
          BY <5>1 DEF FromCorrect
        <5>3. \A y \in S : \E v \in Values : y[2] = Msg("SHARE", y[1], v, share(y[1]))
          BY <2>4, <5>1 DEF SharesOK
        <5> QED BY <5>2, <5>3
      <4>2. counter(S) \in Nat /\ Cardinality(values(S)) \in Nat /\ counter(S) <= Cardinality(values(S))
        <5> HIDE DEF S
        <5> QED BY <4>1, CounterCounts
      <4>3. data_threshold \in Int
        BY NodeRange DEF data_threshold
      <4>4. counter(S) >= data_threshold /\ Cardinality(values(S)) < data_threshold
        BY <2>1
      <4> HIDE DEF S
      <4> QED BY <4>2, <4>3, <4>4
    <3> QED BY <3>2 DEF DecodeBlamed
  <2> QED BY <2>3, <2>4, <2>5, <2>6, <2>7 DEF RoundParts
<1> QED BY <1>2, <1>5, <1>6, <1>7, <1>8

(* RoundInv is the conjunction of its parts, and their invariance its own. *)
LEMMA PartsMakeRound == RoundParts <=> RoundInv
BY DEF RoundParts, FlatOK, OutboxOK, InboxOK, SharesOK, RoundInv, TypeOK, SentAsBuilt, Stages

(* The state stays well typed, correct nodes' messages are as built, and   *)
(* a decoding that fails is a faulty node's work.                          *)
THEOREM RoundInvariance == Spec => []RoundInv
<1>1. ASSUME RoundParts, [Next]_vars PROVE RoundParts'
  <2>1. CASE \E v \in Values : DealerInput(v)
    BY <1>1, <2>1, DealerInputRound
  <2>2. CASE \E p \in Correct, o \in Values \cup {Failed} : RbcReturn(p, o)
    BY <1>1, <2>2, RbcReturnRound
  <2>3. CASE \E p \in Correct : VerifyDone(p)
    BY <1>1, <2>3, VerifyDoneRound
  <2>4. CASE \E p \in Correct : MulticastDone(p)
    BY <1>1, <2>4, MulticastDoneRound
  <2>5. CASE LeaderReads
    BY <1>1, <2>5, LeaderReadsRound
  <2>6. CASE \E p \in Correct, v \in Values : FinalDone(p, v)
    BY <1>1, <2>6, FinalDoneRound
  <2>7. CASE \E p, q \in Correct : Transmit(p, q)
    BY <1>1, <2>7, TransmitRound
  <2>8. CASE \E p \in Correct : Stop(p)
    BY <1>1, <2>8, StopRound
  <2>9. CASE \E q \in Faulty, p \in Correct, m \in Messages : FaultySend(q, p, m)
    BY <1>1, <2>9, FaultySendRound
  <2>10. CASE \E p \in Correct : UnknownTag(p)
    <3>1. /\ \E p \in Correct : deaf' = deaf \cup {p}
          /\ UNCHANGED <<input, output, stage, outbox, inbox, shares, result, complained>>
      BY <2>10 DEF UnknownTag, rbc
    <3>2. OutboxOK' /\ InboxOK' /\ deaf' \subseteq Correct /\ deaf \subseteq deaf'
      BY <1>1, <3>1 DEF RoundParts, FlatOK, OutboxOK, InboxOK
    <3> QED BY <1>1, <3>1, <3>2, ArrivalRound
  <2>11. CASE \E p \in Correct : Malformed(p)
    BY <1>1, <2>11, MalformedRound
  <2>12. CASE UNCHANGED vars
    <3>1. UNCHANGED <<input, output, stage, outbox, inbox, shares, deaf, result, complained>>
      BY <2>12 DEF vars
    <3>2. OutboxOK' /\ InboxOK' /\ deaf' \subseteq Correct /\ deaf \subseteq deaf'
      BY <1>1, <3>1 DEF RoundParts, FlatOK, OutboxOK, InboxOK
    <3> QED BY <1>1, <3>1, <3>2, ArrivalRound
  <2> QED BY <1>1, <2>1, <2>2, <2>3, <2>4, <2>5, <2>6, <2>7, <2>8, <2>9, <2>10, <2>11, <2>12
          DEF Next, CorrectStep
<1>2. Init => RoundParts
  BY InitRound
<1>3. RoundParts <=> RoundInv
  BY PartsMakeRound
<1> QED BY <1>1, <1>2, <1>3, PTL DEF Spec

(* Messages and stages are what the steps read, and no stripe index is     *)
(* beyond the last stripe, however N divides size.                         *)
THEOREM TypeCorrect == Spec => []TypeOK
<1>1. RoundInv => TypeOK
  BY DEF RoundInv
<1> QED BY <1>1, RoundInvariance, PTL

(* Whatever id and items faulty nodes write in their shares, the leader    *)
(* counts no stripe of a correct node's share twice, and it raises over    *)
(* too few stripes only when it read a faulty node's share.                *)
THEOREM EnoughToDecodeHolds == Spec => []EnoughToDecode
<1>1. RoundInv => EnoughToDecode
  <2> SUFFICES ASSUME RoundInv PROVE EnoughToDecode
    OBVIOUS
  <2>1. SharesOK /\ DecodeBlamed
    BY DEF RoundInv, TypeOK, SentAsBuilt, SharesOK
  <2> QED BY <2>1, HonestCount DEF EnoughToDecode
<1> QED BY <1>1, RoundInvariance, PTL
=============================================================================
