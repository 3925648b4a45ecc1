---------------------------- MODULE BinaryAgreement ----------------------------
(***************************************************************************)
(* binaryagreement (honeybadgerbft/core/binaryagreement.py): randomized    *)
(* binary consensus from a common coin.  Each node runs a receive loop     *)
(* (_recv) beside its main loop, which in every round passes through the   *)
(* phases est (wait for a binary value), aux, conf and coin.               *)
(*                                                                         *)
(* Correct nodes send a message of a kind at most once per round and to    *)
(* everybody, so the *_sent state of the senders is the set of messages in *)
(* flight.  What a node has received of it is any subset: a step that      *)
(* needs enough messages is enabled once enough have been sent.  F is the  *)
(* set of faulty nodes heard in a step; a faulty node may have sent every  *)
(* value of every kind, and a message on which _recv raises: the receive   *)
(* loop ends, and the main loop goes on with what it has received.         *)
(***************************************************************************)
EXTENDS Participants

CONSTANT MaxRound      \* bound: rounds 0..MaxRound are run

ASSUME RoundAssumption == MaxRound \in Nat
ASSUME NoneIsNoBit == None \notin {0, 1}

Rounds == 0 .. MaxRound
Bits == {0, 1}

VARIABLES phase,       \* what the main loop waits for, or "quit"
          round, est,  \* r and est of the main loop
          vi,          \* the input
          est_sent,    \* est_sent[p][r]: bits p has sent EST for
          bin_values,  \* bin_values[p][r], {} where it is dead
          aux_sent,    \* aux_sent[p][r]: the bit of p's AUX
          conf_sent,   \* conf_sent[p][r]: the set in p's CONF, {} before
          values,      \* the local variable values, {} where it is dead
          decided,     \* already_decided
          decidedAt,   \* round of the decision
          coin,        \* coin[r]: the common coin, once revealed
          deaf,        \* nodes whose receive loop has raised
          heard        \* heard[p]: the AUX and CONF there were when p's did

received == <<deaf, heard>>
vars == <<phase, round, est, vi, est_sent, bin_values, aux_sent, conf_sent, values,
          decided, decidedAt, coin, deaf, heard>>

PerRound(x) == [p \in Correct |-> [r \in 0 .. MaxRound + 1 |-> x]]

Init ==
  /\ phase = [p \in Correct |-> "input"]
  /\ round = [p \in Correct |-> 0]
  /\ est = [p \in Correct |-> None]
  /\ vi = [p \in Correct |-> None]
  /\ est_sent = PerRound({})
  /\ bin_values = PerRound({})
  /\ aux_sent = PerRound(None)
  /\ conf_sent = PerRound({})
  /\ values = [p \in Correct |-> {}]
  /\ decided = [p \in Correct |-> None]
  /\ decidedAt = [p \in Correct |-> None]
  /\ coin = [r \in Rounds |-> None]
  /\ deaf = {}
  /\ heard = [p \in Correct |-> [aux |-> PerRound(None), conf |-> PerRound({})]]

-----------------------------------------------------------------------------
(* The AUX and CONF of correct nodes that p can have received.             *)
AuxTo(p) == IF p \in deaf THEN heard[p].aux ELSE aux_sent
ConfTo(p) == IF p \in deaf THEN heard[p].conf ELSE conf_sent

(* How many messages of a kind a node can have received from the senders   *)
(* in a table, hearing F.                                                  *)
EstCount(r, v, F) == Cardinality({q \in Correct : v \in est_sent[q][r]} \cup F)
AuxCount(aux, r, v, F) == Cardinality({q \in Correct : aux[q][r] = v} \cup F)
ConfCount(conf, r, C, F) == Cardinality({q \in Correct : conf[q][r] = C} \cup F)

AtMost(a, b) == IF a <= b THEN a ELSE b

\* Deviation: the relay threshold is met by the faulty nodes alone.
RelayThresholdLow == f

(* EST is relayed at f+1 and becomes a binary value at 2f+1.               *)
RelayThreshold == f + 1
BinThreshold == 2 * f + 1

\* Deviation: every node is waited for, the faulty ones too.
WaitThresholdAll == N

\* Deviation: f+1 instead of N-f messages are awaited.
WaitThresholdLow == f + 1

WaitThreshold == N - f

(* The tests of the aux loop: N-f for one bit of bin_values, or N-f in all *)
(* without N-f for one.                                                    *)
AuxValues(p, r, bin, F) ==
  {{v} : v \in {v \in bin : AuxCount(AuxTo(p), r, v, F) >= WaitThreshold}}
    \cup {C \in {Bits} : /\ bin = Bits
                         /\ AtMost(AuxCount(AuxTo(p), r, 0, F), WaitThreshold - 1)
                              + AtMost(AuxCount(AuxTo(p), r, 1, F), WaitThreshold - 1) >= WaitThreshold}

(* The same tests in wait_for_conf_values, over sets of bits.              *)
ConfValues(p, r, bin, F) ==
  {{v} : v \in {v \in bin : ConfCount(ConfTo(p), r, {v}, F) >= WaitThreshold}}
    \cup {C \in {Bits} : /\ bin = Bits
                         /\ AtMost(ConfCount(ConfTo(p), r, {0}, F), WaitThreshold - 1)
                              + AtMost(ConfCount(ConfTo(p), r, {1}, F), WaitThreshold - 1)
                              + ConfCount(ConfTo(p), r, Bits, F) >= WaitThreshold}

(* Nodes whose coin share for round r is out.                              *)
CoinShares(r, F) ==
  {q \in Correct : round[q] > r \/ (round[q] = r /\ phase[q] \in {"coin", "quit"})} \cup F

-----------------------------------------------------------------------------
Input(p, v) ==
  /\ phase[p] = "input"
  /\ phase' = [phase EXCEPT ![p] = "est"]
  /\ vi' = [vi EXCEPT ![p] = v]
  /\ est' = [est EXCEPT ![p] = v]
  /\ est_sent' = [est_sent EXCEPT ![p][0] = @ \cup {v}]
  /\ UNCHANGED <<round, bin_values, aux_sent, conf_sent, values, decided, decidedAt,
                 coin, received>>

(* bin_values[r] of a node is last read in the CONF phase of round r.      *)
BinValuesRead(p, r) == r > round[p] \/ (r = round[p] /\ phase[p] # "coin")

(* p's receive loop runs: it has not raised, and a node that quits kills   *)
(* it.                                                                     *)
Receiving(p) == phase[p] # "quit" /\ p \notin deaf

(* _recv on what no correct node sends: a repeated AUX or CONF, or one     *)
(* with a value that is none, raises.                                      *)
RecvRaises(p, F) ==
  /\ F # {}
  /\ Receiving(p)
  /\ deaf' = deaf \cup {p}
  /\ heard' = [heard EXCEPT ![p] = [aux |-> aux_sent, conf |-> conf_sent]]
  /\ UNCHANGED <<phase, round, est, vi, est_sent, bin_values, aux_sent, conf_sent, values,
                 decided, decidedAt, coin>>

(* _recv on the EST that reaches the first threshold: relay.               *)
RelayEst(p, r, v, F) ==
  /\ Receiving(p)
  /\ v \notin est_sent[p][r]
  /\ EstCount(r, v, F) >= RelayThreshold
  /\ est_sent' = [est_sent EXCEPT ![p][r] = @ \cup {v}]
  /\ UNCHANGED <<phase, round, est, vi, bin_values, aux_sent, conf_sent, values, decided,
                 decidedAt, coin, received>>

(* _recv on the EST that reaches the second threshold; the first one has   *)
(* been passed by then.  Where bin_values are not read any more the relay  *)
(* is all the handler does.                                                *)
AddBinValue(p, r, v, F) ==
  /\ Receiving(p)
  /\ BinValuesRead(p, r)
  /\ v \notin bin_values[p][r]
  /\ EstCount(r, v, F) >= BinThreshold
  /\ est_sent' = [est_sent EXCEPT ![p][r] = @ \cup {v}]
  /\ bin_values' = [bin_values EXCEPT ![p][r] = @ \cup {v}]
  /\ UNCHANGED <<phase, round, est, vi, aux_sent, conf_sent, values, decided, decidedAt, coin,
                 received>>

(* The main loop has a binary value: it sends AUX for the first one.       *)
SendAux(p, r) ==
  /\ phase[p] = "est" /\ round[p] = r
  /\ bin_values[p][r] # {}
  /\ aux_sent' = [aux_sent EXCEPT ![p][r] = IF 0 \in bin_values[p][r] THEN 0 ELSE 1]
  /\ phase' = [phase EXCEPT ![p] = "aux"]
  /\ UNCHANGED <<round, est, vi, est_sent, bin_values, conf_sent, values, decided, decidedAt,
                 coin, received>>

(* Enough AUX: CONF carries bin_values as they are then.                   *)
SendConf(p, r, F) ==
  /\ phase[p] = "aux" /\ round[p] = r
  /\ AuxValues(p, r, bin_values[p][r], F) # {}
  /\ conf_sent' = [conf_sent EXCEPT ![p][r] = bin_values[p][r]]
  /\ phase' = [phase EXCEPT ![p] = "conf"]
  /\ UNCHANGED <<round, est, vi, est_sent, bin_values, aux_sent, values, decided, decidedAt,
                 coin, received>>

(* Enough CONF: the node asks for the coin.                                *)
AskCoin(p, r, C, F) ==
  /\ phase[p] = "conf" /\ round[p] = r
  /\ C \in ConfValues(p, r, bin_values[p][r], F)
  /\ values' = [values EXCEPT ![p] = C]
  /\ bin_values' = [bin_values EXCEPT ![p][r] = {}]
  /\ phase' = [phase EXCEPT ![p] = "coin"]
  /\ UNCHANGED <<round, est, vi, est_sent, aux_sent, conf_sent, decided, decidedAt,
                 coin, received>>

\* Deviation: a single value is decided whatever the coin.
DecidesIgnoringCoin(p, s) == values[p] # Bits /\ decided[p] = None

(* set_new_estimate: decide on the coin's value, ...                       *)
Decides(p, s) == values[p] = {s} /\ decided[p] = None

(* ... or, decided before, leave: AbandonedNodeError.                      *)
Quits(p, s) == values[p] = {s} /\ decided[p] = s

\* Deviation: an undecided node keeps its estimate instead of taking the coin.
NewEstimateKept(p, s) == IF values[p] = Bits THEN est[p] ELSE CHOOSE v \in Bits : values[p] = {v}

\* Deviation: the coin's branch assigns no estimate.
NewEstimateUnset(p, s) == IF values[p] = Bits THEN None ELSE CHOOSE v \in Bits : values[p] = {v}

NewEstimate(p, s) == IF values[p] = Bits THEN s ELSE CHOOSE v \in Bits : values[p] = {v}

(* The coin arrives, the same for all: set_new_estimate and the next       *)
(* round's EST.                                                            *)
EndRound(p, r, s, F) ==
  /\ phase[p] = "coin" /\ round[p] = r
  /\ Cardinality(CoinShares(r, F)) >= f + 1
  /\ coin[r] \in {None, s}
  /\ coin' = [coin EXCEPT ![r] = s]
  /\ IF Quits(p, s)
       THEN /\ phase' = [phase EXCEPT ![p] = "quit"]
            /\ UNCHANGED <<round, est, est_sent, decided, decidedAt>>
       ELSE /\ phase' = [phase EXCEPT ![p] = "est"]
            /\ round' = [round EXCEPT ![p] = r + 1]
            /\ est' = [est EXCEPT ![p] = NewEstimate(p, s)]
            /\ est_sent' = [est_sent EXCEPT ![p][r + 1] = @ \cup {est'[p]}]
            /\ decided' = [decided EXCEPT ![p] =
                 IF Decides(p, s) THEN CHOOSE v \in Bits : values[p] = {v} ELSE @]
            /\ decidedAt' = [decidedAt EXCEPT ![p] = IF Decides(p, s) THEN r ELSE @]
  /\ values' = [values EXCEPT ![p] = {}]
  /\ UNCHANGED <<vi, bin_values, aux_sent, conf_sent, received>>

(* One step in which the faulty nodes heard are F.                         *)
Step(F) ==
  \/ \E p \in Correct, v \in Bits : Input(p, v)
  \/ \E p \in Correct : RecvRaises(p, F)
  \/ \E p \in Correct, r \in Rounds, v \in Bits : RelayEst(p, r, v, F)
  \/ \E p \in Correct, r \in Rounds, v \in Bits : AddBinValue(p, r, v, F)
  \/ \E p \in Correct, r \in Rounds : SendAux(p, r)
  \/ \E p \in Correct, r \in Rounds : SendConf(p, r, F)
  \/ \E p \in Correct, r \in Rounds, C \in SUBSET Bits : AskCoin(p, r, C, F)
  \/ \E p \in Correct, r \in Rounds, s \in Bits : EndRound(p, r, s, F)

Next == \E F \in SUBSET Faulty : Step(F)

Spec == Init /\ [][Next]_vars

(* Progress never depends on a faulty node.                                *)
FairSpec == Spec /\ WF_vars(Step({}))

-----------------------------------------------------------------------------
ReceivedOK ==
  /\ deaf \subseteq Correct
  /\ heard \in [Correct -> [aux : [Correct -> [0 .. MaxRound + 1 -> Bits \cup {None}]],
                            conf : [Correct -> [0 .. MaxRound + 1 -> SUBSET Bits]]]]

(* Estimates, messages and decisions are bits, also after set_new_estimate *)
(* took the coin.                                                          *)
TypeOK ==
  /\ phase \in [Correct -> {"input", "est", "aux", "conf", "coin", "quit"}]
  /\ round \in [Correct -> 0 .. MaxRound + 1]
  /\ est \in [Correct -> Bits \cup {None}]
  /\ vi \in [Correct -> Bits \cup {None}]
  /\ est_sent \in [Correct -> [0 .. MaxRound + 1 -> SUBSET Bits]]
  /\ bin_values \in [Correct -> [0 .. MaxRound + 1 -> SUBSET Bits]]
  /\ aux_sent \in [Correct -> [0 .. MaxRound + 1 -> Bits \cup {None}]]
  /\ conf_sent \in [Correct -> [0 .. MaxRound + 1 -> SUBSET Bits]]
  /\ values \in [Correct -> SUBSET Bits]
  /\ decided \in [Correct -> Bits \cup {None}]
  /\ decidedAt \in [Correct -> Rounds \cup {None}]
  /\ coin \in [Rounds -> Bits \cup {None}]
  /\ ReceivedOK

(* No two correct nodes decide differently, in whatever rounds they do.    *)
Agreement ==
  \A p, q \in Correct : decided[p] # None /\ decided[q] # None => decided[p] = decided[q]

(* A decision was some correct node's input.                               *)
Validity == \A p \in Correct : decided[p] # None => \E q \in Correct : vi[q] = decided[p]

(* The comment in set_new_estimate: if one party decides at round r, then  *)
(* in all the following rounds everybody proposes its value.               *)
DecisionFixesEstimates ==
  \A p, q \in Correct :
    decided[p] # None /\ round[q] > decidedAt[p] => est[q] = decided[p]

(* Two nodes never leave the CONF phase of a round with opposite bits, so  *)
(* the coin can make only one of them decide.                              *)
ConfConsistent ==
  \A p, q \in Correct :
    phase[p] = "coin" /\ phase[q] = "coin" /\ round[p] = round[q]
      => ~(values[p] = {0} /\ values[q] = {1})

(* The rounds do not block, whatever the faulty nodes send or withhold, as *)
(* long as no receive loop raises: all nodes get through the bounded       *)
(* rounds unless one of them has finished.                                 *)
RoundsProgress ==
  <>(\/ \E p \in Correct : phase[p] = "quit"
     \/ \A p \in Correct : round[p] = MaxRound + 1
     \/ deaf # {})

-----------------------------------------------------------------------------
(* The inductive invariant behind the safety properties.                   *)

(* Some correct node has sent EST for v in round r.                        *)
EstOut(r, v) == \E q \in Correct : v \in est_sent[q][r]

(* N-f nodes may have sent CONF for {v} alone.                             *)
ConfQuorum(r, v) == ConfCount(conf_sent, r, {v}, Faulty) >= WaitThreshold

(* A node waits for its input in round 0.                                  *)
InputAtStart == \A p \in Correct : phase[p] = "input" => round[p] = 0 /\ vi[p] = None

(* A running node has an input and has sent EST for its estimate.          *)
EstimateSent ==
  \A p \in Correct :
    phase[p] # "input" => vi[p] \in Bits /\ est[p] \in est_sent[p][round[p]]

(* Round 0 carries inputs, and a later round only bits that every earlier  *)
(* one carried: the coin adds none of its own.                             *)
InputsOnly == \A v \in Bits : EstOut(0, v) => \E q \in Correct : vi[q] = v
RoundsShrink ==
  \A r, r2 \in 0 .. MaxRound + 1, v \in Bits : r <= r2 /\ EstOut(r2, v) => EstOut(r, v)

(* Binary values and CONF sets hold bits that correct nodes sent.          *)
BinValuesSent ==
  \A p \in Correct, r \in Rounds, v \in Bits :
    v \in bin_values[p][r] \cup conf_sent[p][r] => EstOut(r, v)

(* CONF is sent once per round, on the way out of the AUX phase.           *)
ConfInOrder ==
  \A p \in Correct, r \in Rounds :
    conf_sent[p][r] # {} =>
      \/ r < round[p]
      \/ r = round[p] /\ phase[p] \in {"conf", "coin", "quit"}

(* The rounds that are run have a coin.                                    *)
CoinRounds == \A p \in Correct : phase[p] = "coin" => round[p] \in Rounds

(* A node leaves the CONF phase with one bit of a quorum, or with two.     *)
ValuesBacked ==
  \A p \in Correct :
    phase[p] = "coin" =>
      \/ \E v \in Bits : values[p] = {v} /\ ConfQuorum(round[p], v)
      \/ values[p] = Bits /\ \A v \in Bits : EstOut(round[p], v)

(* What a round starts with came from a quorum of CONF or is the coin of   *)
(* the round before.                                                       *)
RoundsLinked ==
  \A r \in Rounds, v \in Bits :
    EstOut(r + 1, v) => coin[r] # None /\ (ConfQuorum(r, v) \/ coin[r] = v)

(* A decision is on a quorum of CONF and on the coin.                      *)
DecisionBacked ==
  \A p \in Correct :
    decided[p] # None =>
      /\ decidedAt[p] \in Rounds
      /\ coin[decidedAt[p]] = decided[p]
      /\ ConfQuorum(decidedAt[p], decided[p])

(* A CONF that was there when a receive loop ended is still the one.       *)
HeardSent ==
  \A p, q \in Correct, r \in Rounds :
    heard[p].conf[q][r] # {} => heard[p].conf[q][r] = conf_sent[q][r]

IInv ==
  /\ HeardSent
  /\ TypeOK /\ InputAtStart /\ EstimateSent /\ InputsOnly /\ RoundsShrink
  /\ BinValuesSent /\ ConfInOrder /\ CoinRounds /\ ValuesBacked /\ RoundsLinked /\ DecisionBacked
=============================================================================
