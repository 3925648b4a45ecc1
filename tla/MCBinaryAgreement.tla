--------------------------- MODULE MCBinaryAgreement ---------------------------
(***************************************************************************)
(* Urgent steps (inputs, relays, and the end of a round whose coin is out, *)
(* unless the node quits there) are taken first.  They only add messages   *)
(* and let their node go on, which no guard asks not to have happened, and *)
(* nothing but their own effect disables them before the node quits: any   *)
(* behaviour can be reordered so that the other steps wait for them, and a *)
(* violation of a property below is still met.  RecvRaises is left out: it *)
(* changes nothing a safety property reads, and as AuxValues, ConfValues   *)
(* and the guards of _recv only shrink when less is received, the steps of *)
(* a node whose loop has ended are among those it could take otherwise.    *)
(***************************************************************************)
EXTENDS BinaryAgreement, TLC

Symmetry == Permutations(Correct)

(* Some correct node has yet to leave these phases of round r.             *)
Waits(r, phases) ==
  \E p \in Correct : round[p] < r \/ (round[p] = r /\ phase[p] \in phases)

BeforeAux == {"input", "est", "aux"}
BeforeConf == BeforeAux \cup {"conf"}

InputPending == \E p \in Correct : phase[p] = "input"

RelayPending(p, r, v) ==
  /\ phase[p] # "quit" /\ v \notin est_sent[p][r]
  /\ Waits(r, BeforeConf)
  /\ EstCount(r, v, Faulty) >= RelayThreshold

EndPending(p) ==
  /\ phase[p] = "coin" /\ round[p] \in Rounds
  /\ coin[round[p]] # None /\ ~Quits(p, coin[round[p]])

Urgent ==
  \/ InputPending
  \/ \E p \in Correct, r \in Rounds, v \in Bits : RelayPending(p, r, v)
  \/ \E p \in Correct : EndPending(p)

(* Hearing every faulty node allows all that hearing fewer does.           *)
MCNext ==
  \/ \E p \in Correct, v \in Bits : Input(p, v)
  \/ \E p \in Correct, r \in Rounds, v \in Bits :
       RelayPending(p, r, v) /\ RelayEst(p, r, v, Faulty)
  \/ \E p \in Correct, r \in Rounds, v \in Bits : EndPending(p) /\ EndRound(p, r, v, Faulty)
  \/ /\ ~Urgent
     /\ \E p \in Correct, r \in Rounds :
          \/ SendAux(p, r)
          \/ SendConf(p, r, Faulty)
          \/ \E v \in Bits : AddBinValue(p, r, v, Faulty) \/ EndRound(p, r, v, Faulty)
          \/ \E C \in SUBSET Bits : AskCoin(p, r, C, Faulty)

MCSpec == Init /\ [][MCNext]_vars

(* Behaviours up to the first receive loop that raises.                    *)
MCStep(F) == deaf = {} /\ Step(F)
MCFairSpec == Init /\ [][\E F \in SUBSET Faulty : MCStep(F)]_vars /\ WF_vars(MCStep({}))

(* What a state is told apart by: not the messages of a round that no      *)
(* correct node waits for any more, and of the inputs which bits occur.    *)
View ==
  <<phase, round, est, values, decided, decidedAt, coin, bin_values, {vi[p] : p \in Correct},
    [p \in Correct |-> [r \in Rounds |->
       <<IF Waits(r, BeforeConf) THEN est_sent[p][r] ELSE {},
         IF Waits(r, BeforeAux) THEN aux_sent[p][r] ELSE None,
         IF Waits(r, BeforeConf) THEN conf_sent[p][r] ELSE {}>>]]>>
=============================================================================
