--------------------------- MODULE ReliableBroadcast ---------------------------
(***************************************************************************)
(* One instance of reliablebroadcast (honeybadgerbft/core/                 *)
(* reliablebroadcast.py): the leader erasure-codes a value, sends every    *)
(* node its stripe with a Merkle branch (VAL), nodes echo their stripe     *)
(* (ECHO), announce that enough stripes exist (READY), and return the      *)
(* decoded value.                                                          *)
(*                                                                         *)
(* Values are identified with the Merkle root of their stripes (the hash   *)
(* is collision free).  A root whose leaves are not the canonical encoding *)
(* of any value is in BadRoots: decode_output raises on it whatever K      *)
(* stripes it decodes from.                                                *)
(*                                                                         *)
(* Messages of correct nodes are not kept apart: an ECHO is sent exactly   *)
(* when fromLeader is set and a READY exactly when readySent is, both to   *)
(* everybody, so the sender's state tells what is in flight; a message     *)
(* is delivered once (a second copy is discarded by the handler), at any   *)
(* later time, in any order.  Faulty nodes may send anything well formed   *)
(* to anyone at any time.                                                  *)
(***************************************************************************)
EXTENDS Participants

CONSTANTS Leader,     \* the sender of this instance
          Values,     \* roots of canonical encodings
          BadRoots,   \* roots whose leaves encode no value
          Failed      \* outcome of the assertion in decode_output

Roots == Values \cup BadRoots

ASSUME LeaderAssumption == Leader \in Nodes
ASSUME DistinctAssumption ==
  /\ Values \cap BadRoots = {}
  /\ None \notin Roots
  /\ Failed \notin Roots \cup {None}

(* Deviations (here and below, each before the definition it replaces):    *)
(* plausible slips that the properties must notice.                        *)
EchoThresholdLow == f + 1
ReadyThresholdLow == f
OutputThresholdLow == f + 1

K               == N - 2 * f
EchoThreshold   == N - f
ReadyThreshold  == f + 1
OutputThreshold == 2 * f + 1

VARIABLES input,       \* what input() returned at a correct leader
          fromLeader,  \* root of the accepted VAL, hence of the ECHO sent
          echoes,      \* echoes[p][q]: root of the ECHO that p accepted from q
          readies,     \* readies[p][q]: root of the READY that p accepted from q
          readySent,   \* root of the READY that was broadcast
          output       \* the value returned, or Failed if decode_output raised

vars == <<input, fromLeader, echoes, readies, readySent, output>>

Init ==
  /\ input = None
  /\ fromLeader = [p \in Correct |-> None]
  /\ echoes = [p \in Correct |-> [q \in Nodes |-> None]]
  /\ readies = [p \in Correct |-> [q \in Nodes |-> None]]
  /\ readySent = [p \in Correct |-> None]
  /\ output = [p \in Correct |-> None]

-----------------------------------------------------------------------------
\* Deviation: the re-encoding check is skipped.
decode_outputUnchecked(r) == r

(* decode K stripes, re-encode, compare the root.                          *)
decode_output(r) == IF r \in Values THEN r ELSE Failed

(* The receive loop runs: not returned, and a leader has had its input.    *)
Receiving(p) == output[p] = None /\ (p = Leader => input # None)

(* echoCounter[r] and len(ready[r]) are the sizes of Senders(_, r).        *)
(* READY goes out on EchoThreshold echoes or ReadyThreshold readies, once. *)
ReadyAfterEcho(row, r, sent) ==
  IF sent = None /\ Cardinality(Senders(row, r)) >= EchoThreshold THEN r ELSE sent

ReadyAfterReady(row, r, sent) ==
  IF sent = None /\ Cardinality(Senders(row, r)) >= ReadyThreshold THEN r ELSE sent

\* Deviation: READYs are not awaited.
OutputTestNoReady(erow, rrow, r) == Cardinality(Senders(erow, r)) >= K

(* Both handlers end with the same test for returning.                     *)
OutputTest(erow, rrow, r) ==
  /\ Cardinality(Senders(rrow, r)) >= OutputThreshold
  /\ Cardinality(Senders(erow, r)) >= K

OutputAfter(erow, rrow, r) == IF OutputTest(erow, rrow, r) THEN decode_output(r) ELSE None

-----------------------------------------------------------------------------
(* A correct leader gets its input and sends VAL to everyone.              *)
LeaderInput(v) ==
  /\ Leader \in Correct
  /\ input = None
  /\ input' = v
  /\ UNCHANGED <<fromLeader, echoes, readies, readySent, output>>

\* Deviation: the sender of VAL is not compared with the leader.
RecvValAnySender(p, r) ==
  /\ Receiving(p)
  /\ fromLeader[p] = None
  /\ fromLeader' = [fromLeader EXCEPT ![p] = r]
  /\ UNCHANGED <<input, echoes, readies, readySent, output>>

RecvVal(p, r) ==
  /\ Receiving(p)
  /\ fromLeader[p] = None
  /\ Leader \in Correct => input = r
  /\ fromLeader' = [fromLeader EXCEPT ![p] = r]
  /\ UNCHANGED <<input, echoes, readies, readySent, output>>

\* Deviation: the quorum of echoes is not announced.
RecvEchoNoReady(p, q, r) ==
  /\ Receiving(p)
  /\ echoes[p][q] = None
  /\ q \in Correct => fromLeader[q] = r
  /\ echoes' = [echoes EXCEPT ![p][q] = r]
  /\ output' = [output EXCEPT ![p] = OutputAfter(echoes'[p], readies[p], r)]
  /\ UNCHANGED <<input, fromLeader, readies, readySent>>

RecvEcho(p, q, r) ==
  /\ Receiving(p)
  /\ echoes[p][q] = None
  /\ q \in Correct => fromLeader[q] = r
  /\ echoes' = [echoes EXCEPT ![p][q] = r]
  /\ readySent' = [readySent EXCEPT ![p] = ReadyAfterEcho(echoes'[p], r, readySent[p])]
  /\ output' = [output EXCEPT ![p] = OutputAfter(echoes'[p], readies[p], r)]
  /\ UNCHANGED <<input, fromLeader, readies>>

RecvReady(p, q, r) ==
  /\ Receiving(p)
  /\ readies[p][q] = None
  /\ q \in Correct => readySent[q] = r
  /\ readies' = [readies EXCEPT ![p][q] = r]
  /\ readySent' = [readySent EXCEPT ![p] = ReadyAfterReady(readies'[p], r, readySent[p])]
  /\ output' = [output EXCEPT ![p] = OutputAfter(echoes[p], readies'[p], r)]
  /\ UNCHANGED <<input, fromLeader, echoes>>

Next ==
  \/ \E v \in Values : LeaderInput(v)
  \/ \E p \in Correct, r \in Roots :
       \/ RecvVal(p, r)
       \/ \E q \in Nodes : RecvEcho(p, q, r) \/ RecvReady(p, q, r)

Spec == Init /\ [][Next]_vars

(* A step the environment owes: the application hands the leader its       *)
(* input, the network delivers what a correct node sent to a node that is  *)
(* still receiving.                                                        *)
CorrectStep ==
  \/ \E v \in Values : LeaderInput(v)
  \/ \E p \in Correct, r \in Roots :
       \/ Leader \in Correct /\ RecvVal(p, r)
       \/ \E q \in Correct : RecvEcho(p, q, r) \/ RecvReady(p, q, r)

FairSpec == Spec /\ WF_vars(CorrectStep)

-----------------------------------------------------------------------------
(* The tables hold roots, and only values or a failure are returned: the   *)
(* re-encoding check of decode_output lets no other root through.          *)
TypeOK ==
  /\ input \in Values \cup {None}
  /\ fromLeader \in [Correct -> Roots \cup {None}]
  /\ echoes \in [Correct -> [Nodes -> Roots \cup {None}]]
  /\ readies \in [Correct -> [Nodes -> Roots \cup {None}]]
  /\ readySent \in [Correct -> Roots \cup {None}]
  /\ output \in [Correct -> Values \cup {None, Failed}]

(* No two correct nodes leave the broadcast differently: not with two      *)
(* values, and not one with a value and one with a decoding failure.       *)
Agreement ==
  \A p, q \in Correct : output[p] # None /\ output[q] # None => output[p] = output[q]

(* A correct leader's input is the only thing correct nodes return.        *)
Validity ==
  Leader \in Correct => \A p \in Correct : output[p] \in {None, input}

(* Correct nodes announce READY for one root only.                         *)
ReadyUnique ==
  \A p, q \in Correct :
    readySent[p] # None /\ readySent[q] # None => readySent[p] = readySent[q]

(* Once a node returned, enough stripes of its root have been echoed by    *)
(* correct nodes for every other correct node to decode it too.            *)
Decodable ==
  \A p \in Correct : output[p] # None =>
    \E r \in Roots : /\ output[p] = decode_output(r)
                     /\ Cardinality({q \in Correct : fromLeader[q] = r}) >= K

-----------------------------------------------------------------------------
(* The inductive invariant behind the properties above.                    *)

(* What was accepted from a correct peer is what that peer sent.           *)
ReceivedWasSent ==
  \A p, q \in Correct : /\ echoes[p][q] \in {None, fromLeader[q]}
                        /\ readies[p][q] \in {None, readySent[q]}

EchoQuorum(r) == \E p \in Correct : Cardinality(Senders(echoes[p], r)) >= EchoThreshold

(* Behind every READY, amplified ones too, some correct node saw a quorum  *)
(* of echoes.                                                              *)
ReadyBacked == \A p \in Correct : readySent[p] # None => EchoQuorum(readySent[p])

(* Behind every output there are OutputThreshold readies for one root.     *)
OutputBacked ==
  \A p \in Correct : output[p] # None =>
    \E r \in Roots : /\ output[p] = decode_output(r)
                     /\ Cardinality(Senders(readies[p], r)) >= OutputThreshold

(* A correct leader's VALs all carry its input.                            *)
ValFromInput == Leader \in Correct => \A p \in Correct : fromLeader[p] \in {None, input}

IInv == TypeOK /\ ReceivedWasSent /\ ReadyBacked /\ OutputBacked /\ ValFromInput

-----------------------------------------------------------------------------
(* reliablebroadcast implements the broadcast its callers rely on, step    *)
(* by step, ...                                                            *)
Broadcast == INSTANCE BroadcastSpec WITH input <- input, output <- output
BroadcastSafety == Broadcast!Spec

(* ... and under fair delivery: if one correct node finishes, or the       *)
(* leader is correct, all correct nodes finish.  A node that returned no   *)
(* longer answers, so everything the others need must be under way.        *)
BroadcastLiveness == Broadcast!FairSpec
=============================================================================
