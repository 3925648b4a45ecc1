---------------------------- MODULE DispersalRound ----------------------------
(***************************************************************************)
(* One run of a node as run_socket_node starts it: InfoDispersal2 runs the *)
(* dealer's reliable broadcast, cross-checks its outcome (rbc_vc_check),   *)
(* votes on the commitment (multicast), sends its share to the leader,     *)
(* which decodes the value and hands out fresh shares (refresh of          *)
(* refresh_2.py); then the node stops its network client.                  *)
(*                                                                         *)
(* The reliable broadcast is BroadcastSpec, which ReliableBroadcast        *)
(* implements.  A value stands for itself, its size stripes and its vector *)
(* commitment: a stripe verifies against a commitment iff both are of the  *)
(* same value.  outbox[p][q] is what p handed to its client for q and is   *)
(* not yet written to the socket; inbox[p] is what p's dispatcher has put  *)
(* in the queues of its protocol steps.  A step that counts senders reads  *)
(* its queue without other effect until its threshold, so it is one action *)
(* enabled by what has arrived; the leader's loop over shares has an       *)
(* action per share.  A message of VERIFY counts for the node that sent    *)
(* it, one of PROOF or SHARE for the id written in it.                     *)
(*                                                                         *)
(* Faulty nodes put messages with any id, value and stripes into an inbox  *)
(* at any time.  A message none of the steps can take apart ends the step  *)
(* that reads it, and one with an unknown tag ends the dispatcher.         *)
(***************************************************************************)
EXTENDS Participants, Sequences

CONSTANTS Leader,   \* node 0: the dealer, and the leader of refresh
          Values,   \* what the dealer may disperse
          Failed,   \* a broadcast whose stripes encode nothing
          size      \* number of stripes the value is cut into

ASSUME NodeNumbers == Nodes = 0 .. N - 1 /\ Leader \in Nodes
ASSUME SizeAssumption == size \in Nat \ {0}
ASSUME OutcomesDiffer == None \notin Values /\ Failed \notin Values \cup {None}

VARIABLES input, output,   \* the reliable broadcast
          stage,           \* where each node is in _run_round
          outbox, inbox,   \* messages
          shares,          \* the shares the leader has not found redundant
          deaf,            \* nodes whose dispatcher or step raised on a message
          result,          \* what refresh returned
          complained       \* nodes that broadcast COMPLAIN

rbc == <<input, output>>
vars == <<input, output, stage, outbox, inbox, shares, deaf, result, complained>>

RBC == INSTANCE BroadcastSpec

Msg(tag, id, v, items) == [tag |-> tag, id |-> id, val |-> v, items |-> items]

Messages == [tag : {"VERIFY", "PROOF", "SHARE", "FINAL"}, id : Nodes, val : Values,
             items : Seq(0 .. size - 1)]

Init ==
  /\ RBC!Init
  /\ stage = [p \in Correct |-> "rbc"]
  /\ outbox = [p \in Correct |-> [q \in Correct |-> << >>]]
  /\ inbox = [p \in Correct |-> {}]
  /\ shares = {}
  /\ deaf = {}
  /\ result = [p \in Correct |-> None]
  /\ complained = {}

-----------------------------------------------------------------------------
\* Deviation: every node starts at stripe 0.
start_indexZero(j) == 0

start_index(j) == (j * size) \div N

\* Deviation: the end index is included.
end_indexIncluded(j) == ((j + 1) * size) \div N + 1

end_index(j) == ((j + 1) * size) \div N

(* The stripes node j keeps, and sends to the leader in this order.        *)
ShareRange(j) == start_index(j) .. end_index(j) - 1
share(j) == [i \in 1 .. end_index(j) - start_index(j) |-> start_index(j) + i - 1]


data_threshold == size \div 3 + 1

(* What has arrived at p of this kind and value, with its sender.          *)
Received(p, tag, v) == {x \in inbox[p] : x[2].tag = tag /\ x[2].val = v}
Signers(p, v) == {x[1] : x \in Received(p, "VERIFY", v)}
Voters(p, v) == {x[2].id : x \in Received(p, "PROOF", v)}

(* The leader takes one share of each id; every item that verifies adds    *)
(* one to its counter and fills its index of values.                       *)
prev_senders == {x[2].id : x \in shares}
Verified(S) == UNION {{x} \X DOMAIN x[2].items : x \in {y \in S : y[2].val = output[Leader]}}
counter(S) == Cardinality(Verified(S))
values(S) == {xi[1][2].items[xi[2]] : xi \in Verified(S)}

(* The kinds of message some step of p still to come will read.            *)
Awaited(p, s) ==
  CASE s \in {"rbc", "verify"} -> {"VERIFY", "PROOF", "FINAL"} \cup (IF p = Leader THEN {"SHARE"} ELSE {})
    [] s = "multicast"         -> {"PROOF", "FINAL"} \cup (IF p = Leader THEN {"SHARE"} ELSE {})
    [] s = "collect"           -> {"SHARE", "FINAL"}
    [] s = "final"             -> {"FINAL"}
    [] OTHER                   -> {}

(* p enters stage s; the queues nobody reads any more are forgotten.       *)
Enter(p, s) ==
  /\ stage' = [stage EXCEPT ![p] = s]
  /\ inbox' = [inbox EXCEPT ![p] = {m \in @ : m[2].tag \in Awaited(p, s)}]

Broadcast(p, tag, v) == [q \in Correct |-> Append(outbox[p][q], Msg(tag, p, v, << >>))]

-----------------------------------------------------------------------------
(* run_refresh hands the dealer its data.                                  *)
DealerInput(v) ==
  /\ RBC!Input(v)
  /\ UNCHANGED <<stage, outbox, inbox, shares, deaf, result, complained>>

(* The broadcast returns at p: rbc_vc_check commits to the value, signs    *)
(* the commitment and sends the signature to everyone.  A failed broadcast *)
(* kills the round.                                                        *)
RbcReturn(p, o) ==
  /\ stage[p] = "rbc"
  /\ RBC!Deliver(p, o)
  /\ Enter(p, IF o = Failed THEN "crashed" ELSE "verify")
  /\ outbox' = IF o = Failed THEN outbox
               ELSE [outbox EXCEPT ![p] = Broadcast(p, "VERIFY", o)]
  /\ UNCHANGED <<shares, deaf, result, complained>>

(* f+1 signatures on p's own commitment: rbc_vc_check returns p's share,   *)
(* multicast sends PROOF to everyone and refresh sends the share to the    *)
(* leader.                                                                 *)
VerifyDone(p) ==
  /\ stage[p] = "verify"
  /\ Cardinality(Signers(p, output[p])) >= f + 1
  /\ Enter(p, "multicast")
  /\ outbox' = [outbox EXCEPT ![p] =
       LET voted == Broadcast(p, "PROOF", output[p])
       IN  [q \in Correct |-> IF q = Leader
              THEN Append(voted[q], Msg("SHARE", p, output[p], share(p))) ELSE voted[q]]]
  /\ UNCHANGED <<rbc, shares, deaf, result, complained>>

(* f+1 equal votes: refresh goes on with the commitment.                   *)
MulticastDone(p) ==
  /\ stage[p] = "multicast"
  /\ Cardinality(Voters(p, output[p])) >= f + 1
  /\ Enter(p, IF p = Leader THEN "collect" ELSE "final")
  /\ UNCHANGED <<rbc, outbox, shares, deaf, result, complained>>

(* The leader takes a share from its queue.                                *)
Reads(x) ==
  /\ stage[Leader] = "collect"
  /\ x \in inbox[Leader] /\ x[2].tag = "SHARE"

(* It has read one with this id.                                           *)
Redundant(x) ==
  /\ Reads(x)
  /\ x[2].id \in prev_senders
  /\ inbox' = [inbox EXCEPT ![Leader] = @ \ {x}]
  /\ UNCHANGED <<rbc, stage, outbox, shares, deaf, result, complained>>

(* The id counts as read whether or not the items verify.                  *)
Accepts(x) ==
  /\ Reads(x)
  /\ x[2].id \notin prev_senders
  /\ shares' = shares \cup {x}

(* The leader waits for more.                                              *)
Collect(x) ==
  /\ Accepts(x)
  /\ counter(shares \cup {x}) < data_threshold
  /\ inbox' = [inbox EXCEPT ![Leader] = @ \ {x}]
  /\ UNCHANGED <<rbc, stage, outbox, deaf, result, complained>>

(* Enough items: the leader decodes, re-encodes and sends everyone its     *)
(* stripes.  Its loop discarded what else it read on the way, early FINALs *)
(* included.                                                               *)
Decode(x) ==
  /\ Accepts(x)
  /\ counter(shares \cup {x}) >= data_threshold
  /\ Cardinality(values(shares \cup {x})) >= data_threshold
  /\ stage' = [stage EXCEPT ![Leader] = "final"]
  /\ \E kept \in SUBSET {m \in inbox[Leader] : m[2].tag = "FINAL"} :
       inbox' = [inbox EXCEPT ![Leader] = kept]
  /\ outbox' = [outbox EXCEPT ![Leader] = Broadcast(Leader, "FINAL", output[Leader])]
  /\ UNCHANGED <<rbc, deaf, result, complained>>

(* Enough items, of too few stripes: decode raises.                        *)
TooFewToRecover(x) ==
  /\ Accepts(x)
  /\ counter(shares \cup {x}) >= data_threshold
  /\ Cardinality(values(shares \cup {x})) < data_threshold
  /\ Enter(Leader, "crashed")
  /\ UNCHANGED <<rbc, outbox, deaf, result, complained>>

\* Deviation: the stripes are not verified against the commitment.
FinalDoneUnverified(p, v) ==
  /\ stage[p] = "final"
  /\ Received(p, "FINAL", v) # {}
  /\ Enter(p, "done")
  /\ result' = [result EXCEPT ![p] = v]
  /\ UNCHANGED <<rbc, outbox, shares, deaf, complained>>

(* A FINAL, from whomever: its stripes are verified, a mismatch is         *)
(* announced with COMPLAIN (which nobody reads), and it is returned.       *)
FinalDone(p, v) ==
  /\ stage[p] = "final"
  /\ Received(p, "FINAL", v) # {}
  /\ Enter(p, "done")
  /\ result' = [result EXCEPT ![p] = v]
  /\ complained' = IF v = output[p] THEN complained ELSE complained \cup {p}
  /\ UNCHANGED <<rbc, outbox, shares, deaf>>

(* The round is over: stop is set and the client terminated, whatever it   *)
(* still has queued.                                                       *)
Stop(p) ==
  /\ stage[p] \in {"done", "crashed"}
  /\ stage' = [stage EXCEPT ![p] = "stopped"]
  /\ outbox' = [outbox EXCEPT ![p] = [q \in Correct |-> << >>]]
  /\ UNCHANGED <<rbc, inbox, shares, deaf, result, complained>>

(* p's client writes the next message for q, and q's server and dispatcher *)
(* pass it on.                                                             *)
Transmit(p, q) ==
  /\ outbox[p][q] # << >>
  /\ outbox' = [outbox EXCEPT ![p][q] = Tail(@)]
  /\ inbox' = IF q \notin deaf /\ Head(outbox[p][q]).tag \in Awaited(q, stage[q])
              THEN [inbox EXCEPT ![q] = @ \cup {<<p, Head(outbox[p][q])>>}]
              ELSE inbox
  /\ UNCHANGED <<rbc, stage, shares, deaf, result, complained>>

(* A faulty node's message arrives.                                        *)
FaultySend(q, p, m) ==
  /\ p \notin deaf
  /\ m.tag \in Awaited(p, stage[p])
  /\ <<q, m>> \notin inbox[p]
  /\ inbox' = [inbox EXCEPT ![p] = @ \cup {<<q, m>>}]
  /\ UNCHANGED <<rbc, stage, outbox, shares, deaf, result, complained>>

(* A message of an unknown tag, or not a triple, ends p's dispatcher: p    *)
(* hears no more than it has.                                              *)
UnknownTag(p) ==
  /\ Faulty # {}
  /\ stage[p] \in {"rbc", "verify", "multicast", "collect", "final"}
  /\ deaf' = deaf \cup {p}
  /\ UNCHANGED <<rbc, stage, outbox, inbox, shares, result, complained>>

(* p's step raises on the content of a message, and the round with it.     *)
Malformed(p) ==
  /\ Faulty # {}
  /\ stage[p] \in {"verify", "multicast", "collect", "final"}
  /\ deaf' = deaf \cup {p}
  /\ Enter(p, "crashed")
  /\ UNCHANGED <<rbc, outbox, shares, result, complained>>

LeaderReads ==
  /\ Leader \in Correct
  /\ \E x \in inbox[Leader] : Redundant(x) \/ Collect(x) \/ Decode(x) \/ TooFewToRecover(x)

CorrectStep ==
  \/ \E v \in Values : DealerInput(v)
  \/ \E p \in Correct, o \in Values \cup {Failed} : RbcReturn(p, o)
  \/ \E p \in Correct : VerifyDone(p) \/ MulticastDone(p)
  \/ LeaderReads
  \/ \E p \in Correct, v \in Values : FinalDone(p, v)
  \/ \E p, q \in Correct : Transmit(p, q)
  \/ \E p \in Correct : Stop(p)

Next ==
  \/ CorrectStep
  \/ \E q \in Faulty, p \in Correct, m \in Messages : FaultySend(q, p, m)
  \/ \E p \in Correct : UnknownTag(p) \/ Malformed(p)

Spec == Init /\ [][Next]_vars

\* The broadcast owes its outcome only as long as every correct node hears the others.
FairSpec == Init /\ [][Next]_vars /\ WF_vars(deaf = {} /\ CorrectStep)

-----------------------------------------------------------------------------
(* Messages are well formed, nodes are in a stage of _run_round, and no    *)
(* share reaches beyond the last stripe.                                   *)
TypeOK ==
  /\ input \in Values \cup {None}
  /\ output \in [Correct -> Values \cup {None, Failed}]
  /\ stage \in [Correct -> {"rbc", "verify", "multicast", "collect", "final", "done",
                            "crashed", "stopped"}]
  /\ outbox \in [Correct -> [Correct -> Seq(Messages)]]
  /\ inbox \in [Correct -> SUBSET (Nodes \X Messages)]
  /\ shares \subseteq Nodes \X Messages
  /\ deaf \subseteq Correct
  /\ result \in [Correct -> Values \cup {None}]
  /\ complained \subseteq Correct

(* Correct nodes that finish without complaining hold shares of one value, *)
(* whoever sent them, also when they never saw each other's messages.      *)
NoSilentDivergence ==
  \A p, q \in Correct :
    result[p] # None /\ result[q] # None /\ p \notin complained /\ q \notin complained
      => result[p] = result[q]

(* A correct dealer's data survives the refresh: nobody returns stripes of *)
(* other data unnoticed.                                                   *)
DataKept ==
  Leader \in Correct =>
    \A p \in Correct : result[p] # None /\ p \notin complained => result[p] = input

(* What makes the two inductive: outcomes of the broadcast agree, a node   *)
(* without complaint returns its outcome, and returns only at the end.     *)
Typed ==
  /\ output \in [Correct -> Values \cup {None, Failed}]
  /\ stage \in [Correct -> {"rbc", "verify", "multicast", "collect", "final", "done",
                            "crashed", "stopped"}]
  /\ result \in [Correct -> Values \cup {None}]
OutputsAgree ==
  /\ \A p, q \in Correct : output[p] # None /\ output[q] # None => output[p] = output[q]
  /\ Leader \in Correct => \A p \in Correct : output[p] \in {None, input}
ResultsLast == \A p \in Correct : result[p] # None => stage[p] \in {"done", "stopped"}
ResultsFollow ==
  \A p \in Correct : result[p] # None /\ p \notin complained => result[p] = output[p]

ResultInv == Typed /\ OutputsAgree /\ ResultsLast /\ ResultsFollow

(* However the shares of correct nodes arrive, the leader's counter of     *)
(* items counts none of their stripes twice: decode raises only after the  *)
(* share of a faulty node.                                                 *)
FromCorrect == {x \in shares : x[1] \in Correct}
DecodeBlamed ==
  Leader \in Correct /\ stage[Leader] = "crashed" /\ Leader \notin deaf => shares # FromCorrect
EnoughToDecode ==
  /\ counter(FromCorrect) <= Cardinality(values(FromCorrect))
  /\ DecodeBlamed

(* What makes it and TypeOK inductive: a node that has committed to a      *)
(* value has one, a correct dealer's own broadcast does not fail, and what *)
(* a correct node sends is what the code builds.                           *)
ValueHeld ==
  \A p \in Correct : stage[p] \in {"verify", "multicast", "collect"} => output[p] \in Values
Built(p) ==
  {Msg(tag, p, v, << >>) : tag \in {"VERIFY", "PROOF", "FINAL"}, v \in Values}
    \cup {Msg("SHARE", p, v, share(p)) : v \in Values}
SentAsBuilt ==
  /\ \A p, q \in Correct : outbox[p][q] \in Seq(Built(p))
  /\ \A q \in Correct : \A x \in inbox[q] : x[1] \in Correct => x[2] \in Built(x[1])
  /\ \A x \in FromCorrect : \E v \in Values : x[2] = Msg("SHARE", x[1], v, share(x[1]))

RoundInv == TypeOK /\ ValueHeld /\ SentAsBuilt /\ DecodeBlamed

(* A correct leader gets through the round, although the others stop as    *)
(* soon as they have a FINAL, of whomever, and forged shares take their    *)
(* ids: as long as the shares of f+1 correct nodes have come or may still  *)
(* come, and no step or dispatcher has raised.                             *)
MayCount(p) ==
  LET own == <<p, Msg("SHARE", p, output[p], share(p))>>
  IN  \/ own \in shares
      \/ p \notin prev_senders /\ (stage[p] # "stopped" \/ own \in inbox[Leader])

(* refresh_send is documented as reliable: the stripes the leader hands it *)
(* for a node reach that node.                                             *)
ReliableSend ==
  (\E q \in Correct : Leader \in Correct /\ \E i \in DOMAIN outbox[Leader][q] :
      outbox[Leader][q][i].tag = "FINAL")
    ~> (\A q \in Correct : result[q] # None \/ \E v \in Values : Received(q, "FINAL", v) # {})
=============================================================================
