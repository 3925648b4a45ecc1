------------------------------- MODULE CommonCoin -------------------------------
(***************************************************************************)
(* shared_coin (honeybadgerbft/core/commoncoin.py): a coin from threshold  *)
(* signatures.  getCoin broadcasts the caller's signature share of the     *)
(* round and waits on the round's queue; _recv collects verified shares    *)
(* and, when it has the (f+1)-st, combines them and fills the queue.       *)
(*                                                                         *)
(* Any f+1 valid shares combine to the round's one signature, whose hash   *)
(* seeds the selection of members: what is put in the queue is a function  *)
(* of the round that nobody knows before.  Combining a share that is not   *)
(* valid fails the assertion on the combined signature.  A faulty node's   *)
(* share, valid or not, arrives when _recv reads it.                       *)
(***************************************************************************)
EXTENDS Participants

CONSTANTS Rounds,       \* the rounds the coin is asked for
          Selections    \* the strings str(members) the selection can give

ASSUME RoundsFinite == IsFiniteSet(Rounds) /\ Rounds # {}

VARIABLES asked,        \* rounds a node has called getCoin for
          shares,       \* shares[p][r]: correct nodes whose share p has yet to receive
          received,     \* received[p][r]: senders of the shares kept by _recv
          invalid,      \* those among them whose share is not valid
          outputQueue,  \* outputQueue[p][r]: the element of the Queue(1), or None
          got,          \* got[p][r]: what getCoin(r) returned at p
          dead,         \* nodes whose _recv greenlet died of an exception
          beacon        \* beacon[r]: what the signature of round r selects, once known

vars == <<asked, shares, received, invalid, outputQueue, got, dead, beacon>>

PerNode(x) == [p \in Correct |-> [r \in Rounds |-> x]]

Init ==
  /\ asked = [p \in Correct |-> {}]
  /\ shares = PerNode({})
  /\ received = PerNode({})
  /\ invalid = PerNode({})
  /\ outputQueue = PerNode(None)
  /\ got = PerNode(None)
  /\ dead = {}
  /\ beacon = [r \in Rounds |-> None]

-----------------------------------------------------------------------------
\* Deviation: any share is taken.
AcceptsUnverified(p, i, valid) == TRUE

(* A peer's share is verified, the node's own is not.                      *)
Accepts(p, i, valid) == i = p \/ valid

\* Deviation: one share less.
ReachesThresholdEarly(R) == Cardinality(R) = f

\* Deviation: all shares are waited for.
ReachesThresholdAll(R) == Cardinality(R) = N

(* The share that makes f+1.                                               *)
ReachesThreshold(R) == Cardinality(R) = f + 1

(* deterministic_select_members, printed.                                  *)
Outputs == Selections

-----------------------------------------------------------------------------
(* getCoin up to the wait.                                                 *)
GetCoin(p, r) ==
  /\ r \notin asked[p]
  /\ asked' = [asked EXCEPT ![p] = @ \cup {r}]
  /\ shares' = [q \in Correct |-> [shares[q] EXCEPT ![r] = @ \cup {p}]]
  /\ UNCHANGED <<received, invalid, outputQueue, got, dead, beacon>>

(* getCoin returns.                                                        *)
ReturnCoin(p, r) ==
  /\ r \in asked[p] /\ got[p][r] = None
  /\ outputQueue[p][r] # None
  /\ got' = [got EXCEPT ![p][r] = outputQueue[p][r]]
  /\ outputQueue' = [outputQueue EXCEPT ![p][r] = None]
  /\ UNCHANGED <<asked, shares, received, invalid, dead, beacon>>

(* The shares are complete, those of bad not valid: combine, verify the    *)
(* combination, select, put_nowait.                                        *)
Combine(p, r, bad, o) ==
  IF bad # {} \/ outputQueue[p][r] # None
  THEN /\ dead' = dead \cup {p}
       /\ UNCHANGED <<outputQueue, beacon>>
  ELSE /\ beacon[r] \in {None, o}
       /\ beacon' = [beacon EXCEPT ![r] = o]
       /\ outputQueue' = [outputQueue EXCEPT ![p][r] = o]
       /\ UNCHANGED dead

(* One turn of _recv, on the share of sender i: a redundant or refused one *)
(* is skipped.                                                             *)
Recv(p, r, i, valid, o) ==
  /\ p \notin dead
  /\ i \in Faulty \/ (i \in shares[p][r] /\ valid)
  /\ shares' = [shares EXCEPT ![p][r] = @ \ {i}]
  /\ IF i \in received[p][r] \/ ~Accepts(p, i, valid)
       THEN UNCHANGED <<received, invalid, outputQueue, dead, beacon>>
       ELSE /\ received' = [received EXCEPT ![p][r] = @ \cup {i}]
            /\ invalid' = [invalid EXCEPT ![p][r] = IF valid THEN @ ELSE @ \cup {i}]
            /\ IF ReachesThreshold(received'[p][r])
                 THEN Combine(p, r, invalid'[p][r], o)
                 ELSE UNCHANGED <<outputQueue, dead, beacon>>
  /\ UNCHANGED <<asked, got>>

Next ==
  \/ \E p \in Correct, r \in Rounds : GetCoin(p, r)
  \/ \E p \in Correct, r \in Rounds : ReturnCoin(p, r)
  \/ \E p \in Correct, r \in Rounds, i \in Nodes, valid \in BOOLEAN, o \in Outputs :
       Recv(p, r, i, valid, o)

Spec == Init /\ [][Next]_vars

(* Greenlets are scheduled and messages of correct nodes arrive; whether a *)
(* node calls getCoin is its caller's choice.  There are finitely many of  *)
(* these steps, so fairness to all together is fairness to each.           *)
FairSpec ==
  /\ Spec
  /\ WF_vars(\E p \in Correct, r \in Rounds :
               \/ ReturnCoin(p, r)
               \/ \E q \in Correct, o \in Outputs : Recv(p, r, q, TRUE, o))

-----------------------------------------------------------------------------
(* Queues and results hold selections, messages name participants.         *)
TypeOK ==
  /\ asked \in [Correct -> SUBSET Rounds]
  /\ shares \in [Correct -> [Rounds -> SUBSET Correct]]
  /\ received \in [Correct -> [Rounds -> SUBSET Nodes]]
  /\ invalid \in [Correct -> [Rounds -> SUBSET Nodes]]
  /\ outputQueue \in [Correct -> [Rounds -> Outputs \cup {None}]]
  /\ got \in [Correct -> [Rounds -> Outputs \cup {None}]]
  /\ dead \subseteq Correct
  /\ beacon \in [Rounds -> Outputs \cup {None}]

(* The assertion on the combined signature and put_nowait on the Queue(1)  *)
(* never raise: no order of valid, invalid and redundant shares kills the  *)
(* receive loop.                                                           *)
ReceiverSurvives == dead = {}

(* The coin of a round is unknown, to the faulty nodes and to every queue, *)
(* until a correct node has asked for it.                                  *)
Unpredictable ==
  \A r \in Rounds :
    (\A p \in Correct : r \notin asked[p]) =>
      beacon[r] = None /\ \A p \in Correct : outputQueue[p][r] = None

(* What makes the two inductive: every kept share is valid, a filled queue *)
(* means that f+1 shares are kept, and the share of a correct node is in   *)
(* flight or kept only after it asked.                                     *)
SharesValid == \A p \in Correct, r \in Rounds : invalid[p][r] = {}
QueueAfterThreshold ==
  \A p \in Correct, r \in Rounds :
    outputQueue[p][r] # None => Cardinality(received[p][r]) >= f + 1
SharesAsked ==
  \A p, q \in Correct, r \in Rounds :
    q \in shares[p][r] \cup received[p][r] => r \in asked[q]

IInv ==
  TypeOK /\ ReceiverSurvives /\ Unpredictable /\ SharesValid /\ QueueAfterThreshold /\ SharesAsked

(* Once f+1 correct nodes ask, every correct node that asks gets the coin, *)
(* although others may have read theirs long before.                       *)
CoinTermination ==
  \A r \in Rounds, p \in Correct :
    (/\ r \in asked[p]
     /\ Cardinality({q \in Correct : r \in asked[q]}) >= f + 1) ~> (got[p][r] # None)
=============================================================================
