--------------------------- MODULE MCDispersalRound ---------------------------
(***************************************************************************)
(* Bounds a dispersal round for TLC: the dealer's data is in Inputs, and   *)
(* faulty nodes send at most MaxFaultyMsgs messages, with tags in          *)
(* FaultyTags (JUNK for what raises), to nodes in Targets.  FINALs are of  *)
(* Forged data; votes and shares have an id of Claimed; shares are empty,  *)
(* as good as of other data, or repeat one stripe until the leader has     *)
(* counted enough.                                                         *)
(*                                                                         *)
(* Three orders stand for all: faulty messages arrive before the dealer    *)
(* has its data (a step takes a message whenever it likes, and threshold   *)
(* guards only grow true); a node's own messages, and those nobody reads,  *)
(* leave at once; and a node whose round is over stops at once (what it    *)
(* could still transmit it can transmit before).                           *)
(***************************************************************************)
EXTENDS DispersalRound, TLC

CONSTANTS MaxFaultyMsgs, FaultyTags, Inputs, Forged, Claimed, Targets

VARIABLE faultyMsgs

Symmetry == Permutations(Values)

MCInit == Init /\ faultyMsgs = 0

ForgedMessages(q) ==
  {Msg("FINAL", q, v, << >>) : v \in Forged}
    \cup {Msg("PROOF", id, v, << >>) : id \in Claimed, v \in Inputs}
    \cup {Msg("SHARE", id, v, items) : id \in Claimed, v \in Inputs,
                                       items \in {<< >>, [i \in 1 .. data_threshold |-> 0]}}

FaultyStep ==
  /\ faultyMsgs < MaxFaultyMsgs
  /\ faultyMsgs' = faultyMsgs + 1
  /\ \E p \in Targets :
       \/ /\ input = None /\ \A q \in Correct : output[q] = None
          /\ \E q \in Faulty : \E m \in ForgedMessages(q) :
               m.tag \in FaultyTags /\ FaultySend(q, p, m)
       \/ "JUNK" \in FaultyTags /\ (UnknownTag(p) \/ Malformed(p))

(* What is taken at once.                                                  *)
Over(p) == stage[p] \in {"done", "crashed"}
Prompt(p, q) ==
  /\ outbox[p][q] # << >>
  /\ p = q \/ q \in deaf \/ Head(outbox[p][q]).tag \notin Awaited(q, stage[q])

BoundedStep ==
  /\ CASE \E p \in Correct : Over(p) -> \E p \in Correct : Stop(p)
       [] ~ (\E p \in Correct : Over(p)) /\ (\E p, q \in Correct : Prompt(p, q))
            -> \E p, q \in Correct : Prompt(p, q) /\ Transmit(p, q)
       [] OTHER -> CorrectStep
  /\ input' \in Inputs \cup {None}
  /\ UNCHANGED faultyMsgs

MCSpec == MCInit /\ [][BoundedStep \/ FaultyStep]_<<vars, faultyMsgs>>

MCFairSpec == MCSpec /\ WF_vars(deaf = {} /\ CorrectStep)
=============================================================================
