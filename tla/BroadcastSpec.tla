----------------------------- MODULE BroadcastSpec -----------------------------
(***************************************************************************)
(* What reliablebroadcast promises its callers (rbc_vc_check, rbc_check,   *)
(* commonsubset, the protocol rounds): every correct node that finishes    *)
(* has the same outcome, a correct leader's outcome is its input, and if   *)
(* one correct node finishes all do.  An outcome is a value or Failed      *)
(* (the sender's stripes encoded no value).                                *)
(***************************************************************************)
CONSTANTS Correct, Leader, Values, None, Failed

VARIABLES input, output

vars == <<input, output>>

Init == input = None /\ output = [p \in Correct |-> None]

Input(v) ==
  /\ Leader \in Correct
  /\ input = None
  /\ input' = v
  /\ UNCHANGED output

Deliver(p, o) ==
  /\ output[p] = None
  /\ \A q \in Correct : output[q] \in {None, o}
  /\ Leader \in Correct => input # None /\ o = input
  /\ output' = [output EXCEPT ![p] = o]
  /\ UNCHANGED input

Next ==
  \/ \E v \in Values : Input(v)
  \/ \E p \in Correct, o \in Values \cup {Failed} : Deliver(p, o)

Spec == Init /\ [][Next]_vars

(* Delivery is owed once anyone has delivered or a correct leader sent.    *)
Owed == (\E q \in Correct : output[q] # None) \/ (Leader \in Correct /\ input # None)

FairSpec ==
  /\ Spec
  /\ WF_vars(\E v \in Values : Input(v))
  /\ WF_vars(Owed /\ \E p \in Correct, o \in Values \cup {Failed} : Deliver(p, o))
=============================================================================
