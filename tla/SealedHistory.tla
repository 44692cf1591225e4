---------------------------- MODULE SealedHistory ----------------------------
(***************************************************************************)
(* What the store promises about an epoch, in one screen: the network      *)
(* closes epochs in order, and a closed epoch may be sealed, once, with    *)
(* its settled revenue.  Nothing ever leaves "sealed"                      *)
(* (qdr/store.py, module docstring: the current epoch is live, a closed    *)
(* epoch is computed once and then served).                                *)
(***************************************************************************)
EXTENDS Naturals

CONSTANT MaxEpoch          \* bound: the last epoch of the history

VARIABLE phase             \* phase[e]: where epoch e is in its life

Phases == {"open", "closed", "sealed"}

Init == phase = [e \in 1..MaxEpoch |-> "open"]

Close(e) ==
  /\ phase[e] = "open"
  /\ \A d \in 1..MaxEpoch : d < e => phase[d] # "open"
  /\ phase' = [phase EXCEPT ![e] = "closed"]

Seal(e) ==
  /\ phase[e] = "closed"
  /\ phase' = [phase EXCEPT ![e] = "sealed"]

Next == \E e \in 1..MaxEpoch : Close(e) \/ Seal(e)

Spec == Init /\ [][Next]_phase
=============================================================================
