-------------------------------- MODULE MCTicks --------------------------------
(***************************************************************************)
(* The two halves of TickHub in one run: the ring and its streams          *)
(* (TickStream) and the choice of the node (TickNodes).  The ring takes    *)
(* ticks from whatever node is in use, in any order, so the halves share   *)
(* no state here; one moves and the other stays as it began.               *)
(***************************************************************************)
EXTENDS TickStream, TickNodes

VARIABLES half

TicksInit == half \in {"ring", "nodes"} /\ Init /\ NodesInit

TicksNext ==
  \/ half = "ring" /\ Next /\ UNCHANGED <<half, nodeVars>>
  \/ half = "nodes" /\ NodesNext /\ UNCHANGED <<half, vars>>

TicksSpec == TicksInit /\ [][TicksNext]_<<half, vars, nodeVars>>

\* Both halves keep their shape.
TicksTypeOK == TypeOK /\ NodesTypeOK
=============================================================================
