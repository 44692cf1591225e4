--------------------------- MODULE MCEpochLifecycle ---------------------------
(* Values of EpochLifecycle's constants for TLC. *)
EXTENDS EpochLifecycle

CONSTANTS v1, v2, w, op

MCTwoVersions == {v1, v2}
MCOneVersion  == {v1}
MCUpgrade     == {<<v1, v2>>}
MCNoUpgrade   == {}
MCOperator    == {op}
MCNobody      == {}
=============================================================================
