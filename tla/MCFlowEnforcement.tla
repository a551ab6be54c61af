------------------------- MODULE MCFlowEnforcement -------------------------
(* Small instances of FlowEnforcement for TLC: two flows the broker decides  *)
(* and one to a destination that is not managed.                             *)
EXTENDS FlowEnforcement, TLC

CONSTANTS f1, f2, f3
=============================================================================
