-------------------------- MODULE MCApprovalWait --------------------------
(* Instances of ApprovalWait.  The times keep the order of the code's: a      *)
(* call is shorter than the window, the client's timeout is below the call's, *)
(* and the harness waits one unit longer than the longest hook.               *)
EXTENDS ApprovalWait
=============================================================================
