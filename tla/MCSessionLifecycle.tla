------------------------ MODULE MCSessionLifecycle ------------------------
(* Small instances of SessionLifecycle for TLC: a Claude session sid1 whose *)
(* hooks may repeat, and a wrapper with a session id of its own.            *)
EXTENDS SessionLifecycle, TLC

CONSTANTS start1, start2, end1, end2, run1, sid1, sid2, k1, k2, k3

\* All hooks belong to sid1; a wrapper's session id is its own.
HookSids == [p \in Proc |-> IF p \in Runner THEN sid2 ELSE sid1]

\* Calls that fail and answers that are lost; a full disk; everything but that.
AnyFaults == {{"refuse", "loseAck"}, {"persist"}, FaultClass \ {"persist"}}
WrapperFaults == AnyFaults \cup {{"kill", "loseAck"}}
KillFaults == {{"kill"}}

\* KITs are interchangeable.
KitSymmetry == Permutations(Kit)
=============================================================================
