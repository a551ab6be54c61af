---------------------------- MODULE AuditedGate ----------------------------
(***************************************************************************)
(* What the broker path of the daemon promises: a decision about a request   *)
(* is put on record once, a request of a managed destination leaves with a   *)
(* credential only after an allow for it is on record, and a request is      *)
(* answered once.                                                            *)
(***************************************************************************)
CONSTANTS Request, Managed, Decision

VARIABLES
    recorded, \* <<request, decision>> pairs on record
    answer

vars == <<recorded, answer>>

Init ==
    /\ recorded = {}
    /\ answer = [r \in Request |-> "none"]

Record(r, d) ==
    /\ answer[r] = "none"
    /\ \A entry \in recorded : entry[1] # r
    /\ recorded' = recorded \cup {<<r, d>>}
    /\ UNCHANGED answer

Answer(r, a) ==
    /\ answer[r] = "none"
    /\ answer' = [answer EXCEPT ![r] = a]
    /\ UNCHANGED recorded

Forward(r) == <<r, "allow">> \in recorded /\ Answer(r, "injected")
PassThrough(r) == r \notin Managed /\ Answer(r, "passed")

\* A refusal needs no record; the daemon's death refuses several at once.
Refuse(R) ==
    /\ \A r \in R : answer[r] = "none"
    /\ answer' = [r \in Request |-> IF r \in R THEN "refused" ELSE answer[r]]
    /\ UNCHANGED recorded

Next ==
    \/ \E r \in Request, d \in Decision : Record(r, d)
    \/ \E r \in Request : Forward(r) \/ PassThrough(r)
    \/ \E R \in SUBSET Request : Refuse(R)

Spec == Init /\ [][Next]_vars

=============================================================================
