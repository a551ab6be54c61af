-------------------------- MODULE FlowEnforcement --------------------------
(***************************************************************************)
(* handleFlow: the daemon's broker path.  Every intercepted request runs in a *)
(* goroutine of its own that asks the control plane for a decision, appends   *)
(* it to the evidence ledger and only then injects a credential or rejects.   *)
(* Requests of sessions with routes go to the runtime router instead.        *)
(*                                                                           *)
(* Each flow appends at most one record, so it is its own Appender.          *)
(***************************************************************************)
EXTENDS EvidenceLedger

CONSTANT Managed \* flows to managed destinations

Flow == Appender
Decision == {"allow", "deny", "error"}

ASSUME FlowAssumption == Managed \subseteq Flow

VARIABLES
    fpc,      \* where each handleFlow call is
    decision, \* the decision it got
    answer    \* what became of the request

flowVars == <<fpc, decision, answer>>
vars == <<ledgerVars, flowVars>>

Init ==
    /\ LedgerInit
    /\ fpc = [f \in Flow |-> "new"]
    /\ decision = [f \in Flow |-> None]
    /\ answer = [f \in Flow |-> "none"]

Answer(f, a) ==
    /\ fpc' = [fpc EXCEPT ![f] = "done"]
    /\ answer' = [answer EXCEPT ![f] = a]

Decided(f, d) ==
    /\ decision' = [decision EXCEPT ![f] = d]
    /\ fpc' = [fpc EXCEPT ![f] = "audit"]

PassThrough(f) ==
    /\ daemon = "up" /\ fpc[f] = "new"
    /\ f \notin Managed
    /\ Answer(f, "passed")
    /\ UNCHANGED <<ledgerVars, decision>>

\* The metadata of the request is invalid: the broker is not asked.
DenyMalformed(f) ==
    /\ daemon = "up" /\ fpc[f] = "new"
    /\ f \in Managed
    /\ Decided(f, "deny")
    /\ UNCHANGED <<ledgerVars, answer>>

\* The broker answers allow or anything else, or cannot be asked.
Authorize(f) ==
    /\ daemon = "up" /\ fpc[f] = "new"
    /\ f \in Managed
    /\ \E d \in Decision : Decided(f, d)
    /\ UNCHANGED <<ledgerVars, answer>>

Audit(f) ==
    /\ fpc[f] = "audit"
    /\ Lock(f, <<f, decision[f]>>)
    /\ UNCHANGED flowVars

\* Mutant: an audit failure is only logged.
AuditedLoosely(f) == apc[f] \in {"acked", "failed"}

\* appendAuthorizeAudit succeeded.
Audited(f) == apc[f] = "acked"

\* Mutant: the credential goes out before the record is written.
ActsEarly(f) ==
    /\ daemon = "up" /\ fpc[f] = "audit" /\ decision[f] = "allow"
    /\ Answer(f, "injected")
    /\ UNCHANGED <<ledgerVars, decision>>

Inject(f) ==
    /\ fpc[f] = "audit"
    /\ Audited(f) /\ decision[f] = "allow"
    /\ Answer(f, "injected")
    /\ UNCHANGED <<ledgerVars, decision>>

\* The audit failed, the broker is unavailable, or it does not allow.
Reject(f) ==
    /\ fpc[f] = "audit"
    /\ \/ apc[f] = "failed"
       \/ apc[f] = "acked" /\ decision[f] # "allow"
    /\ Answer(f, "refused")
    /\ UNCHANGED <<ledgerVars, decision>>

HandleFlow(f) ==
    \/ PassThrough(f) \/ DenyMalformed(f) \/ Authorize(f)
    \/ Audit(f) \/ Inject(f) \/ Reject(f)

\* The process ends - killed, or Run returns without joining its handlers: their
\* connections are reset.
Stop ==
    /\ Kill \/ PowerLoss
    /\ fpc' = [f \in Flow |-> IF fpc[f] = "audit" THEN "done" ELSE fpc[f]]
    /\ answer' = [f \in Flow |-> IF fpc[f] = "audit" THEN "refused" ELSE answer[f]]
    /\ UNCHANGED decision

LedgerWork ==
    /\ OpenLedger \/ OpenRefused \/ \E f \in Flow : Step(f)
    /\ UNCHANGED flowVars

Next == LedgerWork \/ Stop \/ \E f \in Flow : HandleFlow(f)

Spec == Init /\ [][Next]_vars

\* Goroutines run, the file system answers, and a mutex starves no waiter.
FairSpec ==
    /\ Spec
    /\ \A f \in Flow : /\ WF_vars(HandleFlow(f)) /\ SF_vars(Audit(f))
                       /\ WF_vars(Step(f) /\ UNCHANGED flowVars)

-----------------------------------------------------------------------------
(* Properties.                                                               *)

\* A request that left with a credential has its allow in the ledger, on disk
\* and readable, through kills, power losses, failed syncs and failed writes -
\* unless a write that stopped short spoiled a line that was synced later.
InjectedIsOnRecord ==
    (\A i \in 1 .. synced : file[i] # Torn) => \A f \in Flow :
        answer[f] = "injected" =>
            \E i \in 1 .. synced : file[i].body = <<f, "allow">>

\* The broker path is an audited gate (daemon_test.go:163: "fails closed when
\* audit append fails"), whatever fails.
Gate == INSTANCE AuditedGate WITH
            Request <- Flow,
            recorded <- {<<f, decision[f]>> : f \in {g \in Flow : apc[g] = "acked"}}
GateSpec == Gate!Spec

\* Every request that reached the broker path is answered.
EveryFlowAnswered ==
    \A f \in Flow : (fpc[f] = "audit") ~> (answer[f] # "none")

=============================================================================
