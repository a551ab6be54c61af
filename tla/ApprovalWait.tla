---------------------------- MODULE ApprovalWait ----------------------------
(***************************************************************************)
(* An action that policy may want a person to approve, and the clocks that   *)
(* run while it waits: the pre-tool-use hook of a shell command, which its    *)
(* harness kills (and then runs the command) after a timeout, and a governed  *)
(* request that the daemon's router executes through the control plane.       *)
(*                                                                           *)
(* Both call the control plane once; if the answer is approval_required they *)
(* poll its status until somebody acts or the window closes, and after an    *)
(* approval make the identical call a second time.  The session token is     *)
(* the one the action began with.                                            *)
(*                                                                           *)
(* Time passes in units of the polling interval.  Nothing waits longer than  *)
(* its timeout; it may fail sooner.  The control plane may still work on a    *)
(* call whose caller has gone.                                               *)
(***************************************************************************)
EXTENDS Integers, FiniteSetsExt

CONSTANTS
    Hook,         \* shell commands, each with its hook process
    Request,      \* governed requests of the router
    LookupTime,   \* the daemon's answer to a session lookup
    IdentityTime, \* the renewal of the client certificate
    HookTime,     \* preToolUseTimeout
    CallTime,     \* runtimeCallTimeout
    ClientTime,   \* the timeout of the daemon's own http.Client
    Window,       \* approvalWaitTimeout, runtimeApprovalWaitTimeout
    HarnessTime,  \* the timeout the harness gives the hook
    Lifetimes,    \* what a session token may have left when an action begins
    Horizon       \* the clock stops here; actions begin early enough to end

Action == Hook \cup Request

\* The longest a hook may take (HarnessAssumption: "above the approval window").
HookSpan == LookupTime + IdentityTime + HookTime + Window + HookTime
CallLimit == Min({CallTime, ClientTime})
RequestSpan == CallLimit + Window + CallLimit

ASSUME TimeAssumption ==
    /\ {LookupTime, IdentityTime, HookTime, CallTime, ClientTime, Window} \subseteq Nat \ {0}
    /\ HarnessTime \in Nat /\ Horizon \in Nat /\ Lifetimes \subseteq Nat
ASSUME HarnessAssumption == HookSpan < HarnessTime
ASSUME KindAssumption == Hook \cap Request = {}

VARIABLES
    clock,
    pc, since,  \* what each action is doing, and since when
    begun,      \* when it began
    expiry,     \* when its session token expires
    polled,     \* when it last asked for the approval's status
    verdict,    \* what became of it
    call,       \* its call: none, sent, or the control plane's answer
    approval,   \* its approval, as the control plane knows it
    approvedAt, \* and when somebody approved it
    ran         \* how often the control plane has executed a request

timing == <<since, begun, expiry, polled>>
remote == <<approval, approvedAt, ran>>
vars == <<clock, pc, timing, verdict, call, remote>>

Answer == {"allow", "deny", "approval_required", "refused"}
Running(a) == pc[a] \notin {"idle", "done"}

\* Mutant: the second call is given another window.
LimitReused(a) ==
    CASE pc[a] = "lookup" -> LookupTime
      [] pc[a] = "identity" -> IdentityTime
      [] pc[a] = "call" -> IF a \in Hook THEN HookTime ELSE CallLimit
      [] pc[a] \in {"wait", "retry"} -> Window

\* The longest stay in the present phase.
Limit(a) ==
    CASE pc[a] = "lookup" -> LookupTime
      [] pc[a] = "identity" -> IdentityTime
      [] pc[a] \in {"call", "retry"} -> IF a \in Hook THEN HookTime ELSE CallLimit
      [] pc[a] = "wait" -> Window

Init ==
    /\ clock = 0
    /\ pc = [a \in Action |-> "idle"]
    /\ since = [a \in Action |-> 0]
    /\ begun = [a \in Action |-> 0]
    /\ expiry = [a \in Action |-> 0]
    /\ polled = [a \in Action |-> 0]
    /\ verdict = [a \in Action |-> "none"]
    /\ call = [a \in Action |-> "none"]
    /\ approval = [a \in Action |-> "none"]
    /\ approvedAt = [a \in Action |-> 0]
    /\ ran = [a \in Action |-> 0]

Goto(a, l) == pc' = [pc EXCEPT ![a] = l] /\ since' = [since EXCEPT ![a] = clock]

End(a, v) ==
    /\ pc' = [pc EXCEPT ![a] = "done"]
    /\ verdict' = [verdict EXCEPT ![a] = v]
    /\ UNCHANGED <<clock, timing, call, remote>>

-----------------------------------------------------------------------------
(* The caller.                                                               *)

\* A hook looks its session up; a request carries the session it was matched to.
Begin(a) ==
    /\ pc[a] = "idle"
    /\ clock + (IF a \in Hook THEN HarnessTime ELSE RequestSpan) < Horizon
    /\ Goto(a, IF a \in Hook THEN "lookup" ELSE "call")
    /\ begun' = [begun EXCEPT ![a] = clock]
    /\ \E left \in Lifetimes : expiry' = [expiry EXCEPT ![a] = clock + left]
    /\ call' = [call EXCEPT ![a] = IF a \in Hook THEN "none" ELSE "sent"]
    /\ UNCHANGED <<clock, polled, verdict, remote>>

\* With or without the daemon's answer: the token of the session's file will do.
LookedUp(a) ==
    /\ pc[a] = "lookup"
    /\ Goto(a, "identity")
    /\ UNCHANGED <<clock, begun, expiry, polled, verdict, call, remote>>

IdentityFresh(a) ==
    /\ pc[a] = "identity"
    /\ Goto(a, "call")
    /\ call' = [call EXCEPT ![a] = "sent"]
    /\ UNCHANGED <<clock, begun, expiry, polled, verdict, remote>>

\* An input, a session or an identity that will not do, and an error of a call: a
\* hook prints a denial, a request is rejected.
Fails(a) ==
    /\ pc[a] \in {"lookup", "identity", "call", "retry"}
    /\ End(a, "unavailable")

\* Mutant: a call that times out is made once more.
CallsAgain(a) ==
    /\ pc[a] = "call"
    /\ clock - since[a] = Limit(a)
    /\ Goto(a, "retry")
    /\ call' = [call EXCEPT ![a] = "sent"]
    /\ UNCHANGED <<clock, begun, expiry, polled, verdict, remote>>

TimesOut(a) ==
    /\ pc[a] \in {"call", "retry"}
    /\ clock - since[a] = Limit(a)
    /\ End(a, "timedOut")

\* An answer is acted upon; a second approval_required is no approval.
Answered(a) ==
    /\ pc[a] \in {"call", "retry"}
    /\ \/ call[a] = "allow" /\ End(a, "allowed")
       \/ call[a] = "deny" /\ End(a, "denied")
       \/ call[a] = "refused" /\ End(a, "unavailable")
       \/ call[a] = "approval_required" /\ pc[a] = "retry" /\ End(a, "denied")

StartsWaiting(a) ==
    /\ pc[a] = "call"
    /\ call[a] = "approval_required"
    /\ Goto(a, "wait")
    /\ polled' = [polled EXCEPT ![a] = clock - 1]
    /\ UNCHANGED <<clock, begun, expiry, verdict, call, remote>>

Retry(a) ==
    /\ Goto(a, "retry")
    /\ call' = [call EXCEPT ![a] = "sent"]
    /\ polled' = [polled EXCEPT ![a] = clock]
    /\ UNCHANGED <<clock, begun, expiry, verdict, remote>>

\* Mutant: a status that is not pending permits the retry.
PollLoosely(a) ==
    /\ pc[a] = "wait" /\ polled[a] # clock
    /\ \/ approval[a] = "pending"
          /\ polled' = [polled EXCEPT ![a] = clock]
          /\ UNCHANGED <<clock, pc, since, begun, expiry, verdict, call, remote>>
       \/ approval[a] # "pending" /\ Retry(a)

\* Mutant: a pending approval is one that was not granted.
PollOnce(a) ==
    /\ pc[a] = "wait" /\ polled[a] # clock
    /\ \/ approval[a] = "approved" /\ clock < expiry[a] /\ Retry(a)
       \/ approval[a] # "approved" /\ End(a, "notGranted")
       \/ clock >= expiry[a] /\ End(a, "notGranted")

\* One poll per interval; any error, and an expired token, end the wait.
Poll(a) ==
    /\ pc[a] = "wait" /\ polled[a] # clock
    /\ \/ /\ approval[a] = "pending" /\ clock < expiry[a]
          /\ polled' = [polled EXCEPT ![a] = clock]
          /\ UNCHANGED <<clock, pc, since, begun, expiry, verdict, call, remote>>
       \/ approval[a] = "approved" /\ clock < expiry[a] /\ Retry(a)
       \/ approval[a] \notin {"pending", "approved"} /\ End(a, "notGranted")
       \/ clock >= expiry[a] /\ End(a, "notGranted")

PollFails(a) ==
    /\ pc[a] = "wait"
    /\ End(a, "unavailable")

\* Mutant: only the clock of a hook ends the wait.
HookWindowCloses(a) ==
    /\ pc[a] = "wait" /\ a \in Hook
    /\ clock - since[a] = Window
    /\ End(a, "notGranted")

WindowCloses(a) ==
    /\ pc[a] = "wait"
    /\ clock - since[a] = Window
    /\ End(a, "notGranted")

-----------------------------------------------------------------------------
(* The control plane, as its callers rely on it.                             *)

\* Policy decides a first call; a person's approval is good for one more.
Decides(a) ==
    /\ call[a] = "sent"
    /\ \E answer \in Answer :
          /\ answer = "refused" <=> clock >= expiry[a]
          /\ approval[a] = "approved" => answer \in {"allow", "refused"}
          /\ approval[a] # "none" => answer # "approval_required"
          /\ call' = [call EXCEPT ![a] = answer]
          /\ approval' = [approval EXCEPT ![a] =
                IF answer = "approval_required" THEN "pending"
                ELSE IF answer = "allow" /\ @ = "approved" THEN "consumed" ELSE @]
          /\ ran' = [ran EXCEPT ![a] = IF answer = "allow" THEN @ + 1 ELSE @]
    /\ UNCHANGED <<clock, pc, timing, verdict, approvedAt>>

Approve(a) ==
    /\ approval[a] = "pending"
    /\ approval' = [approval EXCEPT ![a] = "approved"]
    /\ approvedAt' = [approvedAt EXCEPT ![a] = clock]
    /\ UNCHANGED <<clock, pc, timing, verdict, call, ran>>

\* Rejected, expired or cancelled.
Dismiss(a) ==
    /\ approval[a] = "pending"
    /\ approval' = [approval EXCEPT ![a] = "rejected"]
    /\ UNCHANGED <<clock, pc, timing, verdict, call, approvedAt, ran>>

-----------------------------------------------------------------------------
\* Time does not pass a timeout, nor a poll that is due.
Tick ==
    /\ clock < Horizon
    /\ \A a \in Action : Running(a) =>
          /\ clock - since[a] < Limit(a)
          /\ pc[a] = "wait" => polled[a] = clock
    /\ clock' = clock + 1
    /\ UNCHANGED <<pc, timing, verdict, call, remote>>

Caller(a) ==
    \/ LookedUp(a) \/ IdentityFresh(a) \/ TimesOut(a) \/ Answered(a) \/ StartsWaiting(a)
    \/ Poll(a) \/ WindowCloses(a)

Next ==
    \/ Tick
    \/ \E a \in Action :
          \/ Begin(a) \/ Caller(a) \/ Fails(a) \/ PollFails(a)
          \/ Decides(a) \/ Approve(a) \/ Dismiss(a)

\* Timers fire, and a process that can go on does; nothing has to fail, and neither
\* the control plane nor anybody else has to answer.
Fairness == WF_vars(Tick) /\ \A a \in Action : WF_vars(Caller(a))

Spec == Init /\ [][Next]_vars
FairSpec == Spec /\ Fairness

-----------------------------------------------------------------------------
(* Properties.                                                               *)

\* "its harness timeout stays well above the approval window so the harness never
\* kills it first (a killed hook fails OPEN in Claude Code)" (claudecode.go:106-108):
\* lookup, identity, both calls and the whole wait end before the harness would
\* kill the hook.
NeverFailsOpen == \A a \in Hook : Running(a) => clock - begun[a] < HarnessTime

\* An action that policy wants approved is allowed only after a person approved it:
\* the identical request, executed once (pretool.go:21-23, WaitForApproval).
AllowedIsApproved ==
    \A a \in Action : verdict[a] = "allowed" => approval[a] \in {"none", "consumed"}

\* One action is executed at most once, whatever is lost or late: only an answer of
\* approval_required, which executes nothing, is followed by a second call.
ExecutedOnce == \A a \in Action : ran[a] <= 1

\* "after approval the identical request and request_id are retried once"
\* (README.md:477): an approval given more than an interval before the window
\* closes, for a session whose token outlives the wait, is not reported as one that
\* was not granted.
ApprovedIsRetried ==
    \A a \in Action :
        /\ verdict[a] = "notGranted" /\ approval[a] = "approved"
        /\ expiry[a] > since[a] + Window
        => approvedAt[a] + 1 >= since[a] + Window

\* Whatever the control plane and the person do, an action gets its verdict.
EveryActionAnswered == \A a \in Action : Running(a) ~> verdict[a] # "none"

=============================================================================
