------------------------- MODULE ApprovalWaitProofs -------------------------
(***************************************************************************)
(* For all timeouts that leave the harness the longest, no hook is killed    *)
(* into letting its command through; no action is executed twice; none is    *)
(* allowed before a person approved it, and no approval is overlooked.       *)
(***************************************************************************)
EXTENDS ApprovalWait, TLAPS

\* How long a hook may have run when it enters each phase.
Before(l) ==
    CASE l = "lookup" -> 0
      [] l = "identity" -> LookupTime
      [] l = "call" -> LookupTime + IdentityTime
      [] l = "wait" -> LookupTime + IdentityTime + HookTime
      [] l = "retry" -> LookupTime + IdentityTime + HookTime + Window
      [] OTHER -> 0

Phase == {"lookup", "identity", "call", "wait", "retry"}

\* The time a hook has used is bounded phase by phase.
OnTime(a) ==
    pc[a] \in Phase =>
        /\ begun[a] \in Nat /\ since[a] \in Nat
        /\ begun[a] <= since[a] /\ since[a] <= clock
        /\ clock - since[a] <= Limit(a)
        /\ since[a] - begun[a] <= Before(pc[a])

TimeInv ==
    /\ clock \in Nat
    /\ pc \in [Action -> Phase \cup {"idle", "done"}]
    /\ since \in [Action -> Nat] /\ begun \in [Action -> Nat]
    /\ \A a \in Hook : OnTime(a)

LEMMA Spans ==
  /\ {LookupTime, IdentityTime, HookTime, Window} \subseteq Nat
  /\ HarnessTime \in Nat
  /\ LookupTime + IdentityTime + HookTime + Window + HookTime < HarnessTime
  BY TimeAssumption, HarnessAssumption DEF HookSpan

\* A hook that is still on time has not used up what its harness gives it.
LEMMA InTime ==
  ASSUME TimeInv, NEW a \in Hook, pc[a] \in Phase
  PROVE  clock - begun[a] < HarnessTime
  BY Spans DEF TimeInv, OnTime, Limit, Before, Phase

LEMMA InitTime == Init => TimeInv
  BY DEF Init, TimeInv, OnTime, Phase, Action

LEMMA NextTime == TimeInv /\ [Next]_vars => TimeInv'
<1> SUFFICES ASSUME TimeInv, [Next]_vars
             PROVE  TimeInv'
  OBVIOUS
<1> USE DEF Action
<1>1. CASE UNCHANGED vars
  BY <1>1 DEF vars, timing, TimeInv, OnTime, Limit
<1>2. CASE Tick
  <2>1. ASSUME NEW a \in Hook
        PROVE  OnTime(a)'
    BY <1>2, <2>1, Spans DEF Tick, timing, TimeInv, OnTime, Limit, Phase, Running
  <2> QED
    BY <1>2, <2>1 DEF Tick, timing, TimeInv
<1>3. ASSUME NEW a \in Action, Decides(a) \/ Approve(a) \/ Dismiss(a)
      PROVE  TimeInv'
  BY <1>3 DEF Decides, Approve, Dismiss, timing, TimeInv, OnTime, Limit
<1>4. ASSUME NEW a \in Action, NEW v, End(a, v)
      PROVE  TimeInv'
  <2>1. ASSUME NEW h \in Hook
        PROVE  OnTime(h)'
    BY <1>4, <2>1 DEF End, timing, TimeInv, OnTime, Limit, Phase
  <2> QED
    BY <1>4, <2>1 DEF End, timing, TimeInv
<1>5. ASSUME NEW a \in Action, NEW l \in Phase, Goto(a, l), clock' = clock, begun' = begun,
             a \in Hook => pc[a] \in Phase /\ clock - begun[a] <= Before(l)
      PROVE  TimeInv'
  <2>1. /\ pc' \in [Action -> Phase \cup {"idle", "done"}]
        /\ since' \in [Action -> Nat]
        /\ pc'[a] = l /\ since'[a] = clock
        /\ \A h \in Action \ {a} : pc'[h] = pc[h] /\ since'[h] = since[h]
    BY <1>5 DEF Goto, TimeInv
  <2>2. ASSUME NEW h \in Hook
        PROVE  OnTime(h)'
    <3>1. CASE h # a
      BY <1>5, <2>1, <3>1 DEF TimeInv, OnTime, Limit
    <3>2. CASE h = a
      BY <1>5, <2>1, <3>2, Spans DEF TimeInv, OnTime, Limit, Phase
    <3> QED
      BY <3>1, <3>2
  <2> QED
    BY <1>5, <2>1, <2>2 DEF TimeInv
<1>6. ASSUME NEW a \in Action, Begin(a)
      PROVE  TimeInv'
  <2>1. PICK l \in {"lookup", "call"} : Goto(a, l) /\ (a \in Hook => l = "lookup")
    BY <1>6 DEF Begin
  <2>2. /\ pc' \in [Action -> Phase \cup {"idle", "done"}]
        /\ since' \in [Action -> Nat] /\ begun' \in [Action -> Nat]
        /\ pc'[a] = l /\ since'[a] = clock /\ begun'[a] = clock
        /\ clock' = clock
        /\ \A h \in Action \ {a} :
              pc'[h] = pc[h] /\ since'[h] = since[h] /\ begun'[h] = begun[h]
    BY <1>6, <2>1 DEF Begin, Goto, TimeInv, Phase
  <2>3. ASSUME NEW h \in Hook
        PROVE  OnTime(h)'
    <3>1. CASE h # a
      BY <2>2, <3>1 DEF TimeInv, OnTime, Limit
    <3>2. CASE h = a
      BY <2>1, <2>2, <3>2, Spans DEF TimeInv, OnTime, Limit, Before, Phase
    <3> QED
      BY <3>1, <3>2
  <2> QED
    BY <2>2, <2>3 DEF TimeInv
<1>7. ASSUME NEW a \in Action, Fails(a) \/ TimesOut(a) \/ Answered(a) \/ PollFails(a)
                               \/ WindowCloses(a)
      PROVE  TimeInv'
  BY <1>4, <1>7 DEF Fails, TimesOut, Answered, PollFails, WindowCloses
<1>9. ASSUME NEW a \in Action, LookedUp(a)
      PROVE  TimeInv'
  <2>1. pc[a] \in Phase /\ (a \in Hook => clock - begun[a] <= Before("identity"))
    BY <1>9, Spans DEF LookedUp, TimeInv, OnTime, Limit, Before, Phase
  <2>2. begun' = begun /\ clock' = clock /\ Goto(a, "identity")
    BY <1>9 DEF LookedUp
  <2>3. "identity" \in Phase
    BY DEF Phase
  <2> QED
    BY <1>5, <1>9, <2>1, <2>2, <2>3
<1>10. ASSUME NEW a \in Action, IdentityFresh(a)
       PROVE  TimeInv'
  <2>1. pc[a] \in Phase /\ (a \in Hook => clock - begun[a] <= Before("call"))
    BY <1>10, Spans DEF IdentityFresh, TimeInv, OnTime, Limit, Before, Phase
  <2>2. begun' = begun /\ clock' = clock /\ Goto(a, "call")
    BY <1>10 DEF IdentityFresh
  <2>3. "call" \in Phase
    BY DEF Phase
  <2> QED
    BY <1>5, <1>10, <2>1, <2>2, <2>3
<1>11. ASSUME NEW a \in Action, StartsWaiting(a)
       PROVE  TimeInv'
  <2>1. pc[a] \in Phase /\ (a \in Hook => clock - begun[a] <= Before("wait"))
    BY <1>11, Spans DEF StartsWaiting, TimeInv, OnTime, Limit, Before, Phase
  <2>2. begun' = begun /\ clock' = clock /\ Goto(a, "wait")
    BY <1>11 DEF StartsWaiting
  <2>3. "wait" \in Phase
    BY DEF Phase
  <2> QED
    BY <1>5, <1>11, <2>1, <2>2, <2>3
<1>12. ASSUME NEW a \in Action, Poll(a)
       PROVE  TimeInv'
  <2>1. CASE polled' = [polled EXCEPT ![a] = clock]
             /\ UNCHANGED <<clock, pc, since, begun, expiry, verdict, call, remote>>
    BY <2>1 DEF TimeInv, OnTime, Limit
  <2>2. CASE Retry(a)
    <3>1. pc[a] \in Phase /\ (a \in Hook => clock - begun[a] <= Before("retry"))
      BY <1>12, Spans DEF Poll, TimeInv, OnTime, Limit, Before, Phase
    <3>2. begun' = begun /\ clock' = clock /\ Goto(a, "retry")
      BY <2>2 DEF Retry
    <3>3. "retry" \in Phase
      BY DEF Phase
    <3> QED
      BY <1>5, <1>12, <3>1, <3>2, <3>3
  <2>3. CASE End(a, "notGranted")
    BY <1>4, <2>3
  <2> QED
    BY <1>12, <2>1, <2>2, <2>3 DEF Poll
<1> QED
  BY <1>1, <1>2, <1>3, <1>6, <1>7, <1>9, <1>10, <1>11, <1>12 DEF Next, Caller

\* "its harness timeout stays well above the approval window so the harness never
\* kills it first" (claudecode.go:106-107): however slow every step is.
THEOREM HookIsInTime == Spec => []NeverFailsOpen
<1>1. TimeInv => NeverFailsOpen
  <2> SUFFICES ASSUME TimeInv, NEW a \in Hook, Running(a)
               PROVE  clock - begun[a] < HarnessTime
    BY DEF NeverFailsOpen
  <2>1. pc[a] \in Phase
    BY DEF TimeInv, Running, Action
  <2> QED
    BY <2>1, InTime
<1> QED
  BY <1>1, InitTime, NextTime, PTL DEF Spec

-----------------------------------------------------------------------------
\* The control plane has executed exactly the call it last allowed, and a call
\* is made again only where its answer was approval_required.
CallInv ==
    /\ pc \in [Action -> Phase \cup {"idle", "done"}]
    /\ call \in [Action -> Answer \cup {"none", "sent"}]
    /\ ran \in [Action -> Nat]
    /\ \A a \in Action :
          /\ call[a] = "allow" => ran[a] = 1
          /\ call[a] # "allow" => ran[a] = 0
          /\ pc[a] \in {"idle", "lookup", "identity"} => call[a] = "none"
          /\ pc[a] = "wait" => call[a] = "approval_required"

LEMMA InitCall == Init => CallInv
  BY DEF Init, CallInv

LEMMA NextCall == CallInv /\ [Next]_vars => CallInv'
<1> SUFFICES ASSUME CallInv, [Next]_vars
             PROVE  CallInv'
  OBVIOUS
<1> USE DEF Phase, timing, remote, Goto
<1>1. CASE UNCHANGED vars
  BY <1>1 DEF vars, CallInv
<1>2. CASE Tick
  BY <1>2 DEF Tick, CallInv
<1>3. ASSUME NEW a \in Action, NEW v, End(a, v)
      PROVE  CallInv'
  BY <1>3 DEF End, CallInv
<1>4. ASSUME NEW a \in Action, Begin(a) \/ LookedUp(a) \/ IdentityFresh(a) \/ StartsWaiting(a)
      PROVE  CallInv'
  BY <1>4 DEF Begin, LookedUp, IdentityFresh, StartsWaiting, CallInv
<1>5. ASSUME NEW a \in Action, Fails(a) \/ TimesOut(a) \/ Answered(a) \/ PollFails(a)
                               \/ WindowCloses(a)
      PROVE  CallInv'
  BY <1>3, <1>5 DEF Fails, TimesOut, Answered, PollFails, WindowCloses
<1>6. ASSUME NEW a \in Action, Poll(a)
      PROVE  CallInv'
  <2>1. CASE Retry(a)
    BY <1>6, <2>1 DEF Poll, Retry, CallInv
  <2>2. CASE UNCHANGED <<clock, pc, since, begun, expiry, verdict, call, remote>>
    BY <2>2 DEF CallInv
  <2>3. CASE End(a, "notGranted")
    BY <1>3, <2>3
  <2> QED
    BY <1>6, <2>1, <2>2, <2>3 DEF Poll
<1>7. ASSUME NEW a \in Action, Decides(a)
      PROVE  CallInv'
  <2>1. PICK answer \in Answer :
           /\ call' = [call EXCEPT ![a] = answer]
           /\ ran' = [ran EXCEPT ![a] = IF answer = "allow" THEN @ + 1 ELSE @]
    BY <1>7 DEF Decides
  <2>2. call[a] = "sent" /\ pc' = pc
    BY <1>7 DEF Decides
  <2> QED
    BY <2>1, <2>2 DEF CallInv
<1>8. ASSUME NEW a \in Action, Approve(a) \/ Dismiss(a)
      PROVE  CallInv'
  BY <1>8 DEF Approve, Dismiss, CallInv
<1> QED
  BY <1>1, <1>2, <1>4, <1>5, <1>6, <1>7, <1>8 DEF Next, Caller

\* Whatever is lost, late or expired, one action is executed at most once, even if
\* the control plane does not recognise a request it has seen before.
THEOREM AtMostOnce == Spec => []ExecutedOnce
<1>1. CallInv => ExecutedOnce
  BY DEF CallInv, ExecutedOnce
<1> QED
  BY <1>1, InitCall, NextCall, PTL DEF Spec

-----------------------------------------------------------------------------
(* What became of the approval, and what its action knows of it.             *)

Verdicts == {"none", "unavailable", "timedOut", "allowed", "denied", "notGranted"}

ApprovalType ==
    /\ clock \in Nat
    /\ pc \in [Action -> Phase \cup {"idle", "done"}]
    /\ since \in [Action -> Nat] /\ expiry \in [Action -> Nat]
    /\ polled \in [Action -> Int] /\ approvedAt \in [Action -> Nat]
    /\ verdict \in [Action -> Verdicts]
    /\ call \in [Action -> Answer \cup {"none", "sent"}]
    /\ approval \in [Action -> {"none", "pending", "approved", "rejected", "consumed"}]

\* An approval belongs to the answer that asked for it, and one that was given is
\* used up by the call that is then allowed.
Granted(a) ==
    /\ pc[a] \in {"idle", "lookup", "identity"} => call[a] = "none"
    /\ pc[a] = "wait" => call[a] = "approval_required"
    /\ call[a] = "none" => approval[a] = "none"
    /\ call[a] = "sent" => approval[a] \in {"none", "approved"}
    /\ call[a] = "approval_required" => approval[a] \in {"pending", "approved", "rejected"}
    /\ call[a] = "allow" => approval[a] \in {"none", "consumed"}
    /\ call[a] \in {"deny", "refused"} => approval[a] \in {"none", "approved"}
    /\ verdict[a] # "none" => pc[a] = "done"
    /\ verdict[a] = "allowed" => call[a] = "allow"
    /\ verdict[a] = "notGranted" => call[a] = "approval_required"

\* One poll in every interval of the wait, from the first; and what the last one
\* may have missed.
Watched(a) ==
    /\ pc[a] = "wait" =>
          /\ since[a] <= clock /\ clock <= since[a] + Window
          /\ clock - 1 <= polled[a] /\ polled[a] <= clock
          /\ approval[a] = "approved" => approvedAt[a] >= polled[a] \/ polled[a] < since[a]
    /\ verdict[a] = "notGranted" /\ expiry[a] > since[a] + Window =>
          /\ approval[a] = "pending" => clock >= since[a] + Window
          /\ approval[a] = "approved" => approvedAt[a] + 1 >= since[a] + Window

ApprovalInv == ApprovalType /\ \A a \in Action : Granted(a) /\ Watched(a)

LEMMA InitApproval == Init => ApprovalInv
BY DEF Init, ApprovalInv, ApprovalType, Granted, Watched, Verdicts

\* A step of one action leaves the others alone.
LEMMA OneAction ==
  ASSUME ApprovalInv, ApprovalType', NEW a \in Action, clock' = clock,
         \A b \in Action \ {a} :
            /\ pc'[b] = pc[b] /\ since'[b] = since[b] /\ expiry'[b] = expiry[b]
            /\ polled'[b] = polled[b] /\ verdict'[b] = verdict[b] /\ call'[b] = call[b]
            /\ approval'[b] = approval[b] /\ approvedAt'[b] = approvedAt[b],
         Granted(a)', Watched(a)'
  PROVE  ApprovalInv'
<1>1. ASSUME NEW b \in Action \ {a} PROVE Granted(b)' /\ Watched(b)'
  BY <1>1 DEF ApprovalInv, Granted, Watched
<1> QED
  BY <1>1 DEF ApprovalInv

LEMMA NextApproval == ApprovalInv /\ [Next]_vars => ApprovalInv'
<1> SUFFICES ASSUME ApprovalInv, [Next]_vars PROVE ApprovalInv'
  OBVIOUS
<1>0. Window \in Nat \ {0} /\ Lifetimes \subseteq Nat
  BY TimeAssumption
<1> USE DEF timing, remote
<1>1. CASE UNCHANGED vars
  BY <1>1 DEF vars, ApprovalInv, ApprovalType, Granted, Watched
<1>2. CASE Tick
  <2>1. ApprovalType'
    BY <1>2 DEF Tick, ApprovalInv, ApprovalType
  <2>2. ASSUME NEW a \in Action PROVE Granted(a)'
    BY <1>2, <2>2 DEF Tick, ApprovalInv, Granted
  <2>3. ASSUME NEW a \in Action PROVE Watched(a)'
    <3>1. CASE pc[a] = "wait"
      <4>1. clock - since[a] < Window /\ polled[a] = clock /\ clock' = clock + 1 /\ clock \in Nat
        BY <1>2, <3>1 DEF Tick, Running, Limit, ApprovalInv, ApprovalType
      <4>2. verdict[a] # "notGranted"
        BY <3>1 DEF ApprovalInv, Granted
      <4> QED
        BY <1>0, <1>2, <4>1, <4>2 DEF Tick, ApprovalInv, ApprovalType, Watched
    <3>2. CASE pc[a] # "wait"
      BY <1>0, <1>2, <3>2 DEF Tick, ApprovalInv, ApprovalType, Watched
    <3> QED
      BY <3>1, <3>2
  <2> QED
    BY <2>1, <2>2, <2>3 DEF ApprovalInv
<1>3. ASSUME NEW a \in Action, NEW v \in Verdicts \ {"none"}, End(a, v),
             v = "allowed" => call[a] = "allow",
             v = "notGranted" =>
               /\ pc[a] = "wait"
               /\ \/ clock >= expiry[a]
                  \/ approval[a] \notin {"pending", "approved"}
                  \/ clock - since[a] = Window
      PROVE  ApprovalInv'
  <2>1. ApprovalType'
    BY <1>3 DEF End, ApprovalInv, ApprovalType
  <2>2. /\ pc'[a] = "done" /\ verdict'[a] = v
        /\ UNCHANGED <<clock, since, expiry, polled, call, approval, approvedAt>>
    BY <1>3 DEF End, ApprovalInv, ApprovalType
  <2>3. Granted(a)'
    BY <1>3, <2>2 DEF ApprovalInv, Granted
  <2>4. Watched(a)'
    <3>1. CASE v = "notGranted"
      BY <1>0, <1>3, <2>2, <3>1 DEF ApprovalInv, ApprovalType, Watched
    <3>2. CASE v # "notGranted"
      BY <2>2, <3>2 DEF Watched
    <3> QED
      BY <3>1, <3>2
  <2> QED
    BY <1>3, <2>1, <2>2, <2>3, <2>4, OneAction DEF End
<1>4. ASSUME NEW a \in Action, Fails(a) \/ TimesOut(a) \/ Answered(a) \/ PollFails(a)
                               \/ WindowCloses(a)
      PROVE  ApprovalInv'
  BY <1>3, <1>4 DEF Fails, TimesOut, Answered, PollFails, WindowCloses, Verdicts
<1>5. ASSUME NEW a \in Action, Begin(a)
      PROVE  ApprovalInv'
  <2>1. ApprovalType'
    BY <1>0, <1>5 DEF Begin, Goto, Phase, ApprovalInv, ApprovalType
  <2>2. /\ pc[a] = "idle" /\ pc'[a] \in {"lookup", "call"}
        /\ call'[a] = "none" \/ (call'[a] = "sent" /\ pc'[a] = "call")
        /\ UNCHANGED <<clock, verdict, approval, approvedAt>>
    BY <1>5 DEF Begin, Goto, ApprovalInv, ApprovalType
  <2>3. Granted(a)' /\ Watched(a)'
    BY <2>2 DEF ApprovalInv, Granted, Watched
  <2> QED
    BY <1>5, <2>1, <2>2, <2>3, OneAction DEF Begin, Goto
<1>6. ASSUME NEW a \in Action, LookedUp(a) \/ IdentityFresh(a)
      PROVE  ApprovalInv'
  <2>1. ApprovalType'
    BY <1>6 DEF LookedUp, IdentityFresh, Goto, Phase, ApprovalInv, ApprovalType
  <2>2. /\ pc[a] \in {"lookup", "identity"}
        /\ \/ pc'[a] = "identity" /\ call' = call
           \/ pc'[a] = "call" /\ call'[a] = "sent"
        /\ UNCHANGED <<clock, verdict, approval, approvedAt>>
    BY <1>6 DEF LookedUp, IdentityFresh, Goto, ApprovalInv, ApprovalType
  <2>3. Granted(a)' /\ Watched(a)'
    BY <2>2 DEF ApprovalInv, Granted, Watched
  <2> QED
    <3>1. \A b \in Action \ {a} : pc'[b] = pc[b] /\ since'[b] = since[b] /\ call'[b] = call[b]
      BY <1>6 DEF LookedUp, IdentityFresh, Goto, ApprovalInv, ApprovalType
    <3>2. UNCHANGED <<clock, expiry, polled, verdict, approval, approvedAt>>
      BY <1>6 DEF LookedUp, IdentityFresh
    <3> QED
      BY <2>1, <2>3, <3>1, <3>2, OneAction
<1>7. ASSUME NEW a \in Action, StartsWaiting(a)
      PROVE  ApprovalInv'
  <2>1. ApprovalType'
    BY <1>7 DEF StartsWaiting, Goto, Phase, ApprovalInv, ApprovalType
  <2>2. /\ pc[a] = "call" /\ call[a] = "approval_required" /\ pc'[a] = "wait"
        /\ since'[a] = clock /\ polled'[a] = clock - 1 /\ clock \in Nat
        /\ UNCHANGED <<clock, expiry, verdict, call, approval, approvedAt>>
    BY <1>7 DEF StartsWaiting, Goto, ApprovalInv, ApprovalType
  <2>3. Granted(a)'
    BY <2>2 DEF ApprovalInv, Granted
  <2>4. Watched(a)'
    BY <1>0, <2>2 DEF ApprovalInv, Granted, Watched
  <2> QED
    BY <1>7, <2>1, <2>2, <2>3, <2>4, OneAction DEF StartsWaiting, Goto
<1>8. ASSUME NEW a \in Action, Poll(a)
      PROVE  ApprovalInv'
  <2>1. CASE Retry(a) /\ approval[a] = "approved"
    <3>1. ApprovalType'
      BY <2>1 DEF Retry, Goto, Phase, ApprovalInv, ApprovalType
    <3>2. /\ pc[a] = "wait" /\ pc'[a] = "retry" /\ call'[a] = "sent"
          /\ UNCHANGED <<clock, expiry, verdict, approval, approvedAt>>
      BY <1>8, <2>1 DEF Poll, Retry, Goto, ApprovalInv, ApprovalType
    <3>3. Granted(a)' /\ Watched(a)'
      BY <2>1, <3>2 DEF ApprovalInv, Granted, Watched
    <3> QED
      BY <2>1, <3>1, <3>2, <3>3, OneAction DEF Retry, Goto
  <2>2. CASE /\ approval[a] = "pending" /\ polled' = [polled EXCEPT ![a] = clock]
             /\ UNCHANGED <<clock, pc, since, begun, expiry, verdict, call, remote>>
    <3>1. ApprovalType'
      BY <2>2 DEF ApprovalInv, ApprovalType
    <3>2. polled'[a] = clock /\ clock \in Nat /\ pc[a] = "wait"
      BY <1>8, <2>2 DEF Poll, ApprovalInv, ApprovalType
    <3>3. Granted(a)'
      BY <2>2 DEF ApprovalInv, Granted
    <3>4. Watched(a)'
      BY <2>2, <3>2 DEF ApprovalInv, Granted, Watched
    <3> QED
      BY <2>2, <3>1, <3>3, <3>4, OneAction
  <2>3. CASE /\ End(a, "notGranted")
             /\ clock >= expiry[a] \/ approval[a] \notin {"pending", "approved"}
    BY <1>3, <1>8, <2>3 DEF Poll, Verdicts
  <2> QED
    BY <1>8, <2>1, <2>2, <2>3 DEF Poll
<1>9. ASSUME NEW a \in Action, Decides(a)
      PROVE  ApprovalInv'
  <2>1. PICK answer \in Answer :
          /\ approval[a] = "approved" => answer \in {"allow", "refused"}
          /\ approval[a] # "none" => answer # "approval_required"
          /\ call' = [call EXCEPT ![a] = answer]
          /\ approval' = [approval EXCEPT ![a] =
                IF answer = "approval_required" THEN "pending"
                ELSE IF answer = "allow" /\ @ = "approved" THEN "consumed" ELSE @]
    BY <1>9 DEF Decides
  <2>2. call[a] = "sent" /\ UNCHANGED <<clock, pc, since, expiry, polled, verdict, approvedAt>>
    BY <1>9 DEF Decides
  <2>3. ApprovalType'
    BY <2>1, <2>2 DEF ApprovalInv, ApprovalType
  <2>4. /\ call'[a] = answer
        /\ approval'[a] = IF answer = "approval_required" THEN "pending"
              ELSE IF answer = "allow" /\ approval[a] = "approved" THEN "consumed" ELSE approval[a]
    BY <2>1 DEF ApprovalInv, ApprovalType
  <2>5. pc[a] # "wait" /\ verdict[a] # "notGranted"
    BY <2>2 DEF ApprovalInv, Granted
  <2>6. Granted(a)'
    BY <2>1, <2>2, <2>4, <2>5 DEF ApprovalInv, Granted, Answer
  <2>7. Watched(a)'
    BY <2>2, <2>5 DEF Watched
  <2> QED
    BY <2>1, <2>2, <2>3, <2>6, <2>7, OneAction
<1>10. ASSUME NEW a \in Action, Approve(a) \/ Dismiss(a)
      PROVE  ApprovalInv'
  <2>1. ApprovalType'
    BY <1>10 DEF Approve, Dismiss, ApprovalInv, ApprovalType
  <2>2. /\ approval[a] = "pending"
        /\ \/ approval'[a] = "approved" /\ approvedAt'[a] = clock
           \/ approval'[a] = "rejected" /\ approvedAt' = approvedAt
        /\ UNCHANGED <<clock, pc, since, expiry, polled, verdict, call>>
    BY <1>10 DEF Approve, Dismiss, ApprovalInv, ApprovalType
  <2>3. Granted(a)'
    BY <2>2 DEF ApprovalInv, Granted
  <2>4. Watched(a)'
    BY <1>0, <2>2 DEF ApprovalInv, ApprovalType, Watched
  <2> QED
    <3>1. \A b \in Action \ {a} : approval'[b] = approval[b] /\ approvedAt'[b] = approvedAt[b]
      BY <1>10 DEF Approve, Dismiss, ApprovalInv, ApprovalType
    <3> QED
      BY <2>1, <2>2, <2>3, <2>4, <3>1, OneAction
<1> QED
  BY <1>1, <1>2, <1>4, <1>5, <1>6, <1>7, <1>8, <1>9, <1>10 DEF Next, Caller

LEMMA ApprovalHolds == Spec => []ApprovalInv
BY InitApproval, NextApproval, PTL DEF Spec

\* An action that policy wants approved is allowed only by the second call, after a
\* person approved it, and that approval is spent, whoever is slow or gives up in
\* between.
THEOREM ApprovedBeforeAllowed == Spec => []AllowedIsApproved
<1>1. ApprovalInv => AllowedIsApproved
  BY DEF ApprovalInv, Granted, AllowedIsApproved
<1> QED
  BY <1>1, ApprovalHolds, PTL

\* No approval is overlooked: an action that ends as not granted although somebody
\* approved it was approved in the last interval of its window or later, if its
\* token outlives the window.
THEOREM NoApprovalOverlooked == Spec => []ApprovedIsRetried
<1>1. ApprovalInv => ApprovedIsRetried
  BY DEF ApprovalInv, Watched, ApprovedIsRetried
<1> QED
  BY <1>1, ApprovalHolds, PTL

=============================================================================
