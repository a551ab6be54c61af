---------------------------- MODULE UsageMeter ----------------------------
(***************************************************************************)
(* The buffer of usage events of one session handle in the daemon's Meter:  *)
(* requests record events, a worker and a ticker ship them to the control    *)
(* plane in batches, unregistering the session runs a final flush with the   *)
(* departing credential before the KIT is revoked, and shutdown flushes what *)
(* is left.  The meter keeps its handles apart, so one handle is modelled.   *)
(*                                                                           *)
(* Steps are the critical sections of Meter.mu and of the registry's lock,   *)
(* the two ends of sendMu, and the exchange with the control plane.          *)
(*                                                                           *)
(* Abstractions: an event is a model value; contents, extraction and the     *)
(* report's encoding are left out.  A handle is registered once (the random  *)
(* tokens of the sandbox and proxyenv planes are never reused).              *)
(***************************************************************************)
EXTENDS Naturals, Sequences, FiniteSets

CONSTANTS
    Event,     \* usage events (one per model request)
    Ship,      \* sessionShip objects that may be created for the handle
    MaxBuf,    \* maxBufferedPerSession
    Trigger,   \* flushBatchTrigger
    Batch,     \* MaxUsageEventsPerReport
    Failures,  \* reports may fail or time out
    None

ASSUME BoundAssumption ==
    /\ MaxBuf \in Nat \ {0} /\ Trigger \in Nat \ {0} /\ Batch \in Nat \ {0}
    /\ Failures \in BOOLEAN
ASSUME ShipAssumption ==
    /\ IsFiniteSet(Event)
    /\ Ship \cap {"loop", "final", "close"} = {}
    /\ None \notin Ship \cup {"loop", "final", "close"}

VARIABLES
    registered, \* the registry has the session
    final,      \* FlushSessionFinal: where the unregistering goroutine is
    buf,        \* m.buffers[handle]; absent is <<>>
    ship,       \* m.ships[handle]
    made,       \* sessionShip objects created so far
    scheduled, closing, holder, canceller, \* the fields of each sessionShip
    rpc,        \* where each Record call is
    fpc,        \* where each flushHandle call is
    fship,      \* the sessionShip it works with
    hand,       \* the events it took and has not shipped
    cancelled,  \* its context was cancelled
    shut,       \* Meter.Close: where it is
    accepted,   \* history: the events that entered the buffer, in order
    delivered,  \* history: events the control plane has received
    lost        \* history: events dropped with a count or a log line

shipVars == <<ship, made, scheduled, closing, holder, canceller>>
flushVars == <<fpc, fship, hand, cancelled>>
history == <<accepted, delivered, lost>>
vars == <<registered, final, buf, shipVars, rpc, flushVars, shut, history>>

\* The callers of flushHandle: the ticker, the unregistering goroutine, Close,
\* and the worker that each sessionShip may have scheduled.
Flusher == {"loop", "final", "close"} \cup Ship
Elems(s) == {s[i] : i \in DOMAIN s}

\* The newest maxBufferedPerSession events.
Kept(s) == IF Len(s) > MaxBuf THEN SubSeq(s, Len(s) - MaxBuf + 1, Len(s)) ELSE s
Overflow(s) == Elems(s) \ Elems(Kept(s))
Later(s, n) == SubSeq(s, n + 1, Len(s))
Sending(f) == SubSeq(hand[f], 1, IF Len(hand[f]) < Batch THEN Len(hand[f]) ELSE Batch)

Init ==
    /\ registered = TRUE
    /\ final = "no"
    /\ buf = <<>>
    /\ ship = None /\ made = {}
    /\ scheduled = [s \in Ship |-> FALSE]
    /\ closing = [s \in Ship |-> FALSE]
    /\ holder = [s \in Ship |-> None]
    /\ canceller = [s \in Ship |-> None]
    /\ rpc = [e \in Event |-> "new"]
    /\ fpc = [f \in Flusher |-> "idle"]
    /\ fship = [f \in Flusher |-> None]
    /\ hand = [f \in Flusher |-> <<>>]
    /\ cancelled = [f \in Flusher |-> FALSE]
    /\ shut = "open"
    /\ accepted = <<>> /\ delivered = {} /\ lost = {}

\* m.state(handle): the handle's sessionShip s, created when there is none.
Current(s) ==
    /\ IF ship = None THEN s \in Ship \ made ELSE s = ship
    /\ ship' = s
    /\ made' = made \cup {s}

-----------------------------------------------------------------------------
(* Record.                                                                   *)

\* The registry is consulted before Meter.mu is taken.
RecordLookup(e) ==
    /\ rpc[e] = "new"
    /\ rpc' = [rpc EXCEPT ![e] = IF registered THEN "known" ELSE "ignored"]
    /\ UNCHANGED <<registered, final, buf, shipVars, flushVars, shut, history>>

RecordClosed(e) ==
    /\ rpc[e] = "known"
    /\ shut # "open"
    /\ rpc' = [rpc EXCEPT ![e] = "ignored"]
    /\ UNCHANGED <<registered, final, buf, shipVars, flushVars, shut, history>>

RecordClosing(e) ==
    /\ rpc[e] = "known" /\ shut = "open"
    /\ \E s \in Ship : Current(s) /\ closing[s]
    /\ rpc' = [rpc EXCEPT ![e] = "ignored"]
    /\ UNCHANGED <<registered, final, buf, scheduled, closing, holder, canceller,
                   flushVars, shut, history>>

\* The event enters the buffer, pushing out the oldest of a full one; enough
\* events schedule a worker, unless one is scheduled.
RecordAppend(e) ==
    /\ rpc[e] = "known" /\ shut = "open"
    /\ rpc' = [rpc EXCEPT ![e] = "recorded"]
    /\ LET next == Append(buf, e)
       IN  /\ buf' = Kept(next)
           /\ lost' = lost \cup Overflow(next)
    /\ accepted' = Append(accepted, e)
    /\ \E s \in Ship :
          /\ Current(s)
          /\ ~closing[s]
          /\ IF Len(buf') >= Trigger /\ ~scheduled[s]
             THEN /\ scheduled' = [scheduled EXCEPT ![s] = TRUE]
                  /\ fpc' = [fpc EXCEPT ![s] = "begin"]
             ELSE UNCHANGED <<scheduled, fpc>>
    /\ UNCHANGED <<registered, final, closing, holder, canceller, fship, hand,
                   cancelled, shut, delivered>>

-----------------------------------------------------------------------------
(* flushHandle.                                                              *)

Nonfinal(f) == f # "final"
SendFrame == UNCHANGED <<registered, final, rpc, shut>>

FlushBegin(f) ==
    /\ fpc[f] = "begin"
    /\ \E s \in Ship : Current(s) /\ fship' = [fship EXCEPT ![f] = s]
    /\ fpc' = [fpc EXCEPT ![f] = "lock"]
    /\ SendFrame
    /\ UNCHANGED <<buf, scheduled, closing, holder, canceller, hand, cancelled, history>>

\* Mutant: sends are not serialised.
FlushBarges(f) ==
    /\ fpc[f] = "lock"
    /\ fpc' = [fpc EXCEPT ![f] = "take"]
    /\ SendFrame
    /\ UNCHANGED <<buf, shipVars, fship, hand, cancelled, history>>

\* s.sendMu.Lock().
FlushLock(f) ==
    /\ fpc[f] = "lock"
    /\ holder[fship[f]] = None
    /\ holder' = [holder EXCEPT ![fship[f]] = f]
    /\ fpc' = [fpc EXCEPT ![f] = "take"]
    /\ SendFrame
    /\ UNCHANGED <<buf, ship, made, scheduled, closing, canceller, fship, hand,
                   cancelled, history>>

\* Mutant: the closing test is inverted.
Early(f) == Nonfinal(f) /\ ~closing[fship[f]]

\* A flush that finds the session closing leaves its events to the final one.
Late(f) == Nonfinal(f) /\ closing[fship[f]]

\* Take the buffer and become the flush that s.cancel cancels.
FlushTake(f) ==
    /\ fpc[f] = "take"
    /\ IF Late(f)
       THEN /\ fpc' = [fpc EXCEPT ![f] = "unlock"]
            /\ UNCHANGED <<buf, hand, canceller, cancelled>>
       ELSE /\ hand' = [hand EXCEPT ![f] = buf]
            /\ buf' = <<>>
            /\ canceller' = [canceller EXCEPT ![fship[f]] = f]
            /\ cancelled' = [cancelled EXCEPT ![f] = FALSE]
            /\ fpc' = [fpc EXCEPT ![f] = IF buf = <<>> THEN "finish" ELSE "resolve"]
    /\ SendFrame
    /\ UNCHANGED <<ship, made, scheduled, closing, holder, fship, history>>

\* Mutant: new events go first.
RequeueAppends(events) == buf \o events

\* requeue: what comes back goes before what was recorded meanwhile.
Requeued(events) == events \o buf

Requeue(f) ==
    /\ buf' = Kept(Requeued(hand[f]))
    /\ lost' = lost \cup Overflow(Requeued(hand[f]))
    /\ hand' = [hand EXCEPT ![f] = <<>>]

\* The final flush has nowhere to put events back: they are logged and lost.
Abandon(f) ==
    /\ lost' = lost \cup Elems(hand[f])
    /\ hand' = [hand EXCEPT ![f] = <<>>]
    /\ UNCHANGED buf

\* The credential is looked up for every batch; the final flush falls back on
\* the departing session's, so it always has one.
FlushResolve(f) ==
    /\ fpc[f] = "resolve"
    /\ IF registered \/ f = "final"
       THEN /\ fpc' = [fpc EXCEPT ![f] = "send"]
            /\ UNCHANGED <<buf, hand, lost>>
       ELSE /\ Requeue(f)
            /\ fpc' = [fpc EXCEPT ![f] = "finish"]
    /\ SendFrame
    /\ UNCHANGED <<shipVars, fship, cancelled, accepted, delivered>>

\* The report is received and acknowledged.
FlushSent(f) ==
    /\ fpc[f] \in {"send", "send_again"}
    /\ delivered' = delivered \cup Elems(Sending(f))
    /\ hand' = [hand EXCEPT ![f] = Later(@, Len(Sending(f)))]
    /\ fpc' = [fpc EXCEPT ![f] = IF hand'[f] = <<>> THEN "finish" ELSE "resolve"]
    /\ SendFrame
    /\ UNCHANGED <<buf, shipVars, fship, cancelled, accepted, lost>>

\* Mutant: a failed report is thrown away.
GiveUp(f) ==
    /\ hand' = [hand EXCEPT ![f] = <<>>]
    /\ UNCHANGED <<buf, lost>>

\* What becomes of the events of a failed report.
Undelivered(f) == IF Nonfinal(f) THEN Requeue(f) ELSE Abandon(f)

\* The report fails - it may have been received all the same.  The final flush
\* tries once more unless its time is up.
FlushFailed(f) ==
    /\ fpc[f] \in {"send", "send_again"}
    /\ Failures \/ cancelled[f]
    /\ delivered' \in {delivered, delivered \cup Elems(Sending(f))}
    /\ \/ /\ f = "final" /\ fpc[f] = "send"
          /\ fpc' = [fpc EXCEPT ![f] = "send_again"]
          /\ UNCHANGED <<buf, hand, lost>>
       \/ /\ Undelivered(f)
          /\ fpc' = [fpc EXCEPT ![f] = "finish"]
    /\ SendFrame
    /\ UNCHANGED <<shipVars, fship, cancelled, accepted>>

\* s.cancel = nil, s.sendMu.Unlock().
FlushEnd(f) ==
    /\ fpc[f] \in {"finish", "unlock"}
    /\ canceller' = IF fpc[f] = "finish"
                    THEN [canceller EXCEPT ![fship[f]] = None] ELSE canceller
    /\ holder' = [holder EXCEPT ![fship[f]] = None]
    /\ fship' = [fship EXCEPT ![f] = None]
    /\ fpc' = [fpc EXCEPT ![f] = IF f \in Ship THEN "reset" ELSE "idle"]
    /\ SendFrame
    /\ UNCHANGED <<buf, ship, made, scheduled, closing, hand, cancelled, history>>

\* The worker allows the next one to be scheduled.
WorkerDone(f) ==
    /\ f \in Ship /\ fpc[f] = "reset"
    /\ scheduled' = [scheduled EXCEPT ![f] = FALSE]
    /\ fpc' = [fpc EXCEPT ![f] = "idle"]
    /\ SendFrame
    /\ UNCHANGED <<buf, ship, made, closing, holder, canceller, fship, hand,
                   cancelled, history>>

FlushStep(f) ==
    \/ FlushBegin(f) \/ FlushLock(f) \/ FlushTake(f) \/ FlushResolve(f)
    \/ FlushSent(f) \/ FlushFailed(f) \/ FlushEnd(f) \/ WorkerDone(f)

-----------------------------------------------------------------------------
(* The callers.                                                              *)

Call(f) == fpc' = [fpc EXCEPT ![f] = "begin"]

\* The ticker: flushAll finds the handle among the buffers.
LoopTick ==
    /\ fpc["loop"] = "idle"
    /\ shut \in {"open", "stopping"}
    /\ buf # <<>>
    /\ Call("loop")
    /\ UNCHANGED <<registered, final, buf, shipVars, rpc, fship, hand, cancelled,
                   shut, history>>

\* The registry's Take, by an unregister message or by the renewal loop.
Unregister ==
    /\ registered
    /\ registered' = FALSE
    /\ final' = "taken"
    /\ UNCHANGED <<buf, shipVars, rpc, flushVars, shut, history>>

\* FlushSessionFinal: refuse new events, cancel the report in flight ...
FinalBegin ==
    /\ final = "taken"
    /\ \E s \in Ship :
          /\ Current(s)
          /\ closing' = [closing EXCEPT ![s] = TRUE]
          /\ cancelled' = [f \in Flusher |-> cancelled[f] \/ canceller[s] = f]
    /\ final' = "flushing"
    /\ Call("final")
    /\ UNCHANGED <<registered, buf, scheduled, holder, canceller, rpc, fship, hand,
                   shut, history>>

\* ... and after its own flush forget the session; the KIT is revoked next.
FinalEnd ==
    /\ final = "flushing"
    /\ fpc["final"] = "idle"
    /\ final' = "done"
    /\ buf' = <<>>
    /\ ship' = None
    /\ UNCHANGED <<registered, made, scheduled, closing, holder, canceller, rpc,
                   flushVars, shut, history>>

\* Meter.Close: refuse new events, stop the ticker ...
Close ==
    /\ shut = "open"
    /\ shut' = "stopping"
    /\ UNCHANGED <<registered, final, buf, shipVars, rpc, flushVars, history>>

\* <-m.done; m.workers.Wait().
AllJoined == fpc["loop"] = "idle" /\ \A s \in Ship : fpc[s] = "idle"

\* ... join the ticker and the workers, and flush once more.
CloseFlush ==
    /\ shut = "stopping"
    /\ AllJoined
    /\ shut' = "flushing"
    /\ fpc' = [fpc EXCEPT !["close"] = IF buf = <<>> THEN "idle" ELSE "begin"]
    /\ UNCHANGED <<registered, final, buf, shipVars, rpc, fship, hand, cancelled, history>>

CloseEnd ==
    /\ shut = "flushing"
    /\ fpc["close"] = "idle"
    /\ shut' = "closed"
    /\ UNCHANGED <<registered, final, buf, shipVars, rpc, flushVars, history>>

RecordStep(e) ==
    RecordLookup(e) \/ RecordClosed(e) \/ RecordClosing(e) \/ RecordAppend(e)

Next ==
    \/ \E e \in Event : RecordStep(e)
    \/ \E f \in Flusher : FlushStep(f)
    \/ LoopTick
    \/ Unregister \/ FinalBegin \/ FinalEnd
    \/ Close \/ CloseFlush \/ CloseEnd

Spec == Init /\ [][Next]_vars

\* The ticker keeps ticking, its goroutine and the workers' keep running, and
\* of the reports the ticker's flush sends for ever one gets through some day.
FairSpec ==
    /\ Spec
    /\ WF_vars(LoopTick)
    /\ \A f \in Ship \cup {"loop"} : WF_vars(FlushStep(f))
    /\ SF_vars(FlushSent("loop"))

-----------------------------------------------------------------------------
(* Properties.                                                               *)

Place(e) == CHOOSE i \in DOMAIN accepted : accepted[i] = e
InHand == UNION {Elems(hand[f]) : f \in Flusher}

\* No event vanishes: whatever was accepted is buffered, in the hands of a
\* flush, received by the control plane, or was dropped with a count or a log
\* line - through failed reports, requeues, overflows, the final flush and
\* shutdown.
Accounted ==
    Elems(accepted) \subseteq Elems(buf) \cup InHand \cup delivered \cup lost

\* The events still to be reported: those a flush has taken, then the buffer.
Outstanding(taken, buffer) ==
    IF \E f \in Flusher : taken[f] # <<>>
    THEN taken[CHOOSE f \in Flusher : taken[f] # <<>>] \o buffer
    ELSE buffer

\* Reports are a queue whose events are received in the order they were
\* recorded, at least once, and done with once their report is acknowledged;
\* events are shed only when more than a buffer of them wait, and given up only
\* by the final flush of a session that is gone; two buffers are the most that
\* ever wait.
Reports == INSTANCE UsageQueue
    WITH Room <- MaxBuf, queue <- Outstanding(hand, buf),
         received <- delivered, dropped <- lost

QueueSpec == Reports!Spec

\* "Session unregister joins in-flight reports" (README.md:521): once the final
\* flush is over - and the KIT about to be revoked - no report is being sent,
\* and no two reports of a session were ever sent at once.
NothingSentAfterFinal ==
    LET senders == {f \in Flusher : fpc[f] \in {"send", "send_again"}}
    IN  /\ final = "done" => senders = {}
        /\ Cardinality(senders) <= 1

Waiting == {e \in Event : rpc[e] = "recorded"} \ (delivered \cup lost)

\* While the session stays registered and the meter open, no event waits for
\* ever: again and again every recorded event has been reported, or dropped
\* with a count.
EventsDrain == []<>(Waiting = {} \/ ~registered \/ shut # "open")

=============================================================================
