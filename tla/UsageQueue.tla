---------------------------- MODULE UsageQueue ----------------------------
(***************************************************************************)
(* What the meter promises of the usage events of one session: a queue that *)
(* the control plane receives from the front, at least once.  It sheds       *)
(* events only when it holds more than a buffer of them, it counts what it   *)
(* sheds, it never holds more than two buffers, and it gives events up only  *)
(* when their session is unregistered.                                       *)
(***************************************************************************)
EXTENDS Naturals, Sequences

CONSTANTS
    Event,
    Room    \* the size of a buffer

VARIABLES
    registered,
    queue,      \* events that are still to be reported, the oldest first
    received,   \* events the control plane has received
    dropped     \* events dropped with a count or a log line

vars == <<registered, queue, received, dropped>>

Elems(s) == {s[i] : i \in DOMAIN s}

\* t leaves out elements of s and keeps the others in order.
Thins(t, s) ==
    \E m \in [1 .. Len(t) -> 1 .. Len(s)] :
        /\ \A i \in 1 .. Len(t) : t[i] = s[m[i]]
        /\ \A i, j \in 1 .. Len(t) : i < j => m[i] < m[j]

Init == registered = TRUE /\ queue = <<>> /\ received = {} /\ dropped = {}

\* The queue becomes s without some events, none of them when they fit.
Shed(s) ==
    /\ Thins(queue', s)
    /\ Len(s) <= Room => queue' = s
    /\ Len(queue') <= 2 * Room
    /\ dropped' = dropped \cup (Elems(s) \ Elems(queue'))

Record(e) ==
    /\ e \notin Elems(queue) \cup received \cup dropped
    /\ Shed(Append(queue, e))
    /\ UNCHANGED <<registered, received>>

Receive(n) == received' = received \cup Elems(SubSeq(queue, 1, n))

\* A report is received and acknowledged: its events are done with.
Acknowledge(n) ==
    /\ Receive(n)
    /\ queue' = SubSeq(queue, n + 1, Len(queue))
    /\ UNCHANGED <<registered, dropped>>

\* A report fails, received or not: its events stay in their place.
Fail(n) ==
    /\ Receive(n)
    /\ Shed(queue)
    /\ UNCHANGED registered

\* The last report of a session that is gone fails.
Abandon(n) ==
    /\ ~registered
    /\ Receive(n)
    /\ queue' = <<>>
    /\ dropped' = dropped \cup Elems(queue)
    /\ UNCHANGED registered

Unregister == registered /\ registered' = FALSE /\ UNCHANGED <<queue, received, dropped>>

Next ==
    \/ \E e \in Event : Record(e)
    \/ \E n \in 0 .. Len(queue) : Acknowledge(n) \/ Fail(n) \/ Abandon(n)
    \/ Unregister

Spec == Init /\ [][Next]_vars

===========================================================================
