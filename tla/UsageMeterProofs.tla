-------------------------- MODULE UsageMeterProofs --------------------------
(***************************************************************************)
(* Proofs about the usage meter, for any number of events, ship objects and  *)
(* buffer sizes, whatever fails and however shutdown and the final flush     *)
(* interleave with the workers: no event vanishes, the meter is a queue that *)
(* keeps the order the events came in, and nothing is sent once the final    *)
(* flush is over.                                                            *)
(***************************************************************************)
EXTENDS UsageMeter, SequenceTheorems, FiniteSetTheorems, TLAPS

-----------------------------------------------------------------------------
(* The inductive invariant.                                                  *)

\* A flush inside s.sendMu, and one that has taken events.
Inside == {"take", "resolve", "send", "send_again", "finish", "unlock"}
Active == {"resolve", "send", "send_again"}
FlushStates == Inside \cup {"idle", "begin", "lock", "reset"}

MeterType ==
    /\ registered \in BOOLEAN
    /\ final \in {"no", "taken", "flushing", "done"}
    /\ ship \in Ship \cup {None} /\ made \subseteq Ship
    /\ scheduled \in [Ship -> BOOLEAN] /\ closing \in [Ship -> BOOLEAN]
    /\ holder \in [Ship -> Flusher \cup {None}]
    /\ canceller \in [Ship -> Flusher \cup {None}]
    /\ rpc \in [Event -> {"new", "known", "ignored", "recorded"}]
    /\ fpc \in [Flusher -> FlushStates]
    /\ fship \in [Flusher -> Ship \cup {None}]
    /\ cancelled \in [Flusher -> BOOLEAN]
    /\ shut \in {"open", "stopping", "flushing", "closed"}

DataType ==
    /\ buf \in Seq(Event) /\ hand \in [Flusher -> Seq(Event)]
    /\ accepted \in Seq(Event)
    /\ delivered \subseteq Event /\ lost \subseteq Event

\* A sessionShip that the handle no longer uses was closed for good.
ShipsKnown ==
    /\ ship # None => ship \in made
    /\ \A s \in made : s # ship => closing[s]

\* sendMu is held by the flush inside, which works for a ship of the handle.
Locked ==
    \A f \in Flusher :
        /\ fpc[f] \in Inside \cup {"lock"} => fship[f] \in made
        /\ fpc[f] \in Inside => holder[fship[f]] = f
        /\ fpc[f] \in Active => fship[f] = ship

\* A worker runs only while it is scheduled, Close flushes only in Close.
CallersOnce ==
    /\ \A s \in Ship : fpc[s] # "idle" => scheduled[s]
    /\ shut # "flushing" => fpc["close"] = "idle"

\* The final flush closes the ship, and takes over from all the others.
FinalTakesOver ==
    /\ registered => final = "no"
    /\ final # "flushing" => fpc["final"] = "idle"
    /\ fpc["final"] \in Inside \cup {"lock"} => fship["final"] = ship
    /\ final = "flushing" => ship # None /\ closing[ship]
    /\ final = "flushing" /\ fpc["final"] \notin {"begin", "lock"} =>
          \A f \in Flusher \ {"final"} : fpc[f] \notin Active
    /\ final = "done" => \A f \in Flusher : fpc[f] \notin {"send", "send_again"}

FlushInv == MeterType /\ ShipsKnown /\ Locked /\ CallersOnce /\ FinalTakesOver

\* The elements of s stand in the order of acc.
Earlier(a, b, acc) == \E i, j \in DOMAIN acc : i < j /\ acc[i] = a /\ acc[j] = b
Ordered(s, acc) == \A i, j \in DOMAIN s : i < j => Earlier(s[i], s[j], acc)

\* Only a flush that has taken events has some in hand, and the final flush
\* leaves nothing behind.
HandsEmpty ==
    /\ \A f \in Flusher : hand[f] # <<>> => fpc[f] \in Active
    /\ final = "flushing" /\ fpc["final"] \notin {"begin", "lock", "take"} => buf = <<>>

\* Every event is accepted once.
AcceptedOnce ==
    /\ \A e \in Elems(accepted) : rpc[e] = "recorded"
    /\ \A i, j \in DOMAIN accepted : accepted[i] = accepted[j] => i = j

InOrder ==
    \A f \in Flusher :
        /\ Ordered(hand[f] \o buf, accepted)
        /\ Elems(hand[f] \o buf) \subseteq Elems(accepted)

DataInv == DataType /\ HandsEmpty /\ AcceptedOnce /\ InOrder /\ Accounted

-----------------------------------------------------------------------------
(* Who may send.                                                             *)

USE DEF Inside, Active, FlushStates

LEMMA FlushInit == Init => FlushInv
BY ShipAssumption DEF Init, FlushInv, MeterType, ShipsKnown, Locked, CallersOnce, FinalTakesOver, Flusher

\* m.state(handle) leaves a ship of the handle in its place.
LEMMA CurrentShip ==
    ASSUME FlushInv, NEW s \in Ship, Current(s)
    PROVE  /\ ship' = s /\ made' = made \cup {s} /\ ship' \in made'
           /\ \A t \in made' : t # ship' => closing[t]
           /\ \A f \in Flusher : fpc[f] \in Active => fship[f] = ship'
           /\ ship # None => ship' = ship
BY ShipAssumption DEF FlushInv, MeterType, ShipsKnown, Locked, Current

\* A flush that has taken events moves on, inside the lock.
LEMMA ActiveMoves ==
    ASSUME FlushInv, NEW f \in Flusher, fpc[f] \in Active,
           NEW x \in Active \cup {"finish"}, fpc' = [fpc EXCEPT ![f] = x],
           x \in {"send", "send_again"} => final # "done",
           UNCHANGED <<shipVars, fship, rpc, registered, final, shut>>,
           cancelled' \in [Flusher -> BOOLEAN]
    PROVE  FlushInv'
<1> USE DEF FlushInv, shipVars
<1>1. MeterType' /\ ShipsKnown' /\ Locked'
  BY DEF MeterType, ShipsKnown, Locked
<1>2. CallersOnce'
  BY DEF MeterType, CallersOnce
<1>3. FinalTakesOver'
  BY DEF MeterType, FinalTakesOver, Flusher
<1> QED
  BY <1>1, <1>2, <1>3

LEMMA RecordKeepsFlush ==
    ASSUME FlushInv, NEW e \in Event, RecordStep(e) PROVE FlushInv'
<1> USE DEF FlushInv
<1>1. CASE RecordLookup(e) \/ RecordClosed(e)
  BY <1>1 DEF MeterType, ShipsKnown, Locked, CallersOnce, FinalTakesOver,
     RecordLookup, RecordClosed, shipVars, flushVars
<1>2. CASE RecordClosing(e)
  <2>1. PICK s \in Ship : Current(s) /\ closing[s]
    BY <1>2 DEF RecordClosing
  <2> QED
    BY <1>2, <2>1, CurrentShip, ShipAssumption DEF MeterType, ShipsKnown, Locked,
       CallersOnce, FinalTakesOver, RecordClosing, flushVars
<1>3. CASE RecordAppend(e)
  <2>1. PICK s \in Ship :
           /\ Current(s) /\ ~closing[s]
           /\ \/ UNCHANGED <<scheduled, fpc>>
              \/ /\ ~scheduled[s]
                 /\ scheduled' = [scheduled EXCEPT ![s] = TRUE]
                 /\ fpc' = [fpc EXCEPT ![s] = "begin"]
    BY <1>3 DEF RecordAppend
  <2>2. s \in Flusher /\ s \notin {"loop", "final", "close"}
    BY ShipAssumption DEF Flusher
  <2>3. final # "flushing"
    BY <2>1, CurrentShip DEF FinalTakesOver
  <2>4. /\ UNCHANGED <<registered, final, closing, holder, canceller, fship, cancelled, shut>>
        /\ rpc' = [rpc EXCEPT ![e] = "recorded"]
    BY <1>3 DEF RecordAppend
  <2>5. /\ ship' = s /\ made' = made \cup {s} /\ ship' \in made'
        /\ \A t \in made' : t # ship' => closing[t]
        /\ \A g \in Flusher : fpc[g] \in Active => fship[g] = ship'
        /\ ship # None => ship' = ship
    BY <2>1, CurrentShip
  <2>6. fpc'[s] \in {fpc[s], "begin"} /\ \A g \in Flusher \ {s} : fpc'[g] = fpc[g]
    BY <2>1, <2>2 DEF MeterType
  <2>7. MeterType' /\ ShipsKnown'
    BY <2>1, <2>2, <2>4, <2>5 DEF MeterType, ShipsKnown
  <2>8. Locked'
    BY <2>2, <2>4, <2>5, <2>6 DEF MeterType, Locked
  <2>9. CallersOnce'
    BY <2>1, <2>2, <2>4, ShipAssumption DEF MeterType, CallersOnce, Flusher
  <2>10. FinalTakesOver'
    BY <2>2, <2>3, <2>4, <2>6 DEF MeterType, FinalTakesOver, Flusher
  <2> QED
    BY <2>7, <2>8, <2>9, <2>10
<1> QED
  BY <1>1, <1>2, <1>3 DEF RecordStep

LEMMA FlushKeepsFlush ==
    ASSUME FlushInv, NEW f \in Flusher, FlushStep(f) PROVE FlushInv'
<1> USE ShipAssumption DEF FlushInv
<1>1. CASE FlushBegin(f)
  <2>1. PICK s \in Ship : Current(s) /\ fship' = [fship EXCEPT ![f] = s]
    BY <1>1 DEF FlushBegin
  <2>2. /\ fpc[f] = "begin" /\ fpc' = [fpc EXCEPT ![f] = "lock"]
        /\ UNCHANGED <<registered, final, rpc, shut, scheduled, closing, holder,
                       canceller, cancelled>>
    BY <1>1 DEF FlushBegin, SendFrame
  <2>3. /\ ship' = s /\ made' = made \cup {s} /\ ship' \in made'
        /\ \A t \in made' : t # ship' => closing[t]
        /\ \A g \in Flusher : fpc[g] \in Active => fship[g] = ship'
        /\ ship # None => ship' = ship
    BY <2>1, CurrentShip
  <2>4. MeterType' /\ ShipsKnown'
    BY <2>1, <2>2, <2>3 DEF MeterType, ShipsKnown
  <2>5. Locked'
    BY <2>1, <2>2, <2>3 DEF MeterType, Locked
  <2>6. CallersOnce'
    BY <2>2 DEF MeterType, CallersOnce
  <2>7. FinalTakesOver'
    <3>1. f # "final" /\ fpc["final"] \in Inside \cup {"lock"} =>
             final = "flushing" /\ ship' = ship /\ fship'["final"] = fship["final"]
      BY <2>1, <2>2, <2>3 DEF MeterType, FinalTakesOver, Flusher
    <3> QED
      BY <2>1, <2>2, <2>3, <3>1 DEF MeterType, FinalTakesOver, Flusher
  <2> QED
    BY <2>4, <2>5, <2>6, <2>7
<1>2. CASE FlushLock(f)
  BY <1>2 DEF MeterType, ShipsKnown, Locked, CallersOnce, FinalTakesOver, FlushLock,
     SendFrame, Flusher
<1>3. CASE FlushTake(f)
  <2>1. /\ fpc[f] = "take"
        /\ UNCHANGED <<registered, final, rpc, shut, ship, made, scheduled, closing,
                       holder, fship>>
    BY <1>3 DEF FlushTake, SendFrame
  <2>2. \/ /\ f # "final" /\ closing[fship[f]] /\ fpc' = [fpc EXCEPT ![f] = "unlock"]
           /\ UNCHANGED <<canceller, cancelled>>
        \/ /\ f = "final" \/ ~closing[fship[f]]
           /\ canceller' = [canceller EXCEPT ![fship[f]] = f]
           /\ cancelled' = [cancelled EXCEPT ![f] = FALSE]
           /\ \E x \in {"finish", "resolve"} : fpc' = [fpc EXCEPT ![f] = x]
    BY <1>3 DEF FlushTake, Late, Nonfinal
  <2>3. /\ fship[f] \in made /\ holder[fship[f]] = f
        /\ f = "final" \/ ~closing[fship[f]] => fship[f] = ship
    BY <2>1 DEF MeterType, ShipsKnown, Locked, FinalTakesOver
  <2>4. /\ MeterType'
        /\ ShipsKnown' /\ CallersOnce'
    <3>1. MeterType'
      <4>1. fpc' \in [Flusher -> FlushStates]
        BY <2>2 DEF MeterType
      <4>2. canceller' \in [Ship -> Flusher \cup {None}]
        BY <2>2 DEF MeterType
      <4>3. cancelled' \in [Flusher -> BOOLEAN]
        BY <2>2 DEF MeterType
      <4> QED
        BY <2>1, <4>1, <4>2, <4>3 DEF MeterType
    <3>2. ShipsKnown'
      BY <2>1 DEF ShipsKnown
    <3>3. CallersOnce'
      BY <2>1, <2>2 DEF MeterType, CallersOnce, Flusher
    <3> QED
      BY <3>1, <3>2, <3>3
  <2>5. Locked'
    BY <2>1, <2>2, <2>3 DEF MeterType, Locked
  <2>6. FinalTakesOver'
    <3>1. CASE f = "final"
      <4>1. \A g \in Flusher \ {"final"} : fpc[g] \notin Active
        BY <2>1, <3>1 DEF FinalTakesOver
      <4> QED
        BY <2>1, <2>2, <3>1, <4>1 DEF MeterType, FinalTakesOver, Flusher
    <3>2. CASE f # "final"
      <4>1. final = "flushing" => ship # None /\ closing[ship]
        BY DEF FinalTakesOver
      <4>2. final = "flushing" => fpc' = [fpc EXCEPT ![f] = "unlock"]
        BY <2>2, <2>3, <3>2, <4>1
      <4> QED
        BY <2>1, <2>2, <3>2, <4>1, <4>2 DEF MeterType, FinalTakesOver, Flusher
    <3> QED
      BY <3>1, <3>2
  <2> QED
    BY <2>4, <2>5, <2>6
<1>4. CASE FlushResolve(f)
  <2>1. PICK x \in {"send", "finish"} :
           /\ fpc' = [fpc EXCEPT ![f] = x]
           /\ x = "send" => registered \/ f = "final"
    BY <1>4 DEF FlushResolve
  <2>2. x = "send" => final # "done"
    BY <1>4, <2>1 DEF FlushResolve, FinalTakesOver
  <2> QED
    BY <1>4, <2>1, <2>2, ActiveMoves DEF FlushResolve, SendFrame, MeterType
<1>5. CASE FlushSent(f)
  <2>1. PICK x \in {"resolve", "finish"} : fpc' = [fpc EXCEPT ![f] = x]
    BY <1>5 DEF FlushSent
  <2> QED
    BY <1>5, <2>1, ActiveMoves DEF FlushSent, SendFrame, MeterType
<1>6. CASE FlushFailed(f)
  <2>1. PICK x \in {"send_again", "finish"} : fpc' = [fpc EXCEPT ![f] = x]
    BY <1>6 DEF FlushFailed
  <2>2. final # "done"
    BY <1>6 DEF FlushFailed, FinalTakesOver
  <2> QED
    BY <1>6, <2>1, <2>2, ActiveMoves DEF FlushFailed, SendFrame, MeterType
<1>7. CASE FlushEnd(f)
  BY <1>7 DEF MeterType, ShipsKnown, Locked, CallersOnce, FinalTakesOver, FlushEnd,
     SendFrame, Flusher
<1>8. CASE WorkerDone(f)
  BY <1>8 DEF MeterType, ShipsKnown, Locked, CallersOnce, FinalTakesOver, WorkerDone,
     SendFrame, Flusher
<1> QED
  BY <1>1, <1>2, <1>3, <1>4, <1>5, <1>6, <1>7, <1>8 DEF FlushStep

CallerStep ==
    LoopTick \/ Unregister \/ FinalBegin \/ FinalEnd \/ Close \/ CloseFlush \/ CloseEnd

LEMMA CallersKeepFlush == FlushInv /\ CallerStep => FlushInv'
<1> SUFFICES ASSUME FlushInv, CallerStep PROVE FlushInv'
  OBVIOUS
<1> USE ShipAssumption
   DEF FlushInv, MeterType, ShipsKnown, Locked, CallersOnce, FinalTakesOver, Flusher
<1>1. CASE LoopTick
  BY <1>1 DEF LoopTick, shipVars, flushVars, Call
<1>2. CASE Unregister
  BY <1>2 DEF Unregister, shipVars, flushVars, Call
<1>3. CASE FinalEnd
  BY <1>3 DEF FinalEnd, shipVars, flushVars, Call
<1>4. CASE Close
  BY <1>4 DEF Close, shipVars, flushVars, Call
<1>5. CASE CloseFlush
  BY <1>5 DEF CloseFlush, shipVars, flushVars, Call
<1>6. CASE CloseEnd
  BY <1>6 DEF CloseEnd, shipVars, flushVars, Call
<1>7. CASE FinalBegin
  BY <1>7, CurrentShip DEF FinalBegin, shipVars, flushVars, Call
<1> QED
  BY <1>1, <1>2, <1>3, <1>4, <1>5, <1>6, <1>7 DEF CallerStep

LEMMA FlushInductive == FlushInv /\ [Next]_vars => FlushInv'
<1> SUFFICES ASSUME FlushInv, [Next]_vars PROVE FlushInv'
  OBVIOUS
<1>1. CASE UNCHANGED vars
  BY <1>1 DEF FlushInv, MeterType, ShipsKnown, Locked, CallersOnce, FinalTakesOver,
     vars, shipVars, flushVars
<1> QED
  BY <1>1, RecordKeepsFlush, FlushKeepsFlush, CallersKeepFlush DEF Next, CallerStep

\* At most one flush has taken events at a time, whichever ship it works for.
LEMMA OneActive ==
    ASSUME FlushInv, NEW f \in Flusher, NEW g \in Flusher,
           fpc[f] \in Active, fpc[g] \in Active
    PROVE  f = g
BY DEF FlushInv, Locked

LEMMA NothingSent == FlushInv => NothingSentAfterFinal
<1> SUFFICES ASSUME FlushInv PROVE NothingSentAfterFinal
  OBVIOUS
<1> DEFINE senders == {f \in Flusher : fpc[f] \in {"send", "send_again"}}
<1>1. final = "done" => senders = {}
  BY DEF FlushInv, FinalTakesOver
<1>2. Cardinality(senders) <= 1
  <2>1. CASE senders = {}
    BY <2>1, FS_EmptySet
  <2>2. CASE senders # {}
    <3>1. PICK f : senders = {f}
      BY <2>2, OneActive
    <3>2. Cardinality({f}) = 1
      BY FS_Singleton
    <3> QED
      BY <3>1, <3>2
  <2> QED
    BY <2>1, <2>2
<1> QED
  BY <1>1, <1>2 DEF NothingSentAfterFinal

\* Unregistering joins the reports in flight (README.md:521): once the final
\* flush is over no report of the session is being sent, and two reports are
\* never sent at once, whatever the workers, the ticker and Close are doing and
\* though a late event may have given the handle a second sessionShip.
THEOREM FinalJoinsReports == Spec => []NothingSentAfterFinal
BY FlushInit, FlushInductive, NothingSent, PTL DEF Spec

-----------------------------------------------------------------------------
(* Sequences of events.                                                      *)

LEMMA ThinnedOrdered ==
    ASSUME NEW s \in Seq(Event), NEW t \in Seq(Event), Reports!Thins(t, s), NEW acc
    PROVE  /\ Ordered(s, acc) => Ordered(t, acc)
           /\ Elems(t) \subseteq Elems(s)
<1>1. PICK m \in [1 .. Len(t) -> 1 .. Len(s)] :
         /\ \A i \in 1 .. Len(t) : t[i] = s[m[i]]
         /\ \A i, j \in 1 .. Len(t) : i < j => m[i] < m[j]
  BY DEF Reports!Thins
<1>2. DOMAIN t = 1 .. Len(t) /\ DOMAIN s = 1 .. Len(s)
  OBVIOUS
<1> QED
  BY <1>1, <1>2 DEF Ordered, Elems

\* What follows the first n elements.
LEMMA LaterFacts ==
    ASSUME NEW s \in Seq(Event), NEW n \in 0 .. Len(s)
    PROVE  /\ Later(s, n) \in Seq(Event) /\ Len(Later(s, n)) = Len(s) - n
           /\ \A i \in 1 .. Len(s) - n : Later(s, n)[i] = s[n + i]
<1>1. Len(s) \in Nat /\ \A i \in n + 1 .. Len(s) : s[i] \in Event
  BY ElementOfSeq
<1>2. n \in Int /\ n + 1 \in Int /\ Len(s) \in Int
  BY <1>1
<1>3. /\ Later(s, n) \in Seq(Event)
      /\ Len(Later(s, n)) = IF n + 1 <= Len(s) THEN Len(s) - (n + 1) + 1 ELSE 0
      /\ \A i \in 1 .. Len(s) - (n + 1) + 1 : Later(s, n)[i] = s[n + 1 + i - 1]
  BY <1>1, <1>2, SubSeqProperties DEF Later
<1> QED
  BY <1>1, <1>2, <1>3

\* Dropping from the middle: what follows h loses its first elements.
LEMMA ThinsLater ==
    ASSUME NEW h \in Seq(Event), NEW s \in Seq(Event), NEW n \in 0 .. Len(s)
    PROVE  Reports!Thins(h \o Later(s, n), h \o s)
<1> DEFINE m == [i \in 1 .. Len(h) + (Len(s) - n) |-> IF i <= Len(h) THEN i ELSE i + n]
<1>1. /\ Later(s, n) \in Seq(Event) /\ Len(Later(s, n)) = Len(s) - n
      /\ \A i \in 1 .. Len(s) - n : Later(s, n)[i] = s[n + i]
  BY LaterFacts
<1>2. Len(h) \in Nat /\ Len(s) \in Nat /\ Len(s) - n \in Nat /\ n \in Nat
  OBVIOUS
<1>3. /\ Len(h \o Later(s, n)) = Len(h) + (Len(s) - n)
      /\ \A i \in 1 .. Len(h) + (Len(s) - n) :
            (h \o Later(s, n))[i] = IF i <= Len(h) THEN h[i] ELSE Later(s, n)[i - Len(h)]
  <2>1. /\ Len(h \o Later(s, n)) = Len(h) + Len(Later(s, n))
        /\ \A i \in 1 .. Len(h) + Len(Later(s, n)) :
              (h \o Later(s, n))[i] = IF i <= Len(h) THEN h[i] ELSE Later(s, n)[i - Len(h)]
    BY <1>1, ConcatProperties, Zenon
  <2> QED
    BY <1>1, <2>1, Zenon
<1>4. /\ Len(h \o s) = Len(h) + Len(s)
      /\ \A i \in 1 .. Len(h) + Len(s) :
            (h \o s)[i] = IF i <= Len(h) THEN h[i] ELSE s[i - Len(h)]
  BY ConcatProperties
<1>5. m \in [1 .. Len(h) + (Len(s) - n) -> 1 .. Len(h) + Len(s)]
  BY <1>2
<1>6. \A i, j \in 1 .. Len(h) + (Len(s) - n) : i < j => m[i] < m[j]
  BY <1>2
<1>7. ASSUME NEW i \in 1 .. Len(h) + (Len(s) - n)
      PROVE  (h \o Later(s, n))[i] = (h \o s)[m[i]]
  <2>1. CASE i <= Len(h)
    BY <1>2, <1>3, <1>4, <2>1
  <2>2. CASE ~(i <= Len(h))
    <3>1. i - Len(h) \in 1 .. Len(s) - n /\ m[i] = i + n /\ i + n \in 1 .. Len(h) + Len(s)
          /\ ~(i + n <= Len(h)) /\ i + n - Len(h) = n + (i - Len(h))
      BY <1>2, <2>2
    <3>2. (h \o s)[m[i]] = s[n + (i - Len(h))]
      BY <1>4, <3>1
    <3>3. (h \o Later(s, n))[i] = s[n + (i - Len(h))]
      BY <1>1, <1>3, <2>2, <3>1
    <3> QED
      BY <3>2, <3>3
  <2> QED
    BY <2>1, <2>2
<1> QED
  BY <1>3, <1>4, <1>5, <1>6, <1>7 DEF Reports!Thins

\* Either part of a concatenation, and one whose first part loses elements.
LEMMA ThinsParts ==
    ASSUME NEW h \in Seq(Event), NEW b \in Seq(Event), NEW n \in 0 .. Len(h)
    PROVE  /\ Reports!Thins(h, h \o b) /\ Reports!Thins(b, h \o b)
           /\ Reports!Thins(Later(h, n) \o b, h \o b)
<1>1. Len(h) \in Nat /\ Len(b) \in Nat /\ n \in Nat /\ Len(h) - n \in Nat
  OBVIOUS
<1>2. /\ Len(h \o b) = Len(h) + Len(b)
      /\ \A i \in 1 .. Len(h) + Len(b) :
            (h \o b)[i] = IF i <= Len(h) THEN h[i] ELSE b[i - Len(h)]
  BY ConcatProperties
<1>3. Reports!Thins(h, h \o b)
  <2> DEFINE m == [i \in 1 .. Len(h) |-> i]
  <2>1. m \in [1 .. Len(h) -> 1 .. Len(h) + Len(b)]
    BY <1>1
  <2>2. \A i \in 1 .. Len(h) : h[i] = (h \o b)[m[i]]
    BY <1>1, <1>2
  <2>3. \A i, j \in 1 .. Len(h) : i < j => m[i] < m[j]
    OBVIOUS
  <2> QED
    BY <1>2, <2>1, <2>2, <2>3 DEF Reports!Thins
<1>4. Reports!Thins(b, h \o b)
  <2> DEFINE m == [i \in 1 .. Len(b) |-> i + Len(h)]
  <2>1. m \in [1 .. Len(b) -> 1 .. Len(h) + Len(b)]
    BY <1>1
  <2>2. \A i \in 1 .. Len(b) : b[i] = (h \o b)[m[i]]
    BY <1>1, <1>2
  <2>3. \A i, j \in 1 .. Len(b) : i < j => m[i] < m[j]
    BY <1>1
  <2> QED
    BY <1>2, <2>1, <2>2, <2>3 DEF Reports!Thins
<1>5. Reports!Thins(Later(h, n) \o b, h \o b)
  <2> DEFINE m == [i \in 1 .. Len(h) - n + Len(b) |-> i + n]
  <2>1. /\ Later(h, n) \in Seq(Event) /\ Len(Later(h, n)) = Len(h) - n
        /\ \A i \in 1 .. Len(h) - n : Later(h, n)[i] = h[n + i]
    BY LaterFacts
  <2>2. /\ Len(Later(h, n) \o b) = Len(h) - n + Len(b)
        /\ \A i \in 1 .. Len(h) - n + Len(b) :
              (Later(h, n) \o b)[i] =
                  IF i <= Len(h) - n THEN Later(h, n)[i] ELSE b[i - (Len(h) - n)]
    BY <2>1, ConcatProperties
  <2>3. m \in [1 .. Len(h) - n + Len(b) -> 1 .. Len(h) + Len(b)]
    BY <1>1
  <2>4. \A i, j \in 1 .. Len(h) - n + Len(b) : i < j => m[i] < m[j]
    BY <1>1
  <2>5. ASSUME NEW i \in 1 .. Len(h) - n + Len(b)
        PROVE  (Later(h, n) \o b)[i] = (h \o b)[m[i]]
    <3>1. m[i] = n + i /\ n + i \in 1 .. Len(h) + Len(b)
      BY <1>1
    <3>2. CASE i <= Len(h) - n
      <4>1. i \in 1 .. Len(h) - n /\ n + i <= Len(h)
        BY <1>1, <3>2
      <4> QED
        BY <1>2, <2>1, <2>2, <3>1, <4>1
    <3>3. CASE ~(i <= Len(h) - n)
      <4>1. ~(n + i <= Len(h)) /\ i - (Len(h) - n) = n + i - Len(h)
        BY <1>1, <3>3
      <4> QED
        BY <1>2, <2>2, <3>1, <3>3, <4>1
    <3> QED
      BY <3>2, <3>3
  <2> QED
    BY <1>2, <2>2, <2>3, <2>4, <2>5 DEF Reports!Thins
<1> QED
  BY <1>3, <1>4, <1>5

LEMMA ElemsConcat ==
    ASSUME NEW s \in Seq(Event), NEW t \in Seq(Event)
    PROVE  Elems(s \o t) = Elems(s) \cup Elems(t)
<1>1. /\ DOMAIN s = 1 .. Len(s) /\ DOMAIN t = 1 .. Len(t)
      /\ DOMAIN (s \o t) = 1 .. Len(s) + Len(t)
      /\ Len(s) \in Nat /\ Len(t) \in Nat
  BY ConcatProperties
<1>2. \A i \in 1 .. Len(s) + Len(t) :
         (s \o t)[i] = IF i <= Len(s) THEN s[i] ELSE t[i - Len(s)]
  BY ConcatProperties
<1>3. ASSUME NEW i \in 1 .. Len(s) + Len(t) PROVE (s \o t)[i] \in Elems(s) \cup Elems(t)
  BY <1>1, <1>2 DEF Elems
<1>4. ASSUME NEW i \in 1 .. Len(s) PROVE s[i] \in Elems(s \o t)
  BY <1>1, <1>2 DEF Elems
<1>5. ASSUME NEW i \in 1 .. Len(t) PROVE t[i] \in Elems(s \o t)
  <2>1. i + Len(s) \in 1 .. Len(s) + Len(t) /\ (s \o t)[i + Len(s)] = t[i]
    BY <1>1, <1>2
  <2> QED
    BY <1>1, <2>1 DEF Elems
<1> QED
  BY <1>1, <1>3, <1>4, <1>5 DEF Elems

\* The newest maxBufferedPerSession events: what is kept is what follows some
\* of the oldest, and what is not kept is counted as lost.
LEMMA KeptFacts ==
    ASSUME NEW s \in Seq(Event)
    PROVE  /\ \E n \in 0 .. Len(s) : Kept(s) = Later(s, n)
           /\ Kept(s) \in Seq(Event)
           /\ Elems(s) = Elems(Kept(s)) \cup Overflow(s)
           /\ Overflow(s) \subseteq Event
<1>1. Len(s) \in Nat /\ MaxBuf \in Nat /\ MaxBuf > 0
  BY BoundAssumption
<1>2. PICK n \in 0 .. Len(s) : Kept(s) = Later(s, n)
  <2>1. CASE Len(s) > MaxBuf
    <3>1. Len(s) - MaxBuf \in 0 .. Len(s) /\ Kept(s) = Later(s, Len(s) - MaxBuf)
      BY <1>1, <2>1 DEF Kept, Later
    <3> QED
      BY <3>1
  <2>2. CASE ~(Len(s) > MaxBuf)
    <3>1. Later(s, 0) = s
      BY SubSeqFull DEF Later
    <3> QED
      BY <1>1, <2>2, <3>1 DEF Kept
  <2> QED
    BY <2>1, <2>2
<1>3. /\ Kept(s) \in Seq(Event) /\ Len(Kept(s)) = Len(s) - n
      /\ \A i \in 1 .. Len(s) - n : Kept(s)[i] = s[n + i]
  BY <1>2, LaterFacts
<1>4. Elems(Kept(s)) \subseteq Elems(s)
  <2>1. DOMAIN s = 1 .. Len(s) /\ DOMAIN Kept(s) = 1 .. Len(s) - n
    BY <1>3
  <2>2. ASSUME NEW i \in 1 .. Len(s) - n PROVE n + i \in 1 .. Len(s) /\ Kept(s)[i] = s[n + i]
    BY <1>1, <1>3
  <2> QED
    BY <2>1, <2>2 DEF Elems
<1>5. Elems(s) \subseteq Event
  BY ElementOfSeq DEF Elems
<1> QED
  BY <1>2, <1>3, <1>4, <1>5 DEF Overflow

\* A report and what stays in hand are what was in hand.
LEMMA SendingFacts ==
    ASSUME NEW f \in Flusher, hand[f] \in Seq(Event)
    PROVE  /\ Len(Sending(f)) \in 0 .. Len(hand[f])
           /\ Elems(Sending(f)) \subseteq Event
           /\ Elems(hand[f]) = Elems(Sending(f)) \cup Elems(Later(hand[f], Len(Sending(f))))
<1> DEFINE h == hand[f]
           k == IF Len(h) < Batch THEN Len(h) ELSE Batch
<1>1. Len(h) \in Nat /\ Batch \in Nat /\ k \in 0 .. Len(h)
  BY BoundAssumption
<1> HIDE DEF k
<1>2. \A i \in 1 .. k : h[i] \in Event
  BY <1>1, ElementOfSeq
<1>3. /\ Sending(f) \in Seq(Event) /\ Len(Sending(f)) = k
      /\ \A i \in 1 .. k : Sending(f)[i] = h[i]
  <2>1. 1 \in Int /\ k \in Int
    BY <1>1
  <2>2. /\ SubSeq(h, 1, k) \in Seq(Event)
        /\ Len(SubSeq(h, 1, k)) = IF 1 <= k THEN k - 1 + 1 ELSE 0
        /\ \A i \in 1 .. k - 1 + 1 : SubSeq(h, 1, k)[i] = h[1 + i - 1]
    BY <1>2, <2>1, SubSeqProperties
  <2>3. Sending(f) = SubSeq(h, 1, k)
    BY DEF Sending, k
  <2> QED
    BY <1>1, <2>2, <2>3
<1>4. /\ Later(h, k) \in Seq(Event) /\ Len(Later(h, k)) = Len(h) - k
      /\ \A i \in 1 .. Len(h) - k : Later(h, k)[i] = h[k + i]
  BY <1>1, LaterFacts
<1>5. /\ DOMAIN h = 1 .. Len(h) /\ DOMAIN Sending(f) = 1 .. k
      /\ DOMAIN Later(h, k) = 1 .. Len(h) - k
  BY <1>3, <1>4
<1>6. ASSUME NEW i \in 1 .. Len(h)
      PROVE  h[i] \in Elems(Sending(f)) \cup Elems(Later(h, k))
  <2>1. CASE i <= k
    BY <1>1, <1>3, <1>5, <2>1 DEF Elems
  <2>2. CASE ~(i <= k)
    <3>1. i - k \in 1 .. Len(h) - k /\ k + (i - k) = i
      BY <1>1, <2>2
    <3> QED
      BY <1>4, <1>5, <3>1 DEF Elems
  <2> QED
    BY <2>1, <2>2
<1>7. Elems(Sending(f)) \subseteq Elems(h) /\ Elems(Sending(f)) \subseteq Event
  BY <1>1, <1>2, <1>3, <1>5 DEF Elems
<1>8. ASSUME NEW i \in 1 .. Len(h) - k PROVE Later(h, k)[i] \in Elems(h)
  <2>1. k + i \in 1 .. Len(h)
    BY <1>1
  <2> QED
    BY <1>4, <1>5, <2>1 DEF Elems
<1>9. Elems(h) = Elems(Sending(f)) \cup Elems(Later(h, k))
  BY <1>5, <1>6, <1>7, <1>8 DEF Elems
<1> QED
  BY <1>1, <1>3, <1>7, <1>9

-----------------------------------------------------------------------------
(* Where the events are.                                                     *)

LEMMA DataInit == Init => DataInv
<1> SUFFICES ASSUME Init PROVE DataInv
  OBVIOUS
<1>1. /\ buf = <<>> /\ accepted = <<>> /\ delivered = {} /\ lost = {}
      /\ hand = [f \in Flusher |-> <<>>] /\ final = "no"
  BY DEF Init
<1>2. <<>> \in Seq(Event) /\ DOMAIN <<>> = {}
  BY EmptySeq
<1>3. \A f \in Flusher : hand[f] \o buf = <<>>
  BY <1>1, <1>2, ConcatEmptySeq
<1>4. DataType
  BY <1>1, <1>2 DEF DataType
<1>5. HandsEmpty /\ AcceptedOnce /\ Accounted
  BY <1>1, <1>2 DEF HandsEmpty, AcceptedOnce, Accounted, Elems
<1>6. InOrder
  BY <1>2, <1>3 DEF InOrder, Ordered, Elems
<1> QED
  BY <1>4, <1>5, <1>6 DEF DataInv

LEMMA ThinsSelf == ASSUME NEW s \in Seq(Event) PROVE Reports!Thins(s, s)
<1> DEFINE m == [i \in 1 .. Len(s) |-> i]
<1>1. m \in [1 .. Len(s) -> 1 .. Len(s)]
  OBVIOUS
<1> QED
  BY <1>1 DEF Reports!Thins

\* A step that accepts no event: those in hand and in the buffer are still in
\* order when each pending sequence only thins an earlier one, and accounted
\* for when none of them is dropped.
LEMMA DataStep ==
    ASSUME DataInv, DataType', HandsEmpty', accepted' = accepted,
           \A e \in Event : rpc[e] = "recorded" => rpc'[e] = "recorded",
           \A g \in Flusher : \E k \in Flusher : Reports!Thins(hand'[g] \o buf', hand[k] \o buf),
           Elems(buf) \cup InHand \cup delivered \cup lost \subseteq
              Elems(buf') \cup InHand' \cup delivered' \cup lost'
    PROVE  DataInv'
<1>1. AcceptedOnce'
  <2>1. Elems(accepted) \subseteq Event
    BY ElementOfSeq DEF DataInv, DataType, Elems
  <2> QED
    BY <2>1 DEF DataInv, AcceptedOnce, Elems
<1>2. InOrder'
  <2>1. ASSUME NEW g \in Flusher
        PROVE  /\ Ordered(hand'[g] \o buf', accepted)
               /\ Elems(hand'[g] \o buf') \subseteq Elems(accepted)
    <3>1. PICK k \in Flusher : Reports!Thins(hand'[g] \o buf', hand[k] \o buf)
      OBVIOUS
    <3>2. hand'[g] \o buf' \in Seq(Event) /\ hand[k] \o buf \in Seq(Event)
      BY ConcatProperties DEF DataInv, DataType
    <3>3. Ordered(hand[k] \o buf, accepted) /\ Elems(hand[k] \o buf) \subseteq Elems(accepted)
      BY DEF DataInv, InOrder
    <3> QED
      BY <3>1, <3>2, <3>3, ThinnedOrdered
  <2>2. ASSUME NEW g \in Flusher PROVE Ordered(hand[g] \o buf, accepted)'
    BY <2>1 DEF Ordered, Earlier
  <2> QED
    BY <2>1, <2>2 DEF InOrder
<1>3. Accounted'
  BY DEF DataInv, Accounted
<1> QED
  BY <1>1, <1>2, <1>3 DEF DataInv

\* Steps that leave the events where they are.
LEMMA DataFrame ==
    ASSUME DataInv, UNCHANGED <<buf, hand, history>>,
           \A e \in Event : rpc[e] = "recorded" => rpc'[e] = "recorded",
           \A f \in Flusher : hand[f] # <<>> => fpc'[f] \in Active,
           final' = "flushing" /\ fpc'["final"] \notin {"begin", "lock", "take"} => buf = <<>>
    PROVE  DataInv'
<1> USE DEF history
<1>1. DataType' /\ HandsEmpty' /\ InHand' = InHand
  BY DEF DataInv, DataType, HandsEmpty, InHand
<1>2. ASSUME NEW g \in Flusher PROVE Reports!Thins(hand'[g] \o buf', hand[g] \o buf)
  <2>1. hand[g] \o buf \in Seq(Event)
    BY ConcatProperties DEF DataInv, DataType
  <2> QED
    BY <2>1, ThinsSelf
<1> QED
  BY <1>1, <1>2, DataStep

LEMMA TakeKeepsData ==
    ASSUME FlushInv, DataInv, NEW f \in Flusher, FlushTake(f) PROVE DataInv'
<1> USE DEF SendFrame, history
<1>1. /\ fpc[f] = "take" /\ hand[f] = <<>>
      /\ buf \in Seq(Event) /\ hand \in [Flusher -> Seq(Event)] /\ fpc \in [Flusher -> FlushStates]
      /\ UNCHANGED <<rpc, final, accepted, delivered, lost>>
  BY DEF FlushTake, DataInv, DataType, HandsEmpty, FlushInv, MeterType
<1>2. CASE Late(f)
  <2>1. UNCHANGED <<buf, hand>> /\ fpc' = [fpc EXCEPT ![f] = "unlock"] /\ f # "final"
    BY <1>2 DEF FlushTake, Late, Nonfinal
  <2> QED
    BY <1>1, <2>1, DataFrame DEF DataInv, HandsEmpty, Flusher
<1>3. CASE ~Late(f)
  <2>1. /\ hand' = [hand EXCEPT ![f] = buf] /\ buf' = <<>>
        /\ fpc' = [fpc EXCEPT ![f] = IF buf = <<>> THEN "finish" ELSE "resolve"]
    BY <1>3 DEF FlushTake
  <2>2. DataType'
    BY <1>1, <2>1, EmptySeq DEF DataInv, DataType
  <2>3. HandsEmpty'
    BY <1>1, <2>1 DEF DataInv, HandsEmpty
  <2>4. ASSUME NEW g \in Flusher PROVE Reports!Thins(hand'[g] \o buf', hand[g] \o buf)
    <3>1. CASE g = f
      <4>1. hand'[g] \o buf' = buf
        BY <1>1, <2>1, <3>1, ConcatEmptySeq
      <4>2. 0 \in 0 .. Len(hand[g])
        BY <1>1
      <4> QED
        BY <1>1, <4>1, <4>2, ThinsParts
    <3>2. CASE g # f
      <4>1. hand'[g] \o buf' = hand[g]
        BY <1>1, <2>1, <3>2, ConcatEmptySeq
      <4>2. 0 \in 0 .. Len(hand[g])
        BY <1>1
      <4> QED
        BY <1>1, <4>1, <4>2, ThinsParts
    <3> QED
      BY <3>1, <3>2
  <2>5. Elems(buf) \cup InHand \subseteq InHand'
    <3>1. Elems(hand[f]) = {}
      BY <1>1, EmptySeq DEF Elems
    <3> QED
      BY <1>1, <2>1, <3>1 DEF InHand
  <2> QED
    BY <1>1, <2>2, <2>3, <2>4, <2>5, DataStep
<1> QED
  BY <1>2, <1>3

\* While a flush has taken events, all that are pending are its own.
LEMMA OthersEmpty ==
    ASSUME FlushInv, DataInv, NEW f \in Flusher, fpc[f] \in Active
    PROVE  /\ \A g \in Flusher \ {f} : hand[g] = <<>>
           /\ InHand = Elems(hand[f])
           /\ buf \in Seq(Event) /\ hand \in [Flusher -> Seq(Event)]
           /\ fpc \in [Flusher -> FlushStates] /\ delivered \subseteq Event /\ lost \subseteq Event
<1>1. \A g \in Flusher \ {f} : hand[g] = <<>>
  BY OneActive DEF DataInv, HandsEmpty
<1>2. Elems(<<>>) = {}
  BY EmptySeq DEF Elems
<1> QED
  BY <1>1, <1>2 DEF InHand, DataInv, DataType, FlushInv, MeterType

\* The events come back, before those recorded meanwhile.
LEMMA RequeueKeepsData ==
    ASSUME FlushInv, DataInv, NEW f \in Flusher, fpc[f] \in Active, f # "final",
           Requeue(f), fpc' = [fpc EXCEPT ![f] = "finish"],
           UNCHANGED <<rpc, final, accepted>>,
           delivered \subseteq delivered', delivered' \subseteq Event
    PROVE  DataInv'
<1> DEFINE all == hand[f] \o buf
<1>1. /\ buf \in Seq(Event) /\ hand \in [Flusher -> Seq(Event)] /\ fpc \in [Flusher -> FlushStates]
      /\ \A g \in Flusher \ {f} : hand[g] = <<>>
      /\ InHand = Elems(hand[f]) /\ lost \subseteq Event
  BY OthersEmpty
<1>2. /\ all \in Seq(Event) /\ Elems(all) = Elems(hand[f]) \cup Elems(buf)
  BY <1>1, ConcatProperties, ElemsConcat
<1>3. /\ buf' = Kept(all) /\ lost' = lost \cup Overflow(all)
      /\ hand' = [hand EXCEPT ![f] = <<>>]
  BY DEF Requeue, Requeued
<1> HIDE DEF all
<1>4. /\ Kept(all) \in Seq(Event) /\ Elems(all) = Elems(Kept(all)) \cup Overflow(all)
      /\ Overflow(all) \subseteq Event
      /\ \E n \in 0 .. Len(all) : Kept(all) = Later(all, n)
  BY <1>2, KeptFacts
<1>5. DataType'
  BY <1>1, <1>3, <1>4, EmptySeq DEF DataInv, DataType
<1>6. HandsEmpty'
  <2>1. "final" \in Flusher /\ fpc'["final"] = fpc["final"]
    BY <1>1 DEF Flusher
  <2>2. ~(final = "flushing" /\ fpc["final"] \notin {"begin", "lock"})
    BY DEF FlushInv, FinalTakesOver
  <2>3. \A g \in Flusher : hand'[g] = <<>>
    BY <1>1, <1>3
  <2> QED
    BY <2>1, <2>2, <2>3 DEF HandsEmpty
<1>7. ASSUME NEW g \in Flusher PROVE Reports!Thins(hand'[g] \o buf', hand[f] \o buf)
  <2>1. <<>> \in Seq(Event)
    BY EmptySeq
  <2>2. hand'[g] = <<>>
    BY <1>1, <1>3
  <2>3. PICK n \in 0 .. Len(all) : buf' = Later(all, n)
    BY <1>3, <1>4
  <2>4. Reports!Thins(<<>> \o Later(all, n), <<>> \o all)
    BY <1>2, <2>1, ThinsLater
  <2>5. <<>> \o all = all
    BY <1>2, ConcatEmptySeq
  <2> QED
    BY <2>2, <2>3, <2>4, <2>5 DEF all
<1>8. Elems(buf) \cup InHand \cup delivered \cup lost \subseteq
         Elems(buf') \cup InHand' \cup delivered' \cup lost'
  BY <1>1, <1>2, <1>3, <1>4
<1> QED
  BY <1>5, <1>6, <1>7, <1>8, DataStep

\* The first report of what is in hand is received, or known to be lost.
LEMMA LeavingKeepsData ==
    ASSUME FlushInv, DataInv, NEW f \in Flusher, fpc[f] \in Active,
           NEW n \in 0 .. Len(hand[f]), hand' = [hand EXCEPT ![f] = Later(@, n)],
           NEW x \in Active \cup {"finish"}, fpc' = [fpc EXCEPT ![f] = x],
           x = "finish" => hand'[f] = <<>>,
           UNCHANGED <<rpc, final, accepted, buf>>,
           delivered \subseteq delivered', delivered' \subseteq Event,
           lost \subseteq lost', lost' \subseteq Event,
           Elems(hand[f]) \subseteq Elems(hand'[f]) \cup delivered' \cup lost'
    PROVE  DataInv'
<1>1. /\ buf \in Seq(Event) /\ hand \in [Flusher -> Seq(Event)] /\ fpc \in [Flusher -> FlushStates]
      /\ \A g \in Flusher \ {f} : hand[g] = <<>>
      /\ InHand = Elems(hand[f])
  BY OthersEmpty
<1>2. Later(hand[f], n) \in Seq(Event)
  BY <1>1, LaterFacts
<1>3. DataType'
  BY <1>1, <1>2 DEF DataInv, DataType
<1>4. HandsEmpty'
  BY <1>1 DEF DataInv, HandsEmpty, Flusher
<1>5. ASSUME NEW g \in Flusher PROVE Reports!Thins(hand'[g] \o buf', hand[g] \o buf)
  <2>1. CASE g = f
    BY <1>1, <2>1, ThinsParts
  <2>2. CASE g # f
    <3>1. hand'[g] \o buf' = hand[g] \o buf /\ hand[g] \o buf \in Seq(Event)
      BY <1>1, <2>2, ConcatProperties
    <3> QED
      BY <3>1, ThinsSelf
  <2> QED
    BY <2>1, <2>2
<1>6. Elems(buf) \cup InHand \cup delivered \cup lost \subseteq
         Elems(buf') \cup InHand' \cup delivered' \cup lost'
  BY <1>1 DEF InHand
<1> QED
  BY <1>3, <1>4, <1>5, <1>6, DataStep

LEMMA AppendElems ==
    ASSUME NEW s \in Seq(Event), NEW e \in Event
    PROVE  /\ Append(s, e) \in Seq(Event) /\ Elems(Append(s, e)) = Elems(s) \cup {e}
           /\ DOMAIN s = 1 .. Len(s) /\ DOMAIN Append(s, e) = 1 .. Len(s) + 1
           /\ Len(s) \in Nat
           /\ \A i \in 1 .. Len(s) : Append(s, e)[i] = s[i]
           /\ Append(s, e)[Len(s) + 1] = e
<1>1. /\ Append(s, e) \in Seq(Event) /\ DOMAIN s = 1 .. Len(s) /\ Len(s) \in Nat
      /\ DOMAIN Append(s, e) = 1 .. Len(s) + 1
      /\ \A i \in 1 .. Len(s) : Append(s, e)[i] = s[i]
      /\ Append(s, e)[Len(s) + 1] = e
  BY AppendProperties
<1>2. \A i \in 1 .. Len(s) + 1 : i \in 1 .. Len(s) \/ i = Len(s) + 1
  BY <1>1
<1>3. /\ Len(s) + 1 \in 1 .. Len(s) + 1
      /\ 1 .. Len(s) \subseteq 1 .. Len(s) + 1
  BY <1>1
<1>4. Elems(Append(s, e)) = Elems(s) \cup {e}
  BY <1>1, <1>2, <1>3 DEF Elems
<1> QED
  BY <1>1, <1>4

\* No event is accepted while the final flush runs.
LEMMA AppendsBeforeFinal ==
    ASSUME FlushInv, NEW e \in Event, RecordAppend(e)
    PROVE  /\ final # "flushing"
           /\ \A f \in Flusher : fpc[f] \in Active => fpc'[f] = fpc[f]
<1>1. PICK s \in Ship :
         /\ Current(s) /\ ~closing[s]
         /\ UNCHANGED fpc \/ (~scheduled[s] /\ fpc' = [fpc EXCEPT ![s] = "begin"])
  BY DEF RecordAppend
<1>2. final # "flushing"
  BY <1>1, CurrentShip DEF FlushInv, FinalTakesOver
<1>3. ~scheduled[s] => fpc[s] = "idle"
  BY DEF FlushInv, CallersOnce
<1> QED
  BY <1>1, <1>2, <1>3 DEF FlushInv, MeterType

LEMMA AppendKeepsData ==
    ASSUME FlushInv, DataInv, NEW e \in Event, RecordAppend(e) PROVE DataInv'
<1> DEFINE next == Append(buf, e)
<1>1. /\ rpc[e] = "known" /\ rpc' = [rpc EXCEPT ![e] = "recorded"]
      /\ buf' = Kept(next) /\ lost' = lost \cup Overflow(next)
      /\ accepted' = Append(accepted, e)
      /\ UNCHANGED <<final, hand, delivered>>
  BY DEF RecordAppend
<1>2. /\ buf \in Seq(Event) /\ hand \in [Flusher -> Seq(Event)] /\ accepted \in Seq(Event)
      /\ rpc \in [Event -> {"new", "known", "ignored", "recorded"}]
  BY DEF DataInv, DataType, FlushInv, MeterType
<1>3. /\ next \in Seq(Event) /\ Elems(next) = Elems(buf) \cup {e}
      /\ DOMAIN buf = 1 .. Len(buf) /\ DOMAIN next = 1 .. Len(buf) + 1 /\ Len(buf) \in Nat
      /\ \A i \in 1 .. Len(buf) : next[i] = buf[i]
      /\ next[Len(buf) + 1] = e
  BY <1>2, AppendElems
<1>4. /\ accepted' \in Seq(Event) /\ Elems(accepted') = Elems(accepted) \cup {e}
      /\ DOMAIN accepted = 1 .. Len(accepted) /\ DOMAIN accepted' = 1 .. Len(accepted) + 1
      /\ Len(accepted) \in Nat
      /\ \A i \in 1 .. Len(accepted) : accepted'[i] = accepted[i]
      /\ accepted'[Len(accepted) + 1] = e
  BY <1>1, <1>2, AppendElems
<1> HIDE DEF next
<1>5. /\ Kept(next) \in Seq(Event) /\ Elems(next) = Elems(Kept(next)) \cup Overflow(next)
      /\ Overflow(next) \subseteq Event
      /\ \E n \in 0 .. Len(next) : Kept(next) = Later(next, n)
  BY <1>3, KeptFacts
<1>6. DataType'
  BY <1>1, <1>4, <1>5 DEF DataInv, DataType
<1>7. HandsEmpty'
  BY <1>1, AppendsBeforeFinal DEF DataInv, HandsEmpty
<1>8. AcceptedOnce'
  <2>1. e \notin Elems(accepted) /\ Elems(accepted) \subseteq Event
    <3>1. Elems(accepted) \subseteq Event
      BY <1>2, ElementOfSeq DEF Elems
    <3> QED
      BY <1>1, <3>1 DEF DataInv, AcceptedOnce
  <2>2. \A x \in Elems(accepted)' : rpc'[x] = "recorded"
    BY <1>1, <1>2, <1>4, <2>1 DEF DataInv, AcceptedOnce, Elems
  <2>3. ASSUME NEW i \in DOMAIN accepted', NEW j \in DOMAIN accepted',
               accepted'[i] = accepted'[j]
        PROVE  i = j
    <3>1. \A k \in 1 .. Len(accepted) : accepted'[k] # e /\ accepted'[k] = accepted[k]
      BY <1>4, <2>1 DEF Elems
    <3>2. i \in 1 .. Len(accepted) \/ i = Len(accepted) + 1
      BY <1>4
    <3>3. j \in 1 .. Len(accepted) \/ j = Len(accepted) + 1
      BY <1>4
    <3> QED
      BY <1>4, <2>3, <3>1, <3>2, <3>3 DEF DataInv, AcceptedOnce
  <2> QED
    BY <2>2, <2>3 DEF AcceptedOnce
<1>9. InOrder'
  <2>1. ASSUME NEW a, NEW b, Earlier(a, b, accepted) PROVE Earlier(a, b, accepted')
    BY <1>4, <2>1 DEF Earlier
  <2>2. ASSUME NEW a \in Elems(accepted) PROVE Earlier(a, e, accepted')
    <3>1. PICK i \in 1 .. Len(accepted) : accepted[i] = a
      BY <1>4 DEF Elems
    <3>2. i \in DOMAIN accepted' /\ Len(accepted) + 1 \in DOMAIN accepted' /\ i < Len(accepted) + 1
      BY <1>4
    <3> QED
      BY <1>4, <3>1, <3>2 DEF Earlier
  <2>3. ASSUME NEW g \in Flusher
        PROVE  /\ Ordered(hand[g] \o Kept(next), accepted')
               /\ Elems(hand[g] \o Kept(next)) \subseteq Elems(accepted')
    <3> DEFINE p == hand[g] \o buf
               q == hand[g] \o next
               l == Len(p)
    <3>1. /\ p \in Seq(Event) /\ q \in Seq(Event) /\ l \in Nat
          /\ DOMAIN p = 1 .. l /\ DOMAIN q = 1 .. l + 1
          /\ \A i \in 1 .. l : q[i] = p[i]
          /\ q[l + 1] = e
      <4>1. p \in Seq(Event) /\ e \in Event
        BY <1>2, ConcatProperties
      <4>2. q = Append(p, e)
        <5>1. <<e>> \in Seq(Event) /\ hand[g] \in Seq(Event)
          BY <1>2
        <5>2. next = buf \o <<e>> /\ Append(p, e) = p \o <<e>>
          BY <1>2, <4>1, AppendIsConcat DEF next
        <5> QED
          BY <1>2, <5>1, <5>2, ConcatAssociative
      <4> QED
        BY <4>1, <4>2, AppendElems
    <3>2. Ordered(p, accepted) /\ Elems(p) \subseteq Elems(accepted)
      BY DEF DataInv, InOrder
    <3> HIDE DEF p, q, l
    <3>3. Elems(q) \subseteq Elems(accepted')
      <4>1. \A i \in 1 .. l : q[i] \in Elems(p)
        BY <3>1 DEF Elems
      <4>2. \A i \in 1 .. l + 1 : i \in 1 .. l \/ i = l + 1
        BY <3>1
      <4> QED
        BY <1>4, <3>1, <3>2, <4>1, <4>2 DEF Elems
    <3>4. Ordered(q, accepted')
      <4>1. ASSUME NEW i \in 1 .. l + 1, NEW j \in 1 .. l + 1, i < j
            PROVE  Earlier(q[i], q[j], accepted')
        <5>1. i \in 1 .. l /\ (j \in 1 .. l \/ j = l + 1)
          BY <3>1, <4>1
        <5>2. CASE j \in 1 .. l
          <6>1. Earlier(p[i], p[j], accepted)
            BY <3>1, <3>2, <4>1, <5>1, <5>2 DEF Ordered
          <6> QED
            BY <2>1, <3>1, <5>1, <5>2, <6>1
        <5>3. CASE j = l + 1
          <6>1. p[i] \in Elems(accepted)
            BY <3>1, <3>2, <5>1 DEF Elems
          <6> QED
            BY <2>2, <3>1, <5>1, <5>3, <6>1
        <5> QED
          BY <5>1, <5>2, <5>3
      <4> QED
        BY <3>1, <4>1 DEF Ordered
    <3>5. PICK n \in 0 .. Len(next) : Kept(next) = Later(next, n)
      BY <1>5
    <3>6. /\ Reports!Thins(hand[g] \o Kept(next), q)
          /\ hand[g] \o Kept(next) \in Seq(Event)
      BY <1>2, <1>3, <1>5, <3>5, ThinsLater, ConcatProperties DEF q
    <3> QED
      BY <3>1, <3>3, <3>4, <3>6, ThinnedOrdered
  <2> QED
    BY <1>1, <2>3 DEF InOrder
<1>10. Accounted'
  <2>1. InHand' = InHand
    BY <1>1 DEF InHand
  <2>2. Elems(accepted)' = Elems(accepted') /\ Elems(buf)' = Elems(Kept(next))
    BY <1>1 DEF Elems
  <2> QED
    BY <1>1, <1>3, <1>4, <1>5, <2>1, <2>2 DEF DataInv, Accounted
<1> QED
  BY <1>6, <1>7, <1>8, <1>9, <1>10 DEF DataInv

LEMMA RecordKeepsData ==
    ASSUME FlushInv, DataInv, NEW e \in Event, RecordStep(e) PROVE DataInv'
<1>1. CASE RecordAppend(e)
  BY <1>1, AppendKeepsData
<1>2. CASE RecordLookup(e) \/ RecordClosed(e) \/ RecordClosing(e)
  <2>1. /\ UNCHANGED <<buf, hand, history, fpc, final>> /\ rpc[e] # "recorded"
        /\ \E x : rpc' = [rpc EXCEPT ![e] = x]
    BY <1>2 DEF RecordLookup, RecordClosed, RecordClosing, flushVars
  <2>2. \A d \in Event : rpc[d] = "recorded" => rpc'[d] = "recorded"
    BY <2>1 DEF FlushInv, MeterType
  <2> QED
    BY <2>1, <2>2, DataFrame DEF DataInv, HandsEmpty
<1> QED
  BY <1>1, <1>2 DEF RecordStep

LEMMA FlushKeepsData ==
    ASSUME FlushInv, DataInv, NEW f \in Flusher, FlushStep(f) PROVE DataInv'
<1> USE DEF SendFrame
<1>1. CASE FlushTake(f)
  BY <1>1, TakeKeepsData
<1>2. CASE FlushBegin(f) \/ FlushLock(f) \/ FlushEnd(f) \/ WorkerDone(f)
  <2>1. PICK x \in FlushStates :
           /\ UNCHANGED <<buf, hand, history, rpc, final>> /\ fpc[f] \notin Active \cup {"take"}
           /\ fpc' = [fpc EXCEPT ![f] = x]
           /\ fpc[f] \in {"begin", "lock"} => x \in {"lock", "take"}
    BY <1>2 DEF FlushBegin, FlushLock, FlushEnd, WorkerDone, FlushInv, MeterType
  <2>2. /\ \A g \in Flusher : fpc[g] \in Active => fpc'[g] = fpc[g]
        /\ fpc'["final"] \notin {"begin", "lock", "take"} =>
              fpc["final"] \notin {"begin", "lock", "take"}
    BY <2>1 DEF FlushInv, MeterType, Flusher
  <2> QED
    BY <2>1, <2>2, DataFrame DEF DataInv, HandsEmpty
<1>3. CASE FlushResolve(f)
  <2>1. CASE registered \/ f = "final"
    <3>1. /\ UNCHANGED <<buf, hand, history, rpc, final>> /\ fpc[f] \in Active
          /\ fpc' = [fpc EXCEPT ![f] = "send"]
      BY <1>3, <2>1 DEF FlushResolve, history
    <3> QED
      BY <3>1, DataFrame DEF DataInv, HandsEmpty, FlushInv, MeterType, Flusher
  <2>2. CASE ~(registered \/ f = "final")
    <3>1. /\ fpc[f] \in Active /\ f # "final" /\ Requeue(f)
          /\ fpc' = [fpc EXCEPT ![f] = "finish"]
          /\ UNCHANGED <<rpc, final, accepted, delivered>>
      BY <1>3, <2>2 DEF FlushResolve
    <3> QED
      BY <3>1, RequeueKeepsData DEF DataInv, DataType
  <2> QED
    BY <2>1, <2>2
<1>4. ASSUME fpc[f] \in Active
      PROVE  /\ hand \in [Flusher -> Seq(Event)] /\ fpc \in [Flusher -> FlushStates]
             /\ hand[f] \in Seq(Event) /\ delivered \subseteq Event /\ lost \subseteq Event
             /\ Len(Sending(f)) \in 0 .. Len(hand[f])
             /\ Elems(Sending(f)) \subseteq Event
             /\ Elems(hand[f]) = Elems(Sending(f)) \cup Elems(Later(hand[f], Len(Sending(f))))
  BY <1>4, OthersEmpty, SendingFacts
<1>5. CASE FlushSent(f)
  <2>1. fpc[f] \in Active
    BY <1>5 DEF FlushSent
  <2>2. /\ delivered' = delivered \cup Elems(Sending(f))
        /\ hand' = [hand EXCEPT ![f] = Later(@, Len(Sending(f)))]
        /\ fpc' = [fpc EXCEPT ![f] = IF hand'[f] = <<>> THEN "finish" ELSE "resolve"]
        /\ UNCHANGED <<buf, rpc, final, accepted, lost>>
    BY <1>5 DEF FlushSent
  <2>3. hand'[f] = Later(hand[f], Len(Sending(f)))
    BY <1>4, <2>1, <2>2
  <2> QED
    BY <1>4, <2>1, <2>2, <2>3, LeavingKeepsData
<1>6. CASE FlushFailed(f)
  <2>1. fpc[f] \in Active
    BY <1>6 DEF FlushFailed
  <2>2. /\ UNCHANGED <<rpc, final, accepted>>
        /\ delivered \subseteq delivered' /\ delivered' \subseteq Event
    BY <1>4, <1>6, <2>1 DEF FlushFailed
  <2>3. CASE /\ fpc' = [fpc EXCEPT ![f] = "send_again"]
             /\ UNCHANGED <<buf, hand, lost>>
    <3>1. /\ 0 \in 0 .. Len(hand[f])
          /\ Later(hand[f], 0) = hand[f]
      BY <1>4, <2>1, SubSeqFull DEF Later
    <3>2. hand' = [hand EXCEPT ![f] = Later(@, 0)] /\ hand'[f] = hand[f]
      BY <1>4, <2>1, <2>3, <3>1
    <3> QED
      BY <1>4, <2>1, <2>2, <2>3, <3>1, <3>2, LeavingKeepsData
  <2>4. CASE Undelivered(f) /\ fpc' = [fpc EXCEPT ![f] = "finish"]
    <3>1. CASE f # "final"
      BY <2>1, <2>2, <2>4, <3>1, RequeueKeepsData DEF Undelivered, Nonfinal
    <3>2. CASE f = "final"
      <4>1. /\ lost' = lost \cup Elems(hand[f]) /\ hand' = [hand EXCEPT ![f] = <<>>]
            /\ UNCHANGED buf
        BY <2>4, <3>2 DEF Undelivered, Nonfinal, Abandon
      <4>2. /\ Len(hand[f]) \in 0 .. Len(hand[f])
            /\ Later(hand[f], Len(hand[f])) = <<>>
        BY <1>4, <2>1, SubSeqEmpty DEF Later
      <4>3. hand' = [hand EXCEPT ![f] = Later(@, Len(hand[f]))] /\ hand'[f] = <<>>
        BY <1>4, <2>1, <4>1, <4>2
      <4>4. Elems(hand[f]) \subseteq Event
        BY <1>4, <2>1, ElementOfSeq DEF Elems
      <4> QED
        BY <1>4, <2>1, <2>2, <2>4, <4>1, <4>2, <4>3, <4>4, LeavingKeepsData
    <3> QED
      BY <3>1, <3>2
  <2> QED
    BY <1>6, <2>3, <2>4 DEF FlushFailed
<1> QED
  BY <1>1, <1>2, <1>3, <1>5, <1>6 DEF FlushStep

LEMMA CallersKeepData == FlushInv /\ DataInv /\ CallerStep => DataInv'
<1> SUFFICES ASSUME FlushInv, DataInv, CallerStep PROVE DataInv'
  OBVIOUS
<1>1. UNCHANGED <<rpc, hand, history>> /\ (~FinalEnd => UNCHANGED buf)
  BY DEF CallerStep, LoopTick, Unregister, FinalBegin, FinalEnd, Close, CloseFlush,
     CloseEnd, flushVars
<1>2. FinalEnd => buf = <<>> /\ UNCHANGED buf
  BY DEF FinalEnd, DataInv, HandsEmpty
<1>3. /\ \A f \in Flusher : fpc[f] \in Active => fpc'[f] = fpc[f]
      /\ final' = "flushing" =>
            \/ final # "flushing" /\ fpc'["final"] = "begin"
            \/ final = "flushing" /\ fpc'["final"] = fpc["final"]
  BY ShipAssumption DEF CallerStep, LoopTick, Unregister, FinalBegin, FinalEnd, Close,
     CloseFlush, CloseEnd, flushVars, Call, FlushInv, MeterType, CallersOnce,
     FinalTakesOver, Flusher
<1>4. final' = "flushing" /\ fpc'["final"] \notin {"begin", "lock", "take"} => buf = <<>>
  BY <1>3 DEF DataInv, HandsEmpty
<1>5. \A f \in Flusher : hand[f] # <<>> => fpc'[f] \in Active
  BY <1>3 DEF DataInv, HandsEmpty
<1>6. UNCHANGED <<buf, hand, history>>
  BY <1>1, <1>2
<1> QED
  BY <1>1, <1>4, <1>5, <1>6, DataFrame

LEMMA DataInductive == FlushInv /\ DataInv /\ [Next]_vars => DataInv'
<1> SUFFICES ASSUME FlushInv, DataInv, [Next]_vars PROVE DataInv'
  OBVIOUS
<1>1. CASE UNCHANGED vars
  BY <1>1, DataFrame DEF vars, flushVars, DataInv, HandsEmpty
<1> QED
  BY <1>1, RecordKeepsData, FlushKeepsData, CallersKeepData DEF Next, CallerStep

\* No event vanishes, whatever fails and however the final flush and shutdown
\* interleave with the flushes that are under way.
THEOREM NoEventVanishes == Spec => []Accounted
<1>1. FlushInv /\ DataInv => Accounted
  BY DEF DataInv
<1> QED
  BY FlushInit, FlushInductive, DataInit, DataInductive, <1>1, PTL DEF Spec

-----------------------------------------------------------------------------
(* The meter is a queue.                                                     *)

\* A buffer is never over-full, nor is what a flush has taken, and only
\* accepted events are received or dropped.
QueueInv ==
    /\ Len(buf) <= MaxBuf
    /\ \A f \in Flusher : Len(hand[f]) <= MaxBuf
    /\ delivered \cup lost \subseteq Elems(accepted)

LEMMA OutstandingIs ==
    ASSUME NEW h \in [Flusher -> Seq(Event)], NEW b \in Seq(Event), NEW f \in Flusher,
           \A g \in Flusher \ {f} : h[g] = <<>>
    PROVE  Outstanding(h, b) = h[f] \o b
<1>1. CASE h[f] = <<>>
  BY <1>1, ConcatEmptySeq DEF Outstanding
<1>2. CASE h[f] # <<>>
  BY <1>2 DEF Outstanding
<1> QED
  BY <1>1, <1>2

\* All events that were taken are in the hands of one flush.
LEMMA OneHand ==
    ASSUME FlushInv, DataInv
    PROVE  \E f \in Flusher : \A g \in Flusher \ {f} : hand[g] = <<>>
<1>1. CASE \E f \in Flusher : fpc[f] \in Active
  BY <1>1, OthersEmpty
<1>2. CASE \A f \in Flusher : fpc[f] \notin Active
  BY <1>2 DEF DataInv, HandsEmpty, Flusher
<1> QED
  BY <1>1, <1>2

LEMMA KeptFits ==
    ASSUME NEW s \in Seq(Event)
    PROVE  /\ Len(Kept(s)) \in Nat /\ Len(Kept(s)) <= MaxBuf
           /\ Len(s) <= MaxBuf => Kept(s) = s
<1>1. Len(s) \in Nat /\ MaxBuf \in Nat /\ MaxBuf > 0
  BY BoundAssumption
<1>2. CASE Len(s) > MaxBuf
  <2>1. Len(s) - MaxBuf \in 0 .. Len(s) /\ Kept(s) = Later(s, Len(s) - MaxBuf)
    BY <1>1, <1>2 DEF Kept, Later
  <2>2. Len(Kept(s)) = Len(s) - (Len(s) - MaxBuf)
    BY <2>1, LaterFacts
  <2> QED
    BY <1>1, <1>2, <2>2
<1>3. CASE ~(Len(s) > MaxBuf)
  BY <1>1, <1>3 DEF Kept
<1> QED
  BY <1>2, <1>3

\* No event is both in the hands of a flush and in the buffer.
LEMMA HandsApart ==
    ASSUME DataInv, NEW f \in Flusher PROVE Elems(hand[f]) \cap Elems(buf) = {}
<1> SUFFICES ASSUME NEW i \in DOMAIN hand[f], NEW j \in DOMAIN buf, hand[f][i] = buf[j]
             PROVE  FALSE
  BY DEF Elems
<1> DEFINE p == hand[f] \o buf
           k == Len(hand[f])
<1>1. hand[f] \in Seq(Event) /\ buf \in Seq(Event)
  BY DEF DataInv, DataType
<1>2. /\ k \in Nat /\ Len(buf) \in Nat /\ i \in 1 .. k /\ j \in 1 .. Len(buf)
      /\ DOMAIN p = 1 .. k + Len(buf)
      /\ \A n \in 1 .. k + Len(buf) : p[n] = IF n <= k THEN hand[f][n] ELSE buf[n - k]
  BY <1>1, ConcatProperties
<1>3. Ordered(p, accepted)
  BY DEF DataInv, InOrder
<1> HIDE DEF p, k
<1>4. /\ i \in 1 .. k + Len(buf) /\ k + j \in 1 .. k + Len(buf) /\ i < k + j /\ i <= k
      /\ ~(k + j <= k) /\ k + j - k = j
  BY <1>2
<1>5. p[i] = hand[f][i] /\ p[k + j] = buf[j]
  BY <1>2, <1>4
<1>6. Earlier(hand[f][i], buf[j], accepted)
  BY <1>2, <1>3, <1>4, <1>5 DEF Ordered
<1>7. PICK m, n \in DOMAIN accepted : m < n /\ accepted[m] = accepted[n]
  BY <1>6 DEF Earlier
<1>8. m \in Nat /\ m = n
  BY <1>7 DEF DataInv, DataType, AcceptedOnce
<1> QED
  BY <1>7, <1>8

\* The first n of the events in hand, and those that follow them, are the
\* first n outstanding ones and those that follow.
LEMMA FrontOfHand ==
    ASSUME NEW h \in Seq(Event), NEW b \in Seq(Event), NEW n \in 0 .. Len(h)
    PROVE  /\ SubSeq(h \o b, 1, n) = SubSeq(h, 1, n)
           /\ SubSeq(h \o b, n + 1, Len(h \o b)) = Later(h, n) \o b
           /\ n \in 0 .. Len(h \o b)
<1>1. /\ Len(h) \in Nat /\ Len(b) \in Nat /\ n \in Nat
      /\ h \o b \in Seq(Event) /\ Len(h \o b) = Len(h) + Len(b)
      /\ \A i \in 1 .. Len(h) + Len(b) : (h \o b)[i] = IF i <= Len(h) THEN h[i] ELSE b[i - Len(h)]
  BY ConcatProperties
<1>2. SubSeq(h \o b, 1, n) = SubSeq(h, 1, n)
  <2>1. CASE n = 0
    BY <2>1, SubSeqEmpty
  <2>2. CASE n # 0
    <3>1. n \in 1 .. Len(h) /\ 1 \in 1 .. Len(h)
      BY <1>1, <2>2
    <3> QED
      BY <3>1, SubSeqOfConcat1
  <2> QED
    BY <2>1, <2>2
<1>3. n \in 0 .. Len(h \o b)
  BY <1>1
<1>4. /\ Later(h \o b, n) \in Seq(Event) /\ Len(Later(h \o b, n)) = Len(h \o b) - n
      /\ \A i \in 1 .. Len(h \o b) - n : Later(h \o b, n)[i] = (h \o b)[n + i]
  BY <1>1, <1>3, LaterFacts, Zenon
<1>5. /\ Later(h, n) \in Seq(Event) /\ Len(Later(h, n)) = Len(h) - n
      /\ \A i \in 1 .. Len(h) - n : Later(h, n)[i] = h[n + i]
  BY LaterFacts
<1>6. /\ Later(h, n) \o b \in Seq(Event) /\ Len(Later(h, n) \o b) = Len(h) - n + Len(b)
      /\ \A i \in 1 .. Len(h) - n + Len(b) :
            (Later(h, n) \o b)[i] = IF i <= Len(h) - n THEN Later(h, n)[i] ELSE b[i - (Len(h) - n)]
  <2>1. /\ Later(h, n) \o b \in Seq(Event)
        /\ Len(Later(h, n) \o b) = Len(Later(h, n)) + Len(b)
        /\ \A i \in 1 .. Len(Later(h, n)) + Len(b) :
              (Later(h, n) \o b)[i] =
                  IF i <= Len(Later(h, n)) THEN Later(h, n)[i] ELSE b[i - Len(Later(h, n))]
    BY <1>5, ConcatProperties, Zenon
  <2> QED
    BY <1>5, <2>1, Zenon
<1>7. ASSUME NEW i \in 1 .. Len(h) + Len(b) - n
      PROVE  (Later(h, n) \o b)[i] = Later(h \o b, n)[i]
  <2>1. /\ n + i \in 1 .. Len(h) + Len(b) /\ i \in 1 .. Len(h) - n + Len(b)
        /\ i \in 1 .. Len(h \o b) - n
    BY <1>1
  <2>2. CASE i <= Len(h) - n
    <3>1. i \in 1 .. Len(h) - n /\ n + i <= Len(h)
      BY <1>1, <2>2
    <3> QED
      BY <1>1, <1>4, <1>5, <1>6, <2>1, <2>2, <3>1
  <2>3. CASE ~(i <= Len(h) - n)
    <3>1. ~(n + i <= Len(h)) /\ n + i - Len(h) = i - (Len(h) - n)
      BY <1>1, <2>3
    <3> QED
      BY <1>1, <1>4, <1>6, <2>1, <2>3, <3>1
  <2> QED
    BY <2>2, <2>3
<1>8. Len(Later(h, n) \o b) = Len(Later(h \o b, n))
  BY <1>1, <1>4, <1>6
<1>9. Later(h, n) \o b = Later(h \o b, n)
  <2>1. \A i \in 1 .. Len(Later(h, n) \o b) : (Later(h, n) \o b)[i] = Later(h \o b, n)[i]
    BY <1>1, <1>6, <1>7
  <2> QED
    BY <1>4, <1>6, <1>8, <2>1, SeqEqual, Zenon
<1> QED
  BY <1>2, <1>3, <1>9 DEF Later

\* What a flush sends are the first of the events it has taken.
LEMMA SendingIsFront ==
    ASSUME NEW f \in Flusher, hand[f] \in Seq(Event)
    PROVE  Sending(f) = SubSeq(hand[f], 1, Len(Sending(f)))
<1> DEFINE h == hand[f]
           k == IF Len(h) < Batch THEN Len(h) ELSE Batch
<1>1. Len(h) \in Nat /\ k \in 0 .. Len(h) /\ Sending(f) = SubSeq(h, 1, k)
  BY BoundAssumption DEF Sending
<1> HIDE DEF k
<1>2. \A i \in 1 .. k : h[i] \in Event
  BY <1>1, ElementOfSeq
<1>3. 1 \in Int /\ k \in Int
  BY <1>1
<1>4. Len(Sending(f)) = IF 1 <= k THEN k - 1 + 1 ELSE 0
  BY <1>1, <1>2, <1>3, SubSeqProperties
<1>5. Len(Sending(f)) = k
  BY <1>1, <1>4
<1> QED
  BY <1>1, <1>5

LEMMA SameElems == \A s : Reports!Elems(s) = Elems(s)
BY DEF Elems, Reports!Elems

\* Where the outstanding events are, f being the one flush that may have some.
LEMMA Waiters ==
    ASSUME FlushInv, DataInv, NEW f \in Flusher, \A g \in Flusher \ {f} : hand[g] = <<>>
    PROVE  /\ hand \in [Flusher -> Seq(Event)] /\ buf \in Seq(Event)
           /\ Outstanding(hand, buf) = hand[f] \o buf
           /\ hand[f] \o buf \in Seq(Event)
           /\ Len(hand[f] \o buf) = Len(hand[f]) + Len(buf)
           /\ Elems(hand[f] \o buf) = Elems(hand[f]) \cup Elems(buf)
           /\ Elems(hand[f] \o buf) \subseteq Elems(accepted)
<1>1. hand \in [Flusher -> Seq(Event)] /\ buf \in Seq(Event)
  BY DEF DataInv, DataType
<1>2. Outstanding(hand, buf) = hand[f] \o buf
  BY <1>1, OutstandingIs
<1>3. Elems(hand[f] \o buf) \subseteq Elems(accepted)
  BY DEF DataInv, InOrder
<1> QED
  BY <1>1, <1>2, <1>3, ConcatProperties, ElemsConcat

\* Steps that leave the events where they are.
LEMMA QueueFrame ==
    ASSUME QueueInv, UNCHANGED <<buf, hand, history>>
    PROVE  /\ QueueInv'
           /\ Outstanding(hand, buf)' = Outstanding(hand, buf)
<1>1. Outstanding(hand, buf)' = Outstanding(hand, buf)
  BY DEF Outstanding
<1> QED
  BY <1>1 DEF QueueInv, history, Elems

LEMMA AppendIsRecord ==
    ASSUME FlushInv, DataInv, QueueInv, NEW e \in Event, RecordAppend(e)
    PROVE  QueueInv' /\ Reports!Record(e)
<1>1. PICK f \in Flusher : \A g \in Flusher \ {f} : hand[g] = <<>>
  BY OneHand
<1> DEFINE h == hand[f]
           next == Append(buf, e)
           kept == Kept(next)
<1>2. /\ hand \in [Flusher -> Seq(Event)] /\ buf \in Seq(Event)
      /\ Outstanding(hand, buf) = h \o buf
      /\ h \o buf \in Seq(Event)
      /\ Elems(h \o buf) = Elems(h) \cup Elems(buf)
      /\ Elems(h \o buf) \subseteq Elems(accepted)
  BY <1>1, Waiters
<1>3. /\ rpc[e] = "known" /\ buf' = kept /\ lost' = lost \cup Overflow(next)
      /\ accepted' = Append(accepted, e) /\ UNCHANGED <<registered, hand, delivered>>
  BY DEF RecordAppend
<1>4. next \in Seq(Event) /\ Elems(next) = Elems(buf) \cup {e} /\ h \in Seq(Event)
  BY <1>2, AppendElems
<1>5. Elems(accepted') = Elems(accepted) \cup {e}
  BY <1>3, AppendElems DEF DataInv, DataType
<1>6. e \notin Elems(accepted)
  BY <1>3 DEF DataInv, AcceptedOnce
<1>7. Append(h \o buf, e) = h \o next
  <2>1. <<e>> \in Seq(Event) /\ Append(h \o buf, e) = (h \o buf) \o <<e>> /\ next = buf \o <<e>>
    BY <1>2, AppendIsConcat
  <2> QED
    BY <1>2, <1>4, <2>1, ConcatAssociative
<1> HIDE DEF next
<1>8. /\ kept \in Seq(Event) /\ Elems(next) = Elems(kept) \cup Overflow(next)
      /\ Len(kept) <= MaxBuf /\ (Len(next) <= MaxBuf => kept = next)
      /\ \E n \in 0 .. Len(next) : kept = Later(next, n)
  BY <1>4, KeptFacts, KeptFits
<1>9. /\ Len(h) \in Nat /\ Len(kept) \in Nat /\ Len(next) \in Nat /\ MaxBuf \in Nat
      /\ Len(h \o next) = Len(h) + Len(next) /\ Len(h \o kept) = Len(h) + Len(kept)
      /\ Elems(h \o next) = Elems(h) \cup Elems(next)
      /\ Elems(h \o kept) = Elems(h) \cup Elems(kept)
  BY <1>4, <1>8, ConcatProperties, ElemsConcat, BoundAssumption
<1>10. Outstanding(hand, buf)' = h \o kept
  <2>1. Outstanding(hand, kept) = h \o kept
    BY <1>1, <1>2, <1>8, OutstandingIs
  <2> QED
    BY <1>3, <2>1 DEF Outstanding
<1>11. QueueInv'
  <2>1. /\ Len(buf') <= MaxBuf /\ \A g \in Flusher : Len(hand'[g]) <= MaxBuf
    BY <1>3, <1>8 DEF QueueInv
  <2>2. delivered' \cup lost' \subseteq Elems(accepted')
    BY <1>2, <1>3, <1>4, <1>5, <1>8 DEF QueueInv
  <2> QED
    BY <2>1, <2>2 DEF QueueInv, Elems
<1>12. Reports!Thins(h \o kept, h \o next)
  BY <1>4, <1>8, ThinsLater
<1>13. Len(h \o next) <= MaxBuf => h \o kept = h \o next
  BY <1>8, <1>9
<1>14. Len(h \o kept) <= 2 * MaxBuf
  BY <1>8, <1>9 DEF QueueInv
<1>15. Overflow(next) = Elems(h \o next) \ Elems(h \o kept)
  <2>1. Elems(h) \cap Elems(buf) = {} /\ e \notin Elems(h)
    BY <1>2, <1>6, HandsApart
  <2> QED
    BY <1>4, <1>9, <2>1 DEF Overflow
<1>16. Reports!Shed(Append(Outstanding(hand, buf), e))
  BY <1>2, <1>3, <1>7, <1>10, <1>12, <1>13, <1>14, <1>15, SameElems DEF Reports!Shed
<1>17. e \notin Reports!Elems(Outstanding(hand, buf)) \cup delivered \cup lost
  BY <1>2, <1>6, SameElems DEF QueueInv
<1> QED
  BY <1>3, <1>11, <1>16, <1>17 DEF Reports!Record

\* What a report that was sent may leave received.
LEMMA SomeReceived ==
    ASSUME NEW f \in Flusher, hand[f] \in Seq(Event),
           delivered' \in {delivered, delivered \cup Elems(Sending(f))}
    PROVE  \E n \in 0 .. Len(hand[f]) : delivered' = delivered \cup Elems(SubSeq(hand[f], 1, n))
<1>1. CASE delivered' = delivered
  <2>1. 0 \in 0 .. Len(hand[f]) /\ SubSeq(hand[f], 1, 0) = <<>>
    BY SubSeqEmpty
  <2>2. Elems(<<>>) = {}
    BY EmptySeq DEF Elems
  <2> QED
    BY <1>1, <2>1, <2>2
<1>2. CASE delivered' = delivered \cup Elems(Sending(f))
  BY <1>2, SendingFacts, SendingIsFront
<1> QED
  BY <1>1, <1>2

\* A report of the first n events is received.
LEMMA Reception ==
    ASSUME FlushInv, DataInv, QueueInv, NEW f \in Flusher, fpc[f] \in Active,
           NEW n \in 0 .. Len(hand[f]),
           delivered' = delivered \cup Elems(SubSeq(hand[f], 1, n))
    PROVE  /\ Reports!Receive(n)
           /\ n \in 0 .. Len(Outstanding(hand, buf))
           /\ delivered' \subseteq Elems(accepted)
<1> DEFINE h == hand[f]
<1>1. /\ hand \in [Flusher -> Seq(Event)] /\ buf \in Seq(Event)
      /\ Outstanding(hand, buf) = h \o buf
      /\ Elems(h \o buf) = Elems(h) \cup Elems(buf)
      /\ Elems(h \o buf) \subseteq Elems(accepted)
  BY OthersEmpty, Waiters
<1>2. SubSeq(h \o buf, 1, n) = SubSeq(h, 1, n) /\ n \in 0 .. Len(h \o buf)
  BY <1>1, FrontOfHand
<1>3. Elems(SubSeq(h, 1, n)) \subseteq Elems(h)
  <2>1. h \in Seq(Event) /\ \A i \in 1 .. n : h[i] \in Event /\ i \in 1 .. Len(h)
    BY <1>1, ElementOfSeq
  <2>2. 1 \in Int /\ n \in Nat
    OBVIOUS
  <2>3. /\ SubSeq(h, 1, n) \in Seq(Event)
        /\ Len(SubSeq(h, 1, n)) = IF 1 <= n THEN n - 1 + 1 ELSE 0
        /\ \A i \in 1 .. n - 1 + 1 : SubSeq(h, 1, n)[i] = h[1 + i - 1]
    BY <2>1, <2>2, SubSeqProperties
  <2>4. /\ DOMAIN SubSeq(h, 1, n) = 1 .. n /\ DOMAIN h = 1 .. Len(h)
        /\ \A i \in 1 .. n : SubSeq(h, 1, n)[i] = h[i]
    BY <2>1, <2>2, <2>3
  <2> QED
    BY <2>1, <2>4 DEF Elems
<1>4. Reports!Receive(n)
  BY <1>1, <1>2, SameElems DEF Reports!Receive
<1> QED
  BY <1>1, <1>2, <1>3, <1>4 DEF QueueInv

\* The events a flush has taken come back.
LEMMA RequeueIsFail ==
    ASSUME FlushInv, DataInv, QueueInv, NEW f \in Flusher, fpc[f] \in Active, Requeue(f),
           UNCHANGED <<registered, accepted>>, NEW n \in 0 .. Len(hand[f]),
           delivered' = delivered \cup Elems(SubSeq(hand[f], 1, n))
    PROVE  QueueInv' /\ Reports!Fail(n)
<1> DEFINE all == hand[f] \o buf
<1>1. \A g \in Flusher \ {f} : hand[g] = <<>>
  BY OthersEmpty
<1>2. /\ hand \in [Flusher -> Seq(Event)]
      /\ Outstanding(hand, buf) = all /\ all \in Seq(Event)
      /\ Elems(all) \subseteq Elems(accepted)
  BY <1>1, Waiters
<1>3. /\ buf' = Kept(all) /\ lost' = lost \cup Overflow(all)
      /\ hand' = [hand EXCEPT ![f] = <<>>]
  BY DEF Requeue, Requeued
<1> HIDE DEF all
<1>4. /\ Kept(all) \in Seq(Event) /\ Elems(all) = Elems(Kept(all)) \cup Overflow(all)
      /\ Len(Kept(all)) \in Nat /\ Len(Kept(all)) <= MaxBuf
      /\ (Len(all) <= MaxBuf => Kept(all) = all)
      /\ \E k \in 0 .. Len(all) : Kept(all) = Later(all, k)
  BY <1>2, KeptFacts, KeptFits
<1>5. <<>> \in Seq(Event) /\ Len(<<>>) = 0 /\ MaxBuf \in Nat
  BY EmptySeq, BoundAssumption
<1>6. Outstanding(hand, buf)' = Kept(all)
  <2>1. hand' \in [Flusher -> Seq(Event)] /\ \A g \in Flusher : hand'[g] = <<>>
    BY <1>1, <1>2, <1>3, <1>5
  <2> QED
    BY <1>3, <2>1 DEF Outstanding
<1>7. Reports!Receive(n) /\ delivered' \subseteq Elems(accepted)
  BY Reception
<1>8. Reports!Thins(Kept(all), all)
  <2>1. <<>> \o all = all /\ <<>> \o Kept(all) = Kept(all)
    BY <1>2, <1>4, ConcatEmptySeq
  <2> QED
    BY <1>2, <1>4, <1>5, <2>1, ThinsLater
<1>9. Len(Kept(all)) <= 2 * MaxBuf
  BY <1>4, <1>5
<1>10. Reports!Shed(Outstanding(hand, buf))
  BY <1>2, <1>3, <1>4, <1>6, <1>8, <1>9, SameElems DEF Reports!Shed, Overflow
<1>11. QueueInv'
  <2>1. Len(buf') <= MaxBuf
    BY <1>3, <1>4
  <2>2. \A g \in Flusher : Len(hand'[g]) <= MaxBuf
    BY <1>2, <1>3, <1>5 DEF QueueInv
  <2>3. delivered' \cup lost' \subseteq Elems(accepted')
    BY <1>2, <1>3, <1>4, <1>7 DEF QueueInv
  <2> QED
    BY <2>1, <2>2, <2>3 DEF QueueInv, Elems
<1> QED
  BY <1>7, <1>10, <1>11 DEF Reports!Fail

\* The final flush is about to send its report once more.
LEMMA AgainIsFail ==
    ASSUME FlushInv, DataInv, QueueInv, NEW f \in Flusher, fpc[f] \in Active,
           UNCHANGED <<registered, accepted, buf, hand, lost>>, NEW n \in 0 .. Len(hand[f]),
           delivered' = delivered \cup Elems(SubSeq(hand[f], 1, n))
    PROVE  QueueInv' /\ Reports!Fail(n)
<1> DEFINE all == hand[f] \o buf
<1>1. /\ hand \in [Flusher -> Seq(Event)] /\ buf \in Seq(Event)
      /\ Outstanding(hand, buf) = all /\ all \in Seq(Event)
      /\ Len(all) = Len(hand[f]) + Len(buf)
  BY OthersEmpty, Waiters
<1>2. Outstanding(hand, buf)' = all
  BY <1>1 DEF Outstanding
<1>3. Reports!Receive(n) /\ delivered' \subseteq Elems(accepted)
  BY Reception
<1>4. Len(all) <= 2 * MaxBuf
  <2>1. Len(hand[f]) \in Nat /\ Len(buf) \in Nat /\ MaxBuf \in Nat
    BY <1>1, BoundAssumption
  <2> QED
    BY <1>1, <2>1 DEF QueueInv
<1> HIDE DEF all
<1>5. Reports!Thins(all, all)
  BY <1>1, ThinsSelf
<1>6. Reports!Shed(Outstanding(hand, buf))
  BY <1>1, <1>2, <1>4, <1>5, SameElems DEF Reports!Shed
<1>7. QueueInv'
  BY <1>3 DEF QueueInv, Elems
<1> QED
  BY <1>3, <1>6, <1>7 DEF Reports!Fail

\* The final flush gives up: there is nothing else, and its session is gone.
LEMMA AbandonIsAbandon ==
    ASSUME FlushInv, DataInv, QueueInv, fpc["final"] \in Active, Abandon("final"),
           UNCHANGED <<registered, accepted>>, NEW n \in 0 .. Len(hand["final"]),
           delivered' = delivered \cup Elems(SubSeq(hand["final"], 1, n))
    PROVE  QueueInv' /\ Reports!Abandon(n)
<1> "final" \in Flusher
  BY DEF Flusher
<1>1. /\ \A g \in Flusher \ {"final"} : hand[g] = <<>>
      /\ hand \in [Flusher -> Seq(Event)]
  BY OthersEmpty
<1>2. buf = <<>> /\ ~registered
  BY DEF DataInv, HandsEmpty, FlushInv, FinalTakesOver
<1>3. /\ Outstanding(hand, buf) = hand["final"]
      /\ Elems(hand["final"]) \subseteq Elems(accepted)
  BY <1>1, <1>2, Waiters, ConcatEmptySeq
<1>4. /\ hand' = [hand EXCEPT !["final"] = <<>>] /\ buf' = <<>>
      /\ lost' = lost \cup Elems(hand["final"])
  BY <1>2 DEF Abandon
<1>5. Outstanding(hand, buf)' = <<>>
  BY <1>1, <1>4 DEF Outstanding
<1>6. Reports!Receive(n) /\ delivered' \subseteq Elems(accepted)
  BY Reception
<1>7. QueueInv'
  <2>1. Len(<<>>) <= MaxBuf
    BY EmptySeq, BoundAssumption
  <2>2. Len(buf') <= MaxBuf /\ \A g \in Flusher : Len(hand'[g]) <= MaxBuf
    BY <1>1, <1>4, <2>1 DEF QueueInv
  <2>3. delivered' \cup lost' \subseteq Elems(accepted')
    BY <1>3, <1>4, <1>6 DEF QueueInv
  <2> QED
    BY <2>2, <2>3 DEF QueueInv, Elems
<1> QED
  BY <1>2, <1>3, <1>4, <1>5, <1>6, <1>7, SameElems DEF Reports!Abandon

\* A report is acknowledged: what follows it is outstanding.
LEMMA SentIsAcknowledge ==
    ASSUME FlushInv, DataInv, QueueInv, NEW f \in Flusher, FlushSent(f)
    PROVE  /\ QueueInv'
           /\ \E n \in 0 .. Len(Outstanding(hand, buf)) : Reports!Acknowledge(n)
<1> DEFINE h == hand[f]
           n == Len(Sending(f))
<1>1. /\ fpc[f] \in Active /\ delivered' = delivered \cup Elems(Sending(f))
      /\ hand' = [hand EXCEPT ![f] = Later(@, n)]
      /\ UNCHANGED <<registered, buf, accepted, lost>>
  BY DEF FlushSent, SendFrame
<1>2. \A g \in Flusher \ {f} : hand[g] = <<>>
  BY <1>1, OthersEmpty
<1>3. /\ hand \in [Flusher -> Seq(Event)] /\ buf \in Seq(Event)
      /\ Outstanding(hand, buf) = h \o buf
  BY <1>2, Waiters
<1>4. n \in 0 .. Len(h) /\ Sending(f) = SubSeq(h, 1, n)
  BY <1>3, SendingFacts, SendingIsFront
<1> HIDE DEF n
<1>5. /\ Reports!Receive(n) /\ n \in 0 .. Len(Outstanding(hand, buf))
      /\ delivered' \subseteq Elems(accepted)
  BY <1>1, <1>4, Reception
<1>6. /\ SubSeq(h \o buf, n + 1, Len(h \o buf)) = Later(h, n) \o buf
      /\ Later(h, n) \in Seq(Event) /\ Len(Later(h, n)) = Len(h) - n
  BY <1>3, <1>4, FrontOfHand, LaterFacts
<1>7. Outstanding(hand, buf)' = Later(h, n) \o buf
  <2>1. /\ hand' \in [Flusher -> Seq(Event)] /\ hand'[f] = Later(h, n)
        /\ \A g \in Flusher \ {f} : hand'[g] = <<>>
    BY <1>1, <1>2, <1>3, <1>6
  <2>2. Outstanding(hand', buf) = hand'[f] \o buf
    BY <1>3, <2>1, OutstandingIs
  <2> QED
    BY <1>1, <2>1, <2>2 DEF Outstanding
<1>8. QueueInv'
  <2>1. Len(h) \in Nat /\ Len(h) <= MaxBuf /\ MaxBuf \in Nat
    BY <1>3, BoundAssumption DEF QueueInv
  <2>2. Len(Later(h, n)) <= MaxBuf
    BY <1>4, <1>6, <2>1
  <2>3. \A g \in Flusher : Len(hand'[g]) <= MaxBuf
    BY <1>1, <1>3, <2>2 DEF QueueInv
  <2> QED
    BY <1>1, <1>5, <2>3 DEF QueueInv, Elems
<1> QED
  BY <1>1, <1>3, <1>5, <1>6, <1>7, <1>8 DEF Reports!Acknowledge

\* A flush takes the buffer: the same events are outstanding.
LEMMA TakeKeepsQueue ==
    ASSUME FlushInv, DataInv, QueueInv, FlushInv', NEW f \in Flusher, FlushTake(f)
    PROVE  /\ QueueInv'
           /\ Outstanding(hand, buf)' = Outstanding(hand, buf)
<1>1. UNCHANGED history
  BY DEF FlushTake
<1>2. CASE UNCHANGED <<buf, hand>>
  BY <1>1, <1>2, QueueFrame
<1>3. CASE ~ UNCHANGED <<buf, hand>>
  <2>1. /\ fpc[f] = "take" /\ hand[f] = <<>>
        /\ buf \in Seq(Event) /\ hand \in [Flusher -> Seq(Event)]
        /\ fpc \in [Flusher -> FlushStates]
    BY DEF FlushTake, DataInv, DataType, HandsEmpty, FlushInv, MeterType
  <2>2. /\ hand' = [hand EXCEPT ![f] = buf] /\ buf' = <<>>
        /\ fpc' = [fpc EXCEPT ![f] = IF buf = <<>> THEN "finish" ELSE "resolve"]
    BY <1>3 DEF FlushTake
  <2>3. buf # <<>>
    BY <1>3, <2>1, <2>2
  <2>4. fpc'[f] \in Active /\ \A g \in Flusher \ {f} : fpc'[g] = fpc[g]
    BY <2>1, <2>2, <2>3
  <2>5. \A g \in Flusher \ {f} : fpc'[g] \notin Active
    BY <2>4 DEF FlushInv, Locked
  <2>6. \A g \in Flusher : hand[g] = <<>>
    BY <2>1, <2>4, <2>5 DEF DataInv, HandsEmpty
  <2>7. Outstanding(hand, buf) = buf
    BY <2>6 DEF Outstanding
  <2>8. <<>> \in Seq(Event) /\ buf \o <<>> = buf /\ Len(<<>>) = 0 /\ MaxBuf \in Nat
    BY <2>1, ConcatEmptySeq, EmptySeq, BoundAssumption
  <2>9. Outstanding(hand, buf)' = buf
    <3>1. /\ hand' \in [Flusher -> Seq(Event)] /\ hand'[f] = buf
          /\ \A g \in Flusher \ {f} : hand'[g] = <<>>
      BY <2>1, <2>2, <2>6
    <3>2. Outstanding(hand', <<>>) = hand'[f] \o <<>>
      BY <2>8, <3>1, OutstandingIs
    <3> QED
      BY <2>2, <2>8, <3>1, <3>2 DEF Outstanding
  <2>10. QueueInv'
    <3>1. Len(buf') <= MaxBuf
      BY <2>2, <2>8
    <3>2. \A g \in Flusher : Len(hand'[g]) <= MaxBuf
      BY <2>1, <2>2 DEF QueueInv
    <3> QED
      BY <1>1, <3>1, <3>2 DEF QueueInv, Elems, history
  <2> QED
    BY <2>7, <2>9, <2>10
<1> QED
  BY <1>2, <1>3

LEMMA FlushIsQueue ==
    ASSUME FlushInv, DataInv, QueueInv, FlushInv', NEW f \in Flusher, FlushStep(f)
    PROVE  QueueInv' /\ [Reports!Next]_(Reports!vars)
<1> USE DEF SendFrame
<1>1. CASE FlushTake(f)
  BY <1>1, TakeKeepsQueue DEF FlushTake, history, Reports!vars
<1>2. CASE FlushBegin(f) \/ FlushLock(f) \/ FlushEnd(f) \/ WorkerDone(f)
  <2>1. UNCHANGED <<registered, buf, hand, history>>
    BY <1>2 DEF FlushBegin, FlushLock, FlushEnd, WorkerDone
  <2> QED
    BY <2>1, QueueFrame DEF history, Reports!vars
<1>3. CASE FlushResolve(f)
  <2>1. CASE registered \/ f = "final"
    <3>1. UNCHANGED <<registered, buf, hand, history>>
      BY <1>3, <2>1 DEF FlushResolve, history
    <3> QED
      BY <3>1, QueueFrame DEF history, Reports!vars
  <2>2. CASE ~(registered \/ f = "final")
    <3>1. /\ fpc[f] \in Active /\ Requeue(f)
          /\ UNCHANGED <<registered, accepted, delivered>>
      BY <1>3, <2>2 DEF FlushResolve
    <3>2. hand[f] \in Seq(Event)
      BY DEF DataInv, DataType
    <3>3. 0 \in 0 .. Len(hand[f]) /\ delivered' = delivered \cup Elems(SubSeq(hand[f], 1, 0))
      <4>1. SubSeq(hand[f], 1, 0) = <<>>
        BY SubSeqEmpty
      <4>2. Elems(<<>>) = {}
        BY EmptySeq DEF Elems
      <4>3. 0 \in 0 .. Len(hand[f])
        BY <3>2
      <4> QED
        BY <3>1, <4>1, <4>2, <4>3, Zenon
    <3>4. QueueInv' /\ Reports!Fail(0) /\ 0 \in 0 .. Len(Outstanding(hand, buf))
      BY <3>1, <3>3, RequeueIsFail, Reception
    <3> QED
      BY <3>4 DEF Reports!Next
  <2> QED
    BY <2>1, <2>2
<1>4. CASE FlushSent(f)
  BY <1>4, SentIsAcknowledge DEF Reports!Next
<1>5. CASE FlushFailed(f)
  <2>1. /\ fpc[f] \in Active /\ UNCHANGED <<registered, accepted>>
        /\ delivered' \in {delivered, delivered \cup Elems(Sending(f))}
    BY <1>5 DEF FlushFailed
  <2>2. hand[f] \in Seq(Event)
    BY DEF DataInv, DataType
  <2>3. PICK n \in 0 .. Len(hand[f]) :
           delivered' = delivered \cup Elems(SubSeq(hand[f], 1, n))
    BY <2>1, <2>2, SomeReceived
  <2>4. n \in 0 .. Len(Outstanding(hand, buf))
    BY <2>1, <2>3, Reception
  <2>5. CASE UNCHANGED <<buf, hand, lost>>
    <3>1. QueueInv' /\ Reports!Fail(n)
      BY <2>1, <2>3, <2>5, AgainIsFail
    <3> QED
      BY <2>4, <3>1 DEF Reports!Next
  <2>6. CASE Undelivered(f)
    <3>1. CASE f # "final"
      <4>1. QueueInv' /\ Reports!Fail(n)
        BY <2>1, <2>3, <2>6, <3>1, RequeueIsFail DEF Undelivered, Nonfinal
      <4> QED
        BY <2>4, <4>1 DEF Reports!Next
    <3>2. CASE f = "final"
      <4>1. QueueInv' /\ Reports!Abandon(n)
        BY <2>1, <2>3, <2>6, <3>2, AbandonIsAbandon DEF Undelivered, Nonfinal
      <4> QED
        BY <2>4, <4>1 DEF Reports!Next
    <3> QED
      BY <3>1, <3>2
  <2> QED
    BY <1>5, <2>5, <2>6 DEF FlushFailed
<1> QED
  BY <1>1, <1>2, <1>3, <1>4, <1>5 DEF FlushStep

LEMMA QueueStep ==
    ASSUME FlushInv, DataInv, QueueInv, [Next]_vars
    PROVE  QueueInv' /\ [Reports!Next]_(Reports!vars)
<1>1. ASSUME UNCHANGED <<registered, buf, hand, history>>
      PROVE  QueueInv' /\ [Reports!Next]_(Reports!vars)
  BY <1>1, QueueFrame DEF history, Reports!vars
<1>2. CASE UNCHANGED vars
  BY <1>1, <1>2 DEF vars, flushVars
<1>3. ASSUME NEW e \in Event, RecordStep(e)
      PROVE  QueueInv' /\ [Reports!Next]_(Reports!vars)
  <2>1. CASE RecordAppend(e)
    BY <2>1, AppendIsRecord DEF Reports!Next
  <2>2. CASE RecordLookup(e) \/ RecordClosed(e) \/ RecordClosing(e)
    BY <1>1, <2>2 DEF RecordLookup, RecordClosed, RecordClosing, flushVars
  <2> QED
    BY <1>3, <2>1, <2>2 DEF RecordStep
<1>4. ASSUME NEW f \in Flusher, FlushStep(f)
      PROVE  QueueInv' /\ [Reports!Next]_(Reports!vars)
  BY <1>4, FlushInductive, FlushIsQueue
<1>5. CASE Unregister
  <2>1. UNCHANGED <<buf, hand, history>> /\ registered /\ registered' = FALSE
    BY <1>5 DEF Unregister, flushVars
  <2>2. QueueInv' /\ Outstanding(hand, buf)' = Outstanding(hand, buf)
    BY <2>1, QueueFrame
  <2> QED
    BY <2>1, <2>2 DEF history, Reports!Next, Reports!Unregister
<1>6. CASE FinalEnd
  <2>1. buf = <<>>
    BY <1>6 DEF FinalEnd, DataInv, HandsEmpty
  <2> QED
    BY <1>1, <1>6, <2>1 DEF FinalEnd, flushVars
<1>7. CASE LoopTick \/ FinalBegin \/ Close \/ CloseFlush \/ CloseEnd
  BY <1>1, <1>7 DEF LoopTick, FinalBegin, Close, CloseFlush, CloseEnd, flushVars
<1> QED
  BY <1>2, <1>3, <1>4, <1>5, <1>6, <1>7 DEF Next

LEMMA QueueInit == Init => QueueInv /\ Reports!Init
<1> SUFFICES ASSUME Init PROVE QueueInv /\ Reports!Init
  OBVIOUS
<1>1. /\ registered = TRUE /\ buf = <<>> /\ hand = [f \in Flusher |-> <<>>]
      /\ accepted = <<>> /\ delivered = {} /\ lost = {}
  BY DEF Init
<1>2. Len(<<>>) <= MaxBuf
  BY EmptySeq, BoundAssumption
<1>3. Outstanding(hand, buf) = <<>>
  BY <1>1 DEF Outstanding
<1> QED
  BY <1>1, <1>2, <1>3 DEF QueueInv, Reports!Init

\* The meter implements the queue: the events of a session are received in the
\* order they were recorded, at least once, and none is done with before its
\* report is acknowledged; they are shed only when more than a buffer of them
\* wait and counted then, two buffers are the most that wait, and only a session
\* that is gone has its events given up - whatever fails, and however workers,
\* ticker, final flush and shutdown interleave.
THEOREM MeterIsAQueue == Spec => QueueSpec
<1>1. Init => FlushInv /\ DataInv /\ QueueInv /\ Reports!Init
  BY FlushInit, DataInit, QueueInit
<1>2. FlushInv /\ DataInv /\ QueueInv /\ [Next]_vars =>
         (FlushInv /\ DataInv /\ QueueInv)' /\ [Reports!Next]_(Reports!vars)
  BY FlushInductive, DataInductive, QueueStep
<1> QED
  BY <1>1, <1>2, PTL DEF Spec, QueueSpec, Reports!Spec

=============================================================================
