----------------------------- MODULE TimersProofs -----------------------------
(***************************************************************************)
(* Theorems about the queue of signal edges and the timers it drives, for  *)
(* every queue size, time bound, set of routes and sequence of host calls. *)
(* Those about the queue do not depend on what the counters do with edges  *)
(* and cycles; those about Timer 2 and Timer 0 rest on them.  The last part*)
(* is about the counters alone: counting n ticks at once equals counting   *)
(* them one at a time, for registers of any size.                          *)
(***************************************************************************)
EXTENDS Timers, CounterLockstep, Remainders, SequenceTheorems, FiniteSetTheorems, TLAPS

------------------------------------------------------------------------------
\* The queue

\* Removing entry i keeps every other entry where it is, except that the last
\* one takes the place of entry i.
LEMMA RemoveProperties ==
    ASSUME events \in Seq(Edge), NEW i \in 1..Len(events)
    PROVE  /\ Remove(i) \in Seq(Edge)
           /\ Len(Remove(i)) = Len(events) - 1
           /\ \A j \in 1..(Len(events) - 1) :
                 Remove(i)[j] = IF j = i THEN events[Len(events)] ELSE events[j]
  <1> DEFINE n == Len(events)
             filled == [events EXCEPT ![i] = events[n]]
  <1>1. n \in Nat /\ n > 0 /\ events[n] \in Edge
    BY LenProperties, ElementOfSeq
  <1>2. /\ filled \in Seq(Edge) /\ Len(filled) = n
        /\ \A j \in 1..n : filled[j] = IF j = i THEN events[n] ELSE events[j]
    BY <1>1, ExceptSeq
  <1> HIDE DEF filled
  <1>3. /\ SubSeq(filled, 1, n - 1) \in Seq(Edge)
        /\ Len(SubSeq(filled, 1, n - 1)) = n - 1
        /\ \A j \in 1..(n - 1) : SubSeq(filled, 1, n - 1)[j] = filled[j]
    BY <1>1, <1>2, SubSeqProperties
  <1>4. Remove(i) = SubSeq(filled, 1, n - 1)
    BY DEF Remove, filled
  <1>5. QED
    BY <1>1, <1>2, <1>3, <1>4

\* As long as the edges have distinct ids, removing entry i takes exactly its
\* edge out of the set of queued edges, and the ids stay distinct.
LEMMA RemoveTakesOne ==
    ASSUME events \in Seq(Edge), NEW i \in 1..Len(events),
           \A j, k \in 1..Len(events) : events[j].id = events[k].id => j = k,
           events' = Remove(i)
    PROVE  /\ Queued' = Queued \ {events[i]}
           /\ \A j, k \in 1..Len(events') : events'[j].id = events'[k].id => j = k
  <1> DEFINE n == Len(events)
             from(j) == IF j = i THEN n ELSE j
  <1>1. n \in Nat /\ n > 0 /\ Len(events') = n - 1
    BY RemoveProperties, LenProperties
  <1>2. \A j \in 1..(n - 1) : from(j) \in (1..n) \ {i} /\ events'[j] = events[from(j)]
    BY <1>1, RemoveProperties
  <1>3. \A k \in (1..n) \ {i} : \E j \in 1..(n - 1) : from(j) = k
    <2> TAKE k \in (1..n) \ {i}
    <2>1. CASE k = n
      <3>1. i \in 1..(n - 1) /\ from(i) = k
        BY <1>1, <2>1
      <3>2. QED
        BY <3>1
    <2>2. CASE k # n
      <3>1. k \in 1..(n - 1) /\ from(k) = k
        BY <1>1, <2>2
      <3>2. QED
        BY <3>1
    <2>3. QED
      BY <2>1, <2>2
  <1>4. \A j, k \in 1..(n - 1) : from(j) = from(k) => j = k
    BY <1>1
  <1> HIDE DEF from
  <1>5. Queued' = {events'[j] : j \in 1..(n - 1)}
    BY <1>1 DEF Queued
  <1>6. Queued' = {events[k] : k \in (1..n) \ {i}}
    <2> DEFINE filled == {events'[j] : j \in 1..(n - 1)}
               others == {events[k] : k \in (1..n) \ {i}}
    <2>1. filled \subseteq others
      BY <1>2
    <2>2. others \subseteq filled
      <3> SUFFICES ASSUME NEW k \in (1..n) \ {i}
                   PROVE  events[k] \in filled
        OBVIOUS
      <3>1. PICK j \in 1..(n - 1) : from(j) = k
        BY <1>3
      <3>2. events'[j] = events[k]
        BY <1>2, <3>1
      <3>3. QED
        BY <3>2
    <2>3. Queued' = filled
      BY <1>5
    <2> HIDE DEF filled, others
    <2>4. Queued' = others
      BY <2>1, <2>2, <2>3
    <2>5. QED
      BY <2>4 DEF others
  <1>7. {events[k] : k \in (1..n) \ {i}} = Queued \ {events[i]}
    BY DEF Queued
  <1>8. \A j, k \in 1..(n - 1) : events'[j].id = events'[k].id => j = k
    BY <1>2, <1>4
  <1>9. QED
    BY <1>1, <1>6, <1>7, <1>8

\* Appending an edge adds it to the set of queued edges.
LEMMA AppendAddsOne ==
    ASSUME events \in Seq(Edge), NEW e \in Edge, events' = Append(events, e)
    PROVE  /\ events' \in Seq(Edge)
           /\ Len(events') = Len(events) + 1
           /\ \A i \in 1..Len(events) : events'[i] = events[i]
           /\ events'[Len(events) + 1] = e
           /\ Queued' = Queued \cup {e}
  <1>1. /\ events' \in Seq(Edge)
        /\ Len(events') = Len(events) + 1
        /\ \A i \in 1..Len(events) : events'[i] = events[i]
        /\ events'[Len(events) + 1] = e
    BY AppendProperties
  <1>2. Len(events) \in Nat
    BY LenProperties
  <1>3. 1..(Len(events) + 1) = (1..Len(events)) \cup {Len(events) + 1}
    BY <1>2
  <1>4. Queued' = {events'[i] : i \in (1..Len(events)) \cup {Len(events) + 1}}
    BY <1>1, <1>3 DEF Queued
  <1>5. QED
    BY <1>1, <1>4 DEF Queued

------------------------------------------------------------------------------
\* What the calls that touch the queue preserve

QueueTyped ==
    /\ cycles_total \in 0..MaxTime
    /\ events \in Seq(Edge) /\ Len(events) <= MaxEvents
    /\ serial \in 0..MaxEdges
    /\ done \in SUBSET Edge

QueueInv == QueueTyped /\ NoStaleEvent /\ NoEdgeLost

TimelineStep == [Timeline!Next]_(Timeline!vars)

\* Emitting an edge queues it at the present or in the future, or, when the
\* queue is full, leaves the queue alone.
LEMMA EmitSound ==
    ASSUME QueueInv, NEW signal \in Signals, NEW edge \in Polarities,
           NEW ts \in 0..MaxTime, Emit(signal, edge, ts)
    PROVE  QueueInv' /\ TimelineStep
  <1>1. CASE Full
    <2>1. UNCHANGED <<cycles_total, events, serial, done>>
      BY <1>1 DEF Emit, queue
    <2>2. QED
      BY <2>1 DEF QueueInv, QueueTyped, NoStaleEvent, NoEdgeLost, Queued, Ids,
                  TimelineStep, Timeline!vars
  <1>2. CASE ~Full
    <2> DEFINE e == [id |-> serial, ts |-> NotBefore(ts), signal |-> signal, edge |-> edge]
    <2>1. /\ serial < MaxEdges /\ serial' = serial + 1
          /\ events' = Append(events, e)
          /\ UNCHANGED <<cycles_total, done>>
      BY <1>2 DEF Emit
    <2>2. e \in Edge /\ e.ts >= cycles_total /\ e.id = serial
      BY <2>1, TimersAssumption DEF QueueInv, QueueTyped, Edge, NotBefore, Later
    <2> HIDE DEF e
    <2>3. events \in Seq(Edge) /\ Len(events) \in Nat
      BY LenProperties DEF QueueInv, QueueTyped
    <2>4. /\ events' \in Seq(Edge)
          /\ Len(events') = Len(events) + 1
          /\ \A i \in 1..Len(events) : events'[i] = events[i]
          /\ events'[Len(events) + 1] = e
          /\ Queued' = Queued \cup {e}
      BY <2>1, <2>2, <2>3, AppendAddsOne
    <2>5. QueueTyped'
      BY <1>2, <2>1, <2>3, <2>4, TimersAssumption DEF QueueInv, QueueTyped, Full
    <2>6. NoStaleEvent'
      BY <2>1, <2>2, <2>3, <2>4 DEF QueueInv, NoStaleEvent
    <2>7. \A i \in 1..Len(events) : events[i].id \in 0..(serial - 1)
      BY DEF QueueInv, NoEdgeLost, Queued, Ids
    <2>8. \A f \in done : f.id \in 0..(serial - 1)
      BY DEF QueueInv, NoEdgeLost, Ids
    <2>9. NoEdgeLost'
      <3>1. \A i, j \in 1..Len(events') : events'[i].id = events'[j].id => i = j
        <4> DEFINE n == Len(events)
        <4>1. \A i \in 1..n : events'[i].id \in 0..(serial - 1)
          BY <2>4, <2>7
        <4>2. serial \in Nat /\ events'[n + 1].id = serial
          BY <2>2, <2>4, TimersAssumption DEF QueueInv, QueueTyped
        <4>3. \A i, j \in 1..n : events'[i].id = events'[j].id => i = j
          BY <2>4 DEF QueueInv, NoEdgeLost
        <4>4. \A i \in 1..n : events'[i].id # events'[n + 1].id
          BY <4>1, <4>2
        <4>5. 1..Len(events') = (1..n) \cup {n + 1}
          BY <2>3, <2>4
        <4>6. QED
          BY <4>3, <4>4, <4>5
      <3>2. Ids(Queued)' = Ids(Queued) \cup {serial}
        BY <2>2, <2>4 DEF Ids
      <3>3. Ids(done)' = Ids(done)
        BY <2>1 DEF Ids
      <3>4. serial \notin Ids(done)
        BY <2>1, <2>8, TimersAssumption DEF QueueInv, QueueTyped, Ids
      <3>5. Ids(Queued \cup done)' = Ids(Queued \cup done) \cup {serial}
        BY <2>1, <2>2, <2>4 DEF Ids
      <3>6. 0..(serial' - 1) = (0..(serial - 1)) \cup {serial}
        BY <2>1, TimersAssumption DEF QueueInv, QueueTyped
      <3>7. QED
        BY <3>1, <3>2, <3>3, <3>4, <3>5, <3>6 DEF QueueInv, NoEdgeLost
    <2>10. e \notin Queued \cup done
      BY <2>1, <2>2, <2>7, <2>8, TimersAssumption DEF QueueInv, QueueTyped, Queued
    <2>11. Timeline!Queue
      BY <2>1, <2>2, <2>4, <2>10 DEF Timeline!Queue
    <2>12. QED
      BY <2>5, <2>6, <2>9, <2>11 DEF QueueInv, TimelineStep, Timeline!Next
  <1>3. QED
    BY <1>1, <1>2

\* An edge that a tick dispatches acts at its stamp, and none was due before.
LEMMA TickEdgeSound ==
    ASSUME QueueInv, target \in 0..MaxTime \cup {NoTick}, TickEdge
    PROVE  QueueInv' /\ TimelineStep
  <1>1. target \in 0..MaxTime
    BY DEF TickEdge
  <1>2. PICK i \in 1..Len(events) :
            /\ NextDue(i, target)
            /\ events' = Remove(i)
            /\ cycles_total' = Later(cycles_total, events[i].ts)
            /\ done' = done \cup {events[i]}
            /\ serial' = serial
    BY DEF TickEdge
  <1> DEFINE e == events[i]
  <1>3. /\ events \in Seq(Edge) /\ Len(events) \in Nat
        /\ \A j \in 1..Len(events) : events[j] \in Edge /\ events[j].ts \in 0..MaxTime
    BY LenProperties, ElementOfSeq DEF QueueInv, QueueTyped, Edge
  <1>4. e \in Edge /\ e.ts >= cycles_total /\ cycles_total' = e.ts
    BY <1>2, <1>3, TimersAssumption DEF QueueInv, QueueTyped, NoStaleEvent, Later
  <1>5. \A j \in 1..Len(events) : e.ts <= events[j].ts
    BY <1>1, <1>2, <1>3, TimersAssumption DEF NextDue, Due
  <1>6. /\ events' \in Seq(Edge) /\ Len(events') = Len(events) - 1
        /\ \A j \in 1..(Len(events) - 1) :
              events'[j] = IF j = i THEN events[Len(events)] ELSE events[j]
    BY <1>2, <1>3, RemoveProperties
  <1>7. /\ Queued' = Queued \ {e}
        /\ \A j, k \in 1..Len(events') : events'[j].id = events'[k].id => j = k
    BY <1>2, <1>3, RemoveTakesOne DEF QueueInv, NoEdgeLost
  <1> HIDE DEF e
  <1>8. QueueTyped'
    BY <1>2, <1>3, <1>4, <1>6, TimersAssumption DEF QueueInv, QueueTyped, e
  <1>9. NoStaleEvent'
    BY <1>3, <1>4, <1>5, <1>6 DEF NoStaleEvent
  <1>10. e \in Queued
    BY DEF Queued, e
  <1>11. \A f \in Queued : f.id = e.id => f = e
    BY DEF QueueInv, NoEdgeLost, Queued, e
  <1>12. NoEdgeLost'
    <2>1. Queued' \cup done' = Queued \cup done
      BY <1>2, <1>7, <1>10 DEF e
    <2>2. Ids(Queued \cup done)' = Ids(Queued \cup done)
      BY <2>1 DEF Ids
    <2>3. Ids(Queued)' \cap Ids(done)' = {}
      <3>1. Ids(done)' = Ids(done) \cup {e.id}
        BY <1>2 DEF Ids, e
      <3>2. Ids(Queued)' \subseteq Ids(Queued)
        BY <1>7 DEF Ids
      <3>3. e.id \notin Ids(Queued)'
        BY <1>7, <1>11 DEF Ids
      <3>4. QED
        BY <3>1, <3>2, <3>3 DEF QueueInv, NoEdgeLost
    <2>4. QED
      BY <1>2, <1>7, <2>2, <2>3 DEF QueueInv, NoEdgeLost
  <1>13. Timeline!Act
    <2>1. \A f \in Queued : e.ts <= f.ts
      BY <1>5 DEF Queued
    <2>2. QED
      BY <1>2, <1>4, <1>7, <1>10, <2>1 DEF Timeline!Act, e
  <1>14. QED
    BY <1>8, <1>9, <1>12, <1>13 DEF QueueInv, TimelineStep, Timeline!Next

\* The end of a tick moves time past no queued edge.
LEMMA TickEndSound ==
    ASSUME QueueInv, target \in 0..MaxTime \cup {NoTick}, TickEnd
    PROVE  QueueInv' /\ TimelineStep
  <1>1. /\ target \in 0..MaxTime /\ Due(target) = {}
        /\ cycles_total' = Later(cycles_total, target)
        /\ UNCHANGED <<events, serial, done>>
    BY DEF TickEnd
  <1>2. \A i \in 1..Len(events) : events[i].ts \in 0..MaxTime
    <2>1. events \in Seq(Edge)
      BY DEF QueueInv, QueueTyped
    <2>2. \A i \in 1..Len(events) : events[i] \in Edge
      BY <2>1, ElementOfSeq
    <2>3. QED
      BY <2>2 DEF Edge
  <1>3. \A i \in 1..Len(events) : events[i].ts > target
    BY <1>1, <1>2, TimersAssumption DEF Due
  <1>4. QueueTyped'
    BY <1>1, TimersAssumption DEF QueueInv, QueueTyped, Later
  <1>5. NoStaleEvent'
    BY <1>1, <1>2, <1>3, TimersAssumption DEF QueueInv, NoStaleEvent, Later
  <1>6. Queued' = Queued /\ NoEdgeLost'
    BY <1>1 DEF QueueInv, NoEdgeLost, Queued, Ids
  <1>7. TimelineStep
    <2>1. CASE target <= cycles_total
      BY <1>1, <1>6, <2>1, TimersAssumption
         DEF QueueInv, QueueTyped, Later, TimelineStep, Timeline!vars
    <2>2. CASE target > cycles_total
      <3>1. cycles_total' = target /\ cycles_total' > cycles_total
        BY <1>1, <2>2, TimersAssumption DEF QueueInv, QueueTyped, Later
      <3>2. \A e \in Queued : e.ts > cycles_total'
        BY <1>3, <3>1 DEF Queued
      <3>3. QED
        BY <1>1, <1>6, <3>1, <3>2 DEF TimelineStep, Timeline!Next, Timeline!Advance
    <2>3. QED
      BY <1>1, <2>1, <2>2, TimersAssumption DEF QueueInv, QueueTyped
  <1>8. QED
    BY <1>4, <1>5, <1>6, <1>7 DEF QueueInv

------------------------------------------------------------------------------
\* The rest of the state

ConfigTyped ==
    /\ routes \in [Inputs -> Route \cup {NoRoute}]
    /\ known \subseteq Inputs /\ levels \subseteq Inputs
    /\ profile \in {"strict", "pragmatic"}
    /\ target \in 0..MaxTime \cup {NoTick}

TimersInv == QueueInv /\ ConfigTyped

\* The initial state has an empty queue, no routes and no edges.
LEMMA InitSound == Init => TimersInv /\ Timeline!Init
  <1> SUFFICES ASSUME Init PROVE TimersInv /\ Timeline!Init
    OBVIOUS
  <1>1. events = <<>> /\ Len(events) = 0 /\ events \in Seq(Edge) /\ Queued = {}
    BY EmptySeq DEF Init, Queued
  <1>2. QueueInv
    BY <1>1, TimersAssumption DEF Init, QueueInv, QueueTyped, NoStaleEvent, NoEdgeLost, Ids
  <1>3. ConfigTyped
    BY DEF Init, ConfigTyped
  <1>4. Timeline!Init
    BY <1>1 DEF Init, Timeline!Init
  <1>5. QED
    BY <1>2, <1>3, <1>4 DEF TimersInv

\* A step that leaves queue, time and history alone keeps the queue invariant
\* and is no step of the timeline.
LEMMA QueueUntouched ==
    ASSUME QueueInv, UNCHANGED queue
    PROVE  QueueInv' /\ TimelineStep
  <1>1. UNCHANGED <<cycles_total, events, serial, done>>
    BY DEF queue
  <1>2. QED
    BY <1>1 DEF QueueInv, QueueTyped, NoStaleEvent, NoEdgeLost, Queued, Ids,
                TimelineStep, Timeline!vars

\* Every step keeps the invariant and is a step of the timeline or none at all.
LEMMA StepSound ==
    ASSUME TimersInv, [Next]_vars
    PROVE  TimersInv' /\ TimelineStep
  <1>1. QueueInv /\ ConfigTyped
    BY DEF TimersInv
  <1>2. CASE TickBegin
    <2>1. target' \in 0..MaxTime
      BY <1>1, <1>2, TimersAssumption DEF TickBegin, QueueInv, QueueTyped
    <2>2. ConfigTyped'
      BY <1>1, <1>2, <2>1 DEF TickBegin, ConfigTyped, inputs
    <2>3. UNCHANGED queue
      BY <1>2 DEF TickBegin
    <2>4. QED
      BY <1>1, <2>2, <2>3, QueueUntouched DEF TimersInv
  <1>3. CASE TickEdge
    <2>1. ConfigTyped'
      BY <1>1, <1>3 DEF TickEdge, ConfigTyped, inputs
    <2>2. QED
      BY <1>1, <1>3, <2>1, TickEdgeSound DEF TimersInv, ConfigTyped
  <1>4. CASE TickEnd
    <2>1. ConfigTyped'
      BY <1>1, <1>4 DEF TickEnd, ConfigTyped, inputs
    <2>2. QED
      BY <1>1, <1>4, <2>1, TickEndSound DEF TimersInv, ConfigTyped
  <1>5. CASE EmitEdge
    <2>1. PICK k \in Emits, ts \in 0..MaxTime : Emit(k.signal, k.edge, ts)
      BY <1>5 DEF EmitEdge
    <2>2. k.signal \in Signals /\ k.edge \in Polarities
      BY HostAssumption
    <2>3. ConfigTyped'
      BY <1>1, <1>5 DEF EmitEdge, ConfigTyped, inputs
    <2>4. QED
      BY <1>1, <2>1, <2>2, <2>3, EmitSound DEF TimersInv
  <1>6. CASE InputSample
    <2>1. PICK i \in Inputs, high \in BOOLEAN, ts \in 0..MaxTime :
              LET prev == i \in levels
                  edge == IF prev THEN "falling" ELSE "rising"
              IN  /\ known' = known \cup {i}
                  /\ levels' = IF high THEN levels \cup {i} ELSE levels \ {i}
                  /\ IF i \in known /\ prev # high /\ routes[i].enabled
                        /\ routes[i].edge = edge
                     THEN Emit(routes[i].signal, edge, ts)
                     ELSE UNCHANGED queue
      BY <1>6 DEF InputSample
    <2>2. UNCHANGED <<routes, profile, target>>
      BY <1>6 DEF InputSample
    <2>3. ConfigTyped'
      BY <1>1, <2>1, <2>2 DEF ConfigTyped
    <2> DEFINE edge == IF i \in levels THEN "falling" ELSE "rising"
    <2>4. edge \in Polarities /\ routes[i].signal \in Signals
      BY <1>1 DEF ConfigTyped, Route, NoRoute, Signals, Clocks, Polarities
    <2>5. Emit(routes[i].signal, edge, ts) \/ UNCHANGED queue
      BY <2>1
    <2> HIDE DEF edge
    <2>6. QueueInv' /\ TimelineStep
      BY <1>1, <2>4, <2>5, EmitSound, QueueUntouched
    <2>7. QED
      BY <2>3, <2>6 DEF TimersInv
  <1>7. CASE RouteInput
    <2>1. ConfigTyped'
      BY <1>1, <1>7, HostAssumption DEF RouteInput, ConfigTyped
    <2>2. UNCHANGED queue
      BY <1>7 DEF RouteInput
    <2>3. QED
      BY <1>1, <2>1, <2>2, QueueUntouched DEF TimersInv
  <1>8. CASE Pulse
    <2>1. ConfigTyped' /\ UNCHANGED queue
      BY <1>1, <1>8 DEF Pulse, ConfigTyped, inputs
    <2>2. QED
      BY <1>1, <2>1, QueueUntouched DEF TimersInv
  <1>9. CASE SetProfile
    <2>1. ConfigTyped' /\ UNCHANGED queue
      BY <1>1, <1>9 DEF SetProfile, ConfigTyped, inputs
    <2>2. QED
      BY <1>1, <2>1, QueueUntouched DEF TimersInv
  <1>10. CASE WriteRegisters
    <2>1. ConfigTyped' /\ UNCHANGED queue
      BY <1>1, <1>10 DEF WriteRegisters, ConfigTyped, inputs
    <2>2. QED
      BY <1>1, <2>1, QueueUntouched DEF TimersInv
  <1>11. CASE UNCHANGED vars
    <2>1. ConfigTyped' /\ UNCHANGED queue
      BY <1>1, <1>11 DEF vars, ConfigTyped, queue
    <2>2. QED
      BY <1>1, <2>1, QueueUntouched DEF TimersInv
  <1>12. QED
    BY <1>2, <1>3, <1>4, <1>5, <1>6, <1>7, <1>8, <1>9, <1>10, <1>11
       DEF Next, Tick, Host

\* The invariant holds in every reachable state.
LEMMA TimersInvariant == Spec => []TimersInv
  <1>1. Init => TimersInv
    BY InitSound
  <1>2. TimersInv /\ [Next]_vars => TimersInv'
    BY StepSound
  <1>3. QED
    BY <1>1, <1>2, PTL DEF Spec

------------------------------------------------------------------------------
\* The theorems

\* The time base, the routing and the queue keep their types, and the queue its
\* bound, whatever the host samples, routes and emits.
THEOREM TypeCorrect == Spec => []TypeOK
  <1>1. TimersInv => TypeOK
    BY DEF TimersInv, QueueInv, QueueTyped, ConfigTyped, TypeOK
  <1>2. QED
    BY <1>1, TimersInvariant, PTL

\* Emulated time never passes a queued edge, also for edges stamped in the past
\* and while timers_tick works through the queue.
THEOREM NoStaleEventCorrect == Spec => []NoStaleEvent
  <1>1. TimersInv => NoStaleEvent
    BY DEF TimersInv, QueueInv
  <1>2. QED
    BY <1>1, TimersInvariant, PTL

\* Removing due entries from the middle of the array, the last entry filling the
\* gap, loses no edge and dispatches none twice.
THEOREM NoEdgeLostCorrect == Spec => []NoEdgeLost
  <1>1. TimersInv => NoEdgeLost
    BY DEF TimersInv, QueueInv
  <1>2. QED
    BY <1>1, TimersInvariant, PTL

\* The queue and the loop of timers_tick implement the timeline: edges act in the
\* order of their stamps, each exactly at its stamp.
THEOREM TimelineImplemented == Spec => ImplementsTimeline
  <1>1. Init => Timeline!Init
    BY InitSound
  <1>2. TimersInv /\ [Next]_vars => [Timeline!Next]_(Timeline!vars)
    BY StepSound DEF TimelineStep
  <1>3. QED
    BY <1>1, <1>2, TimersInvariant, PTL DEF Spec, ImplementsTimeline, Timeline!Spec

------------------------------------------------------------------------------
\* Timer 2

Timer2 == [val : 0..(Pair - 1), rcap : 0..(Pair - 1), tf2 : BOOLEAN, exf2 : BOOLEAN,
           tr2 : BOOLEAN, ct2 : BOOLEAN, exen2 : BOOLEAN, cprl2 : BOOLEAN, baud : BOOLEAN]

Controls2(t) == <<t.tr2, t.ct2, t.exen2, t.cprl2, t.baud>>
Free2(t) == t.tr2 /\ ~t.ct2 /\ t.cprl2 /\ t.exen2 /\ ~t.baud

\* The registers firmware has Timer 2 in: a record among those of sfr.
HasTimer2 == "t2" \in DOMAIN sfr /\ sfr.t2 \in Timer2

\* The sums of 32 bits wrap at a multiple of the 16-bit pair.
LEMMA PairType == Pair \in Nat \ {0}
BY CountersAssumption DEF Pair

\* What a register pair keeps of a number.
LEMMA PairWrap ==
    \A x \in Int : /\ x % Pair \in 0..(Pair - 1)
                   /\ x \in 0..(Pair - 1) => x % Pair = x
<1> TAKE x \in Int
<1> QED
  BY PairType, Wrap

LEMMA SetTimer2 ==
    ASSUME NEW t \in Timer2, NEW r,
           r = [t EXCEPT !.val = r.val, !.rcap = r.rcap, !.tf2 = r.tf2, !.exf2 = r.exf2],
           r.val \in 0..(Pair - 1), r.rcap \in 0..(Pair - 1),
           r.tf2 \in BOOLEAN, r.exf2 \in BOOLEAN
    PROVE  r \in Timer2 /\ Controls2(r) = Controls2(t)
BY DEF Timer2, Controls2

\* Counting keeps Timer 2 in its ranges, and its controls.
LEMMA CountKeepsTimer2 ==
    ASSUME NEW t \in Timer2, NEW n \in Nat, NEW p, Word % Pair = 0, Word # 0
    PROVE  LET r == CountTimer2(t, n, p)
           IN  /\ r \in Timer2 /\ Controls2(r) = Controls2(t) /\ r.rcap = t.rcap
               /\ t.cprl2 => r.val = (t.val + n) % Pair
<1> DEFINE r == CountTimer2(t, n, p)
<1>0. /\ Pair \in Nat \ {0} /\ Word \in Nat \ {0}
      /\ t.val \in 0..(Pair - 1) /\ t.rcap \in 0..(Pair - 1)
      /\ t.tf2 \in BOOLEAN /\ t.exf2 \in BOOLEAN /\ t.cprl2 \in BOOLEAN
  BY PairType, CountersAssumption DEF Timer2
<1>1. CASE n = 0
  <2>1. r = t
    BY <1>1 DEF CountTimer2
  <2>2. t.val \in Int /\ t.val + n = t.val
    BY <1>0, <1>1
  <2>3. t.val % Pair = t.val
    BY <1>0, <2>2, PairWrap
  <2> QED
    BY <2>1, <2>2, <2>3
<1>2. CASE n > 0 /\ t.cprl2
  <2> DEFINE v == ((t.val + n) % Word) % Pair
             f == t.tf2 \/ (SetsTf2(t, p) /\ (t.val + n) % Word >= Pair)
  <2>1. r = [t EXCEPT !.val = v, !.tf2 = f]
    BY <1>2 DEF CountTimer2, Timer2
  <2>2. t.val + n \in Nat
    BY <1>0
  <2>3. v = (t.val + n) % Pair
    BY <1>0, <2>2, RemainderOfMultiple
  <2> HIDE DEF v
  <2>4. v \in 0..(Pair - 1)
    BY <2>2, <2>3, PairWrap
  <2>5. f \in BOOLEAN
    BY <1>0 DEF SetsTf2
  <2> HIDE DEF f
  <2>6. r.val = v /\ r.tf2 = f /\ r.rcap = t.rcap /\ r.exf2 = t.exf2
    BY <2>1 DEF Timer2
  <2>7. r = [t EXCEPT !.val = r.val, !.rcap = r.rcap, !.tf2 = r.tf2, !.exf2 = r.exf2]
    BY <2>1, <2>6 DEF Timer2
  <2> HIDE DEF r
  <2>8. /\ r.val \in 0..(Pair - 1) /\ r.rcap \in 0..(Pair - 1)
        /\ r.tf2 \in BOOLEAN /\ r.exf2 \in BOOLEAN
    BY <1>0, <2>4, <2>5, <2>6
  <2>9. r \in Timer2 /\ Controls2(r) = Controls2(t)
    BY <2>7, <2>8, SetTimer2
  <2> QED
    BY <2>3, <2>6, <2>9 DEF r
<1>3. CASE n > 0 /\ ~t.cprl2 /\ n < Pair - t.val
  <2>1. r = [t EXCEPT !.val = t.val + n]
    <3>1. ~(n = 0) /\ ~(n > 0 /\ t.cprl2) /\ n < Pair - t.val
      BY <1>3
    <3> QED
      BY <1>0, <3>1, <1>3 DEF CountTimer2
  <2>2. t.val + n \in 0..(Pair - 1)
    BY <1>0, <1>3
  <2> HIDE DEF r
  <2>3. r.val = t.val + n /\ r.tf2 = t.tf2 /\ r.rcap = t.rcap /\ r.exf2 = t.exf2
    BY <2>1 DEF Timer2
  <2>4. r = [t EXCEPT !.val = r.val, !.rcap = r.rcap, !.tf2 = r.tf2, !.exf2 = r.exf2]
    BY <2>1, <2>3 DEF Timer2
  <2>5. /\ r.val \in 0..(Pair - 1) /\ r.rcap \in 0..(Pair - 1)
        /\ r.tf2 \in BOOLEAN /\ r.exf2 \in BOOLEAN
    BY <1>0, <2>2, <2>3
  <2>6. r \in Timer2 /\ Controls2(r) = Controls2(t)
    BY <2>4, <2>5, SetTimer2
  <2> QED
    BY <1>3, <2>3, <2>6 DEF r
<1>4. CASE n > 0 /\ ~t.cprl2 /\ n >= Pair - t.val
  <2> DEFINE v == t.rcap + ((n - (Pair - t.val)) % (Pair - t.rcap))
             f == t.tf2 \/ SetsTf2(t, p)
  <2>1. r = [t EXCEPT !.val = v, !.tf2 = f]
    <3>1. /\ ~(n = 0) /\ ~(n > 0 /\ t.cprl2)
          /\ ~(n > 0 /\ ~t.cprl2 /\ n < Pair - t.val)
      BY <1>0, <1>4
    <3> HIDE DEF v
    <3>2. r = [t EXCEPT !.val = v, !.tf2 = t.tf2 \/ SetsTf2(t, p)]
      BY <1>4, <3>1 DEF CountTimer2, v
    <3> QED
      BY <3>2
  <2>2. v \in 0..(Pair - 1)
    <3> DEFINE m == Pair - t.rcap
               x == n - (Pair - t.val)
    <3>1. m \in Nat \ {0} /\ x \in Int
      BY <1>0
    <3> HIDE DEF x, m
    <3>2. x % m \in 0..(m - 1)
      BY <3>1, Wrap
    <3>3. m = Pair - t.rcap
      BY DEF m
    <3>4. t.rcap + (x % m) \in 0..(Pair - 1)
      BY <1>0, <3>1, <3>2, <3>3
    <3> QED
      BY <3>4 DEF x, m
  <2>3. f \in BOOLEAN
    BY <1>0 DEF SetsTf2
  <2> HIDE DEF v, f, r
  <2>4. r.val = v /\ r.tf2 = f /\ r.rcap = t.rcap /\ r.exf2 = t.exf2
    BY <2>1 DEF Timer2
  <2>5. r = [t EXCEPT !.val = r.val, !.rcap = r.rcap, !.tf2 = r.tf2, !.exf2 = r.exf2]
    BY <2>1, <2>4 DEF Timer2
  <2>6. /\ r.val \in 0..(Pair - 1) /\ r.rcap \in 0..(Pair - 1)
        /\ r.tf2 \in BOOLEAN /\ r.exf2 \in BOOLEAN
    BY <1>0, <2>2, <2>3, <2>4
  <2>7. r \in Timer2 /\ Controls2(r) = Controls2(t)
    BY <2>5, <2>6, SetTimer2
  <2> QED
    BY <1>4, <2>4, <2>7 DEF r
<1> QED
  <2>1. n = 0 \/ n > 0
    OBVIOUS
  <2>2. n < Pair - t.val \/ n >= Pair - t.val
    BY <1>0
  <2> QED
    BY <1>0, <1>1, <1>2, <1>3, <1>4, <2>1, <2>2

\* An edge on T2EX captures a free-running count, and leaves it alone.
LEMMA EventKeepsTimer2 ==
    ASSUME NEW t \in Timer2, NEW p
    PROVE  LET r == ExternalEvent(t, p)
           IN  /\ r \in Timer2 /\ Controls2(r) = Controls2(t)
               /\ Free2(t) => r.val = t.val /\ r.rcap = t.val
<1> DEFINE r == ExternalEvent(t, p)
<1>0. /\ t.val \in 0..(Pair - 1) /\ t.rcap \in 0..(Pair - 1)
      /\ t.tf2 \in BOOLEAN /\ t.exf2 \in BOOLEAN
  BY DEF Timer2
<1>1. \/ r = t /\ ~Free2(t)
      \/ r = [t EXCEPT !.rcap = t.val, !.exf2 = TRUE] /\ t.cprl2
      \/ r = [t EXCEPT !.val = t.rcap, !.exf2 = TRUE] /\ ~Free2(t)
  BY DEF ExternalEvent, Free2
<1> HIDE DEF r
<1>2. CASE r = t /\ ~Free2(t)
  BY <1>2 DEF r
<1>3. CASE r = [t EXCEPT !.rcap = t.val, !.exf2 = TRUE] /\ t.cprl2
  <2>1. r.val = t.val /\ r.tf2 = t.tf2 /\ r.rcap = t.val /\ r.exf2 = TRUE
    BY <1>3 DEF Timer2
  <2>2. r = [t EXCEPT !.val = r.val, !.rcap = r.rcap, !.tf2 = r.tf2, !.exf2 = r.exf2]
    BY <1>3, <2>1 DEF Timer2
  <2>3. r \in Timer2 /\ Controls2(r) = Controls2(t)
    BY <1>0, <2>1, <2>2, SetTimer2
  <2> QED
    BY <2>1, <2>3 DEF r
<1>4. CASE r = [t EXCEPT !.val = t.rcap, !.exf2 = TRUE] /\ ~Free2(t)
  <2>1. r.val = t.rcap /\ r.tf2 = t.tf2 /\ r.rcap = t.rcap /\ r.exf2 = TRUE
    BY <1>4 DEF Timer2
  <2>2. r = [t EXCEPT !.val = r.val, !.rcap = r.rcap, !.tf2 = r.tf2, !.exf2 = r.exf2]
    BY <1>4, <2>1 DEF Timer2
  <2>3. r \in Timer2 /\ Controls2(r) = Controls2(t)
    BY <1>0, <2>1, <2>2, SetTimer2
  <2> QED
    BY <1>4, <2>3 DEF r
<1> QED
  BY <1>1, <1>2, <1>3, <1>4
\* The steps of the other timers pass Timer 2 by.
LEMMA OthersKeepTimer2 ==
    ASSUME NEW s, "t2" \in DOMAIN s, NEW n, NEW clk
    PROVE  /\ "t2" \in DOMAIN Clock0(s, n, clk) /\ Clock0(s, n, clk).t2 = s.t2
           /\ "t2" \in DOMAIN Clock1(s, n, clk) /\ Clock1(s, n, clk).t2 = s.t2
<1>1. "t2" \in DOMAIN Clock0(s, n, clk) /\ Clock0(s, n, clk).t2 = s.t2
  BY DEF Clock0
<1>2. "t2" \in DOMAIN Clock1(s, n, clk) /\ Clock1(s, n, clk).t2 = s.t2
  BY DEF Clock1
<1> QED
  BY <1>1, <1>2

LEMMA SameControls ==
    ASSUME NEW r, NEW t, Controls2(r) = Controls2(t)
    PROVE  Free2(r) = Free2(t)
BY DEF Controls2, Free2

\* A step of Timer 2 on the clock it is not set to leaves it alone.
LEMMA ClockTimer2 ==
    ASSUME NEW s, "t2" \in DOMAIN s, s.t2 \in Timer2, NEW n \in Nat, NEW clk \in BOOLEAN,
           Word % Pair = 0
    PROVE  LET r == Clock2(s, n, clk)
           IN  /\ "t2" \in DOMAIN r /\ r.t2 \in Timer2 /\ Controls2(r.t2) = Controls2(s.t2)
               /\ r.t2.rcap = s.t2.rcap
               /\ Free2(s.t2) => r.t2.val = IF clk THEN s.t2.val ELSE (s.t2.val + n) % Pair
<1> DEFINE r == Clock2(s, n, clk)
           t == CountTimer2(s.t2, n, profile)
<1>1. Word # 0
  BY CountersAssumption DEF Pair
<1>2. /\ t \in Timer2 /\ Controls2(t) = Controls2(s.t2) /\ t.rcap = s.t2.rcap
      /\ s.t2.cprl2 => t.val = (s.t2.val + n) % Pair
  BY <1>1, CountKeepsTimer2
<1>3. CASE ~s.t2.tr2 \/ s.t2.ct2 # clk
  <2>1. r = s
    BY <1>3 DEF Clock2
  <2>2. Free2(s.t2) => clk
    BY <1>3 DEF Free2, Timer2
  <2> QED
    BY <2>1, <2>2
<1>4. CASE ~(~s.t2.tr2 \/ s.t2.ct2 # clk)
  <2>1. r = [s EXCEPT !.t2 = t]
    BY <1>4 DEF Clock2
  <2>2. "t2" \in DOMAIN r /\ r.t2 = t
    BY <2>1
  <2>3. Free2(s.t2) => ~clk /\ s.t2.cprl2
    BY <1>4 DEF Free2
  <2> HIDE DEF r, t
  <2> QED
    BY <1>2, <2>2, <2>3 DEF r
<1> QED
  BY <1>3, <1>4

\* The cycles of a tick move a free-running Timer 2 by just as many counts.
LEMMA AdvanceTimer2 ==
    ASSUME NEW s, "t2" \in DOMAIN s, s.t2 \in Timer2, NEW n \in Nat, Word % Pair = 0
    PROVE  LET r == Advance(s, n)
           IN  /\ "t2" \in DOMAIN r /\ r.t2 \in Timer2 /\ Controls2(r.t2) = Controls2(s.t2)
               /\ r.t2.rcap = s.t2.rcap
               /\ Free2(s.t2) => r.t2.val = (s.t2.val + n) % Pair
<1> DEFINE a == Clock0(s, n, FALSE)
           b == Clock1(a, n, FALSE)
           c == Clock2(b, n, FALSE)
<1>1. "t2" \in DOMAIN a /\ a.t2 = s.t2
  BY OthersKeepTimer2
<1> HIDE DEF a
<1>2. "t2" \in DOMAIN b /\ b.t2 = s.t2
  BY <1>1, OthersKeepTimer2
<1> HIDE DEF b
<1>3. /\ "t2" \in DOMAIN c /\ c.t2 \in Timer2 /\ Controls2(c.t2) = Controls2(s.t2)
      /\ c.t2.rcap = s.t2.rcap
      /\ Free2(s.t2) => c.t2.val = (s.t2.val + n) % Pair
  <2>1. /\ "t2" \in DOMAIN c /\ c.t2 \in Timer2 /\ Controls2(c.t2) = Controls2(b.t2)
        /\ c.t2.rcap = b.t2.rcap
        /\ Free2(b.t2) => c.t2.val = (b.t2.val + n) % Pair
    BY <1>2, ClockTimer2
  <2> HIDE DEF c
  <2> QED
    BY <1>2, <2>1
<1> HIDE DEF c
<1>4. CASE n = 0
  <2>1. s.t2.val \in 0..(Pair - 1)
    BY DEF Timer2
  <2>2. (s.t2.val + n) % Pair = s.t2.val
    BY <1>4, <2>1, PairType, PairWrap
  <2>3. Advance(s, n) = s
    BY <1>4 DEF Advance
  <2> QED
    BY <2>2, <2>3
<1>5. CASE n # 0
  <2>1. Advance(s, n) = c
    BY <1>5 DEF Advance, a, b, c
  <2> QED
    BY <1>3, <2>1
<1> QED
  BY <1>4, <1>5

\* Of the edges, only one on T2EX touches a free-running Timer 2: it captures.
LEMMA DispatchTimer2 ==
    ASSUME NEW s, "t2" \in DOMAIN s, s.t2 \in Timer2, NEW e \in Edge, Word % Pair = 0
    PROVE  LET r == Dispatch(s, e)
           IN  /\ "t2" \in DOMAIN r /\ r.t2 \in Timer2 /\ Controls2(r.t2) = Controls2(s.t2)
               /\ Free2(s.t2) =>
                     /\ r.t2.val = s.t2.val
                     /\ r.t2.rcap = IF e.signal = "T2_EX" THEN s.t2.val ELSE s.t2.rcap
<1> DEFINE r == Dispatch(s, e)
           t == ExternalEvent(s.t2, profile)
<1>0. e.signal \in Signals
  BY DEF Edge
<1>1. CASE e.signal = "T2_EX"
  <2>1. /\ t \in Timer2 /\ Controls2(t) = Controls2(s.t2)
        /\ Free2(s.t2) => t.val = s.t2.val /\ t.rcap = s.t2.val
    BY EventKeepsTimer2
  <2> HIDE DEF t
  <2>2. r = [s EXCEPT !.t2 = t]
    BY <1>1 DEF Dispatch, t
  <2>3. "t2" \in DOMAIN r /\ r.t2 = t
    BY <2>2
  <2> HIDE DEF r
  <2> QED
    BY <1>1, <2>1, <2>3 DEF r
<1>2. CASE e.signal \in {"T0_CLK", "T1_CLK"}
  <2> DEFINE a == Clock0(s, 1, TRUE)
             b == Clock1(s, 1, TRUE)
  <2>1. r = a \/ r = b
    BY <1>2 DEF Dispatch, ClockBy
  <2>2. /\ "t2" \in DOMAIN a /\ a.t2 = s.t2
        /\ "t2" \in DOMAIN b /\ b.t2 = s.t2
    BY OthersKeepTimer2
  <2> HIDE DEF a, b, r
  <2>3. "t2" \in DOMAIN r /\ r.t2 = s.t2
    BY <2>1, <2>2
  <2> QED
    BY <1>2, <2>3 DEF r
<1>3. CASE e.signal = "T2_CLK"
  <2>1. r = Clock2(s, 1, TRUE)
    BY <1>3 DEF Dispatch, ClockBy
  <2> DEFINE c == Clock2(s, 1, TRUE)
  <2>2. /\ "t2" \in DOMAIN c /\ c.t2 \in Timer2 /\ Controls2(c.t2) = Controls2(s.t2)
        /\ c.t2.rcap = s.t2.rcap
        /\ Free2(s.t2) => c.t2.val = s.t2.val
    BY ClockTimer2
  <2> HIDE DEF r, c
  <2>5. r = c
    BY <2>1 DEF c
  <2> QED
    BY <1>3, <2>2, <2>5 DEF r
<1> QED
  BY <1>0, <1>1, <1>2, <1>3 DEF Signals, Clocks

\* The stamp of an edge no other edge is later than.
LEMMA LastStampIs ==
    ASSUME NEW S, NEW e \in S, \A d \in S : d.ts \in Nat /\ d.ts <= e.ts
    PROVE  LastStamp(S) = e.ts
<1> DEFINE T == {d.ts : d \in S}
           latest(x) == \A d \in S : d.ts <= x
<1>1. e.ts \in T /\ latest(e.ts)
  OBVIOUS
<1>2. \A x \in T : latest(x) => x = e.ts
  OBVIOUS
<1>3. LastStamp(S) = CHOOSE x \in T : latest(x)
  BY DEF LastStamp
<1>4. LastStamp(S) \in T /\ latest(LastStamp(S))
  BY <1>1, <1>3
<1> QED
  BY <1>2, <1>4
\* While nobody rewrites Timer 2, it keeps its type, and if it runs freely its
\* count is the emulated time and its capture the stamp of the last T2EX edge.
CaptureInv ==
    LeftAlone("t2", "T2_CLK") =>
        /\ HasTimer2
        /\ \A d \in done : d.ts <= cycles_total
        /\ Free2(sfr.t2) =>
              /\ sfr.t2.val = cycles_total % Pair
              /\ Done("T2_EX") # {} => sfr.t2.rcap = LastStamp(Done("T2_EX")) % Pair

\* The sums of 32 bits wrap at a multiple of the pair, and firmware starts a
\* free-running Timer 2 at the emulated time, at 0.
Timer2Boots ==
    /\ Word % Pair = 0
    /\ \A s \in Boots : /\ "t2" \in DOMAIN s /\ s.t2 \in Timer2
                        /\ Free2(s.t2) => s.t2.val = 0

LEMMA CaptureInit == Timer2Boots /\ Init => CaptureInv
<1> SUFFICES ASSUME Timer2Boots, Init PROVE CaptureInv
  OBVIOUS
<1>1. HasTimer2 /\ (Free2(sfr.t2) => sfr.t2.val = 0)
  BY DEF Timer2Boots, Init, HasTimer2
<1>2. cycles_total % Pair = 0
  <2>1. cycles_total = 0 /\ 0 \in 0..(Pair - 1)
    BY PairType DEF Init
  <2> QED
    BY <2>1, PairWrap
<1>3. done = {} /\ Done("T2_EX") = {}
  BY DEF Init, Done
<1> QED
  BY <1>1, <1>2, <1>3 DEF CaptureInv

\* Steps that leave Timer 2, the time and the edges that acted as they are.
LEMMA CaptureUntouched ==
    ASSUME CaptureInv, UNCHANGED <<cycles_total, done>>,
           LeftAlone("t2", "T2_CLK") /\ "t2" \in DOMAIN sfr =>
               "t2" \in DOMAIN sfr' /\ sfr'.t2 = sfr.t2
    PROVE  CaptureInv'
<1> SUFFICES ASSUME LeftAlone("t2", "T2_CLK")
             PROVE  CaptureInv'
  BY DEF CaptureInv
<1>1. "t2" \in DOMAIN sfr' /\ sfr'.t2 = sfr.t2
  BY DEF CaptureInv, HasTimer2
<1> QED
  BY <1>1 DEF CaptureInv, HasTimer2, Done

\* Moving on in time: the timers advance by the cycles that pass.
LEMMA CaptureAdvances ==
    ASSUME Timer2Boots, CaptureInv, LeftAlone("t2", "T2_CLK"),
           cycles_total \in Nat, NEW now \in Nat, now >= cycles_total
    PROVE  LET r == Advance(sfr, now - cycles_total)
           IN  /\ "t2" \in DOMAIN r /\ r.t2 \in Timer2
               /\ Free2(r.t2) = Free2(sfr.t2)
               /\ r.t2.rcap = sfr.t2.rcap
               /\ Free2(sfr.t2) => r.t2.val = now % Pair
<1> DEFINE n == now - cycles_total
           r == Advance(sfr, n)
<1>1. n \in Nat /\ cycles_total + n = now
  OBVIOUS
<1>2. "t2" \in DOMAIN sfr /\ sfr.t2 \in Timer2 /\ Word % Pair = 0
  BY DEF CaptureInv, HasTimer2, Timer2Boots
<1> HIDE DEF n
<1>3. /\ "t2" \in DOMAIN r /\ r.t2 \in Timer2 /\ Controls2(r.t2) = Controls2(sfr.t2)
      /\ r.t2.rcap = sfr.t2.rcap
      /\ Free2(sfr.t2) => r.t2.val = (sfr.t2.val + n) % Pair
  BY <1>1, <1>2, AdvanceTimer2
<1>4. ((cycles_total % Pair) + n) % Pair = now % Pair
  BY <1>1, PairType, RemainderFirst
<1>5. Free2(sfr.t2) => sfr.t2.val = cycles_total % Pair
  BY DEF CaptureInv
<1> HIDE DEF r
<1>6. Free2(r.t2) = Free2(sfr.t2)
  BY <1>3, SameControls
<1>7. Free2(sfr.t2) => r.t2.val = now % Pair
  BY <1>3, <1>4, <1>5
<1> QED
  BY <1>3, <1>6, <1>7 DEF r, n

\* An edge acts: time moves to its stamp, which no edge before it exceeds.
LEMMA CaptureEdge ==
    ASSUME Timer2Boots, TimersInv, CaptureInv, TickEdge, LeftAlone("t2", "T2_CLK")
    PROVE  CaptureInv'
<1>1. PICK i \in 1..Len(events) :
        LET e == events[i]
            now == Later(cycles_total, e.ts)
        IN  /\ cycles_total' = now
            /\ sfr' = CatchUp(sfr, now - cycles_total, e)
            /\ done' = done \cup {e}
  BY DEF TickEdge
<1> DEFINE e == events[i]
           a == Advance(sfr, e.ts - cycles_total)
<1>2. e \in Edge /\ cycles_total \in Nat /\ e.ts \in Nat /\ e.ts >= cycles_total
  <2>1. e \in Edge /\ cycles_total \in 0..MaxTime
    BY ElementOfSeq DEF TimersInv, QueueInv, QueueTyped
  <2>2. e.ts >= cycles_total
    BY DEF TimersInv, QueueInv, NoStaleEvent
  <2> HIDE DEF e
  <2>3. e.ts \in 0..MaxTime
    BY <2>1 DEF Edge
  <2> QED
    BY <2>1, <2>2, <2>3, TimersAssumption
<1>3. cycles_total' = e.ts /\ done' = done \cup {e} /\ sfr' = Dispatch(a, e)
  <2>1. Later(cycles_total, e.ts) = e.ts
    BY <1>2 DEF Later
  <2> QED
    BY <1>1, <2>1 DEF CatchUp
<1> HIDE DEF e
<1>4. /\ "t2" \in DOMAIN a /\ a.t2 \in Timer2
      /\ Free2(a.t2) = Free2(sfr.t2)
      /\ a.t2.rcap = sfr.t2.rcap
      /\ Free2(sfr.t2) => a.t2.val = e.ts % Pair
  BY <1>2, CaptureAdvances
<1> HIDE DEF a
<1>5. /\ "t2" \in DOMAIN sfr' /\ sfr'.t2 \in Timer2
      /\ Controls2(sfr'.t2) = Controls2(a.t2)
      /\ Free2(a.t2) =>
            /\ sfr'.t2.val = a.t2.val
            /\ sfr'.t2.rcap = IF e.signal = "T2_EX" THEN a.t2.val ELSE a.t2.rcap
  <2> DEFINE r == Dispatch(a, e)
  <2>1. /\ "t2" \in DOMAIN r /\ r.t2 \in Timer2 /\ Controls2(r.t2) = Controls2(a.t2)
        /\ Free2(a.t2) =>
              /\ r.t2.val = a.t2.val
              /\ r.t2.rcap = IF e.signal = "T2_EX" THEN a.t2.val ELSE a.t2.rcap
    BY <1>2, <1>4, DispatchTimer2 DEF Timer2Boots
  <2> HIDE DEF r
  <2>2. sfr' = r
    BY <1>3 DEF r
  <2> QED
    BY <2>1, <2>2
<1>6. Free2(sfr'.t2) = Free2(sfr.t2)
  BY <1>4, <1>5, SameControls
<1>7. \A d \in done' : d.ts \in Nat /\ d.ts <= e.ts
  <2>1. \A d \in done : d.ts \in Nat /\ d.ts <= cycles_total
    BY TimersAssumption DEF TimersInv, QueueInv, QueueTyped, Edge, CaptureInv
  <2> QED
    BY <1>2, <1>3, <2>1
<1>8. Free2(sfr'.t2) /\ (Done("T2_EX"))' # {}
          => sfr'.t2.rcap = (LastStamp(Done("T2_EX")))' % Pair
  <2>1. CASE e.signal = "T2_EX"
    <3> DEFINE S == (Done("T2_EX"))'
    <3>1. e \in S /\ S \subseteq done'
      BY <1>3, <2>1 DEF Done
    <3> HIDE DEF S
    <3>2. LastStamp(S) = e.ts
      BY <1>7, <3>1, LastStampIs
    <3>3. (LastStamp(Done("T2_EX")))' = LastStamp(S)
      BY DEF LastStamp, S
    <3>4. Free2(sfr'.t2) => sfr'.t2.rcap = e.ts % Pair
      BY <1>4, <1>5, <1>6, <2>1
    <3> QED
      BY <3>2, <3>3, <3>4
  <2>2. CASE e.signal # "T2_EX"
    <3>1. (Done("T2_EX"))' = Done("T2_EX")
      BY <1>3, <2>2 DEF Done
    <3>2. (LastStamp(Done("T2_EX")))' = LastStamp(Done("T2_EX"))
      BY <3>1 DEF LastStamp
    <3> QED
      BY <1>4, <1>5, <1>6, <2>2, <3>1, <3>2 DEF CaptureInv
  <2> QED
    BY <2>1, <2>2
<1>9. Free2(sfr'.t2) => sfr'.t2.val = cycles_total' % Pair
  BY <1>3, <1>4, <1>5, <1>6
<1> QED
  BY <1>3, <1>5, <1>7, <1>8, <1>9 DEF CaptureInv, HasTimer2

\* A tick ends: time moves to its target.
LEMMA CaptureEnd ==
    ASSUME Timer2Boots, TimersInv, CaptureInv, TickEnd, LeftAlone("t2", "T2_CLK")
    PROVE  CaptureInv'
<1> DEFINE now == Later(cycles_total, target)
           a == Advance(sfr, now - cycles_total)
<1>1. cycles_total \in Nat /\ target \in Nat
  BY TimersAssumption DEF TimersInv, QueueInv, QueueTyped, ConfigTyped, TickEnd
<1>2. now \in Nat /\ now >= cycles_total
  BY <1>1 DEF Later
<1>3. cycles_total' = now /\ sfr' = a /\ done' = done
  BY DEF TickEnd
<1> HIDE DEF now
<1>4. /\ "t2" \in DOMAIN a /\ a.t2 \in Timer2
      /\ Free2(a.t2) = Free2(sfr.t2)
      /\ a.t2.rcap = sfr.t2.rcap
      /\ Free2(sfr.t2) => a.t2.val = now % Pair
  BY <1>1, <1>2, CaptureAdvances
<1> HIDE DEF a
<1>5. \A d \in done' : d.ts <= cycles_total'
  <2>1. \A d \in done : d.ts \in Nat /\ d.ts <= cycles_total
    BY TimersAssumption DEF TimersInv, QueueInv, QueueTyped, Edge, CaptureInv
  <2> QED
    BY <1>1, <1>2, <1>3, <2>1
<1>6. (Done("T2_EX"))' = Done("T2_EX")
  BY <1>3 DEF Done
<1>7. (LastStamp(Done("T2_EX")))' = LastStamp(Done("T2_EX"))
  BY <1>6 DEF LastStamp
<1> QED
  BY <1>3, <1>4, <1>5, <1>6, <1>7 DEF CaptureInv, HasTimer2

LEMMA CaptureStep ==
    ASSUME Timer2Boots, TimersInv, CaptureInv, [Next]_vars
    PROVE  CaptureInv'
<1>1. CASE TickBegin
  BY <1>1, CaptureUntouched DEF TickBegin, queue
<1>2. CASE TickEdge
  BY <1>2, CaptureEdge DEF CaptureInv
<1>3. CASE TickEnd
  BY <1>3, CaptureEnd DEF CaptureInv
<1>4. CASE EmitEdge
  <2>1. UNCHANGED <<cycles_total, done, sfr>>
    BY <1>4 DEF EmitEdge, Emit, queue
  <2> QED
    BY <2>1, CaptureUntouched
<1>5. CASE InputSample
  <2>1. UNCHANGED <<cycles_total, done, sfr>>
    BY <1>5 DEF InputSample, Emit, queue
  <2> QED
    BY <2>1, CaptureUntouched
<1>6. CASE RouteInput
  BY <1>6, CaptureUntouched DEF RouteInput, queue
<1>7. CASE Pulse
  <2>1. PICK p \in Pulses : sfr' = ClockBy(p.signal, sfr, p.n)
    BY <1>7 DEF Pulse
  <2>2. p.signal \in Clocks
    BY HostAssumption
  <2>3. LeftAlone("t2", "T2_CLK") => p.signal # "T2_CLK"
    BY DEF LeftAlone
  <2>4. ASSUME LeftAlone("t2", "T2_CLK"), "t2" \in DOMAIN sfr
        PROVE  "t2" \in DOMAIN sfr' /\ sfr'.t2 = sfr.t2
    <3> DEFINE a == Clock0(sfr, p.n, TRUE)
               b == Clock1(sfr, p.n, TRUE)
    <3>1. sfr' = a \/ sfr' = b
      BY <2>1, <2>2, <2>3, <2>4 DEF ClockBy, Clocks
    <3>2. /\ "t2" \in DOMAIN a /\ a.t2 = sfr.t2
          /\ "t2" \in DOMAIN b /\ b.t2 = sfr.t2
      BY <2>4, OthersKeepTimer2
    <3> HIDE DEF a, b
    <3> QED
      BY <3>1, <3>2
  <2>5. UNCHANGED <<cycles_total, done>>
    BY <1>7 DEF Pulse, queue
  <2> QED
    BY <2>4, <2>5, CaptureUntouched
<1>8. CASE SetProfile
  BY <1>8, CaptureUntouched DEF SetProfile, queue
<1>9. CASE WriteRegisters
  <2>1. PICK r \in Rewrites :
          sfr' = [f \in DOMAIN sfr |-> IF f \in DOMAIN r THEN r[f] ELSE sfr[f]]
    BY <1>9 DEF WriteRegisters
  <2>2. LeftAlone("t2", "T2_CLK") => "t2" \notin DOMAIN r
    BY DEF LeftAlone
  <2>3. LeftAlone("t2", "T2_CLK") /\ "t2" \in DOMAIN sfr =>
            "t2" \in DOMAIN sfr' /\ sfr'.t2 = sfr.t2
    BY <2>1, <2>2
  <2>4. UNCHANGED <<cycles_total, done>>
    BY <1>9 DEF WriteRegisters, queue
  <2> QED
    BY <2>3, <2>4, CaptureUntouched
<1>10. CASE UNCHANGED vars
  BY <1>10, CaptureUntouched DEF vars
<1> QED
  BY <1>1, <1>2, <1>3, <1>4, <1>5, <1>6, <1>7, <1>8, <1>9, <1>10
  DEF Next, Tick, Host

\* However cpu_run groups the cycles and wherever edges split them, a Timer 2
\* that runs freely counts emulated time and captures the stamp of the edge.
THEOREM CaptureIsExact == Timer2Boots /\ Spec => []CaptureExact
<1>1. Timer2Boots /\ Init => CaptureInv
  BY CaptureInit
<1>2. Timer2Boots /\ TimersInv /\ CaptureInv /\ [Next]_vars => CaptureInv'
  BY CaptureStep
<1>3. CaptureInv => CaptureExact
  BY DEF CaptureInv, CaptureExact, FreeRunning, Free2
<1>4. Timer2Boots => []Timer2Boots
  <2> SUFFICES ASSUME Timer2Boots PROVE []Timer2Boots
    OBVIOUS
  <2> QED
    BY PTL
<1> QED
  BY <1>1, <1>2, <1>3, <1>4, TimersInvariant, PTL DEF Spec
------------------------------------------------------------------------------
\* Timer 0

Shape0(t) == /\ DOMAIN t = {"tl", "th", "tf", "tr", "mode", "gate", "ct"}
             /\ t.mode \in 0..3
Controls0(t) == <<t.tr, t.mode, t.gate, t.ct>>
Counts0(t) == t.tr /\ t.ct /\ ~t.gate /\ t.mode = 1
Count0(t) == t.th * Byte + t.tl

HasTimer0(s) == "t0" \in DOMAIN s /\ Shape0(s.t0)
KeepsTimer0(s, r) == HasTimer0(r) /\ Controls0(r.t0) = Controls0(s.t0)

\* Counting keeps the controls, in every mode.
LEMMA IncKeepsTimer ==
    ASSUME NEW t, Shape0(t), NEW n \in Nat
    PROVE  Shape0(IncTimer(t, n)) /\ Controls0(IncTimer(t, n)) = Controls0(t)
<1>1. CASE t.mode = 0
  <2>1. IncTimer(t, n) = IncMode0(t, n)
    BY <1>1 DEF IncTimer
  <2> QED
    BY <2>1 DEF IncMode0, Shape0, Controls0
<1>2. CASE t.mode = 1
  <2>1. IncTimer(t, n) = IncMode1(t, n)
    BY <1>2 DEF IncTimer
  <2> QED
    BY <2>1 DEF IncMode1, Shape0, Controls0
<1>3. CASE t.mode = 2
  <2>1. IncTimer(t, n) = IncMode2(t, n)
    BY <1>3 DEF IncTimer
  <2> QED
    BY <2>1 DEF IncMode2, Shape0, Controls0
<1>4. CASE t.mode = 3
  <2>1. IncTimer(t, n) = IncMode3(t, n)
    BY <1>4 DEF IncTimer
  <2> QED
    BY <2>1 DEF IncMode3, Shape0, Controls0
<1> QED
  BY <1>1, <1>2, <1>3, <1>4 DEF Shape0

\* One count more of the 16-bit counter: the pair wraps as a whole, and its two
\* registers hold it between them.
LEMMA CountsOne ==
    ASSUME NEW t, Shape0(t), t.mode = 1, NEW c \in Nat,
           Count0(t) = c % Pair, Word % Pair = 0
    PROVE  Count0(IncTimer(t, 1)) = (c + 1) % Pair
<1> DEFINE new == ((Count0(t) + 1) % Word) % Pair
           r == IncTimer(t, 1)
<1>1. r.th = new \div Byte /\ r.tl = new % Byte
  <2>1. r = IncMode1(t, 1)
    BY DEF IncTimer
  <2> QED
    BY <2>1 DEF IncMode1, Shape0, Count0
<1>2. new = (c + 1) % Pair
  <2>1. Count0(t) \in 0..(Pair - 1)
    BY PairWrap
  <2>2. Count0(t) + 1 \in Nat
    BY <2>1, PairType
  <2>3. Word \in Nat \ {0}
    BY CountersAssumption DEF Pair
  <2>4. new = (Count0(t) + 1) % Pair
    BY <2>2, <2>3, PairType, RemainderOfMultiple
  <2>5. ((c % Pair) + 1) % Pair = (c + 1) % Pair
    BY PairType, RemainderFirst
  <2> QED
    BY <2>4, <2>5
<1>3. new \in Nat
  <2>1. (c + 1) % Pair \in 0..(Pair - 1)
    BY PairWrap
  <2> QED
    BY <1>2, <2>1, PairType
<1> HIDE DEF new, r
<1>4. /\ new \div Byte \in Nat /\ new % Byte \in Int
      /\ new = Byte * (new \div Byte) + (new % Byte)
  <2>1. Byte \in Nat \ {0}
    BY CountersAssumption
  <2>2. new \div Byte \in Nat /\ new = Byte * (new \div Byte) + (new % Byte)
    BY <1>3, <2>1, Quotient
  <2>3. new % Byte \in 0..(Byte - 1)
    BY <1>3, <2>1, Wrap
  <2> QED
    BY <2>1, <2>2, <2>3
<1>5. Count0(r) = new
  BY <1>1, <1>4, CountersAssumption DEF Count0
<1> QED
  BY <1>2, <1>5 DEF r

\* Only its own clock moves a Timer 0 that counts edges.
LEMMA ClocksOfTimer0 ==
    ASSUME NEW s, HasTimer0(s), NEW n \in Nat, NEW clk \in BOOLEAN
    PROVE  /\ KeepsTimer0(s, Clock0(s, n, clk))
           /\ KeepsTimer0(s, Clock1(s, n, clk))
           /\ KeepsTimer0(s, Clock2(s, n, clk))
           /\ Counts0(s.t0) =>
                 /\ Clock0(s, n, clk).t0 = IF clk THEN IncTimer(s.t0, n) ELSE s.t0
                 /\ Clock1(s, n, clk).t0 = s.t0
                 /\ Clock2(s, n, clk).t0 = s.t0
<1>1. /\ KeepsTimer0(s, Clock0(s, n, clk))
      /\ Counts0(s.t0) => Clock0(s, n, clk).t0 = IF clk THEN IncTimer(s.t0, n) ELSE s.t0
  <2> DEFINE t == IncTimer(s.t0, n)
             r == Clock0(s, n, clk)
  <2>1. Shape0(t) /\ Controls0(t) = Controls0(s.t0)
    BY IncKeepsTimer DEF HasTimer0
  <2>2. \/ r = s /\ (s.t0.ct # clk \/ ~Runs(s.t0, "INT0", s))
        \/ r = [s EXCEPT !.t0 = t] /\ s.t0.ct = clk
    BY DEF Clock0
  <2> HIDE DEF t, r
  <2>3. CASE r = s /\ (s.t0.ct # clk \/ ~Runs(s.t0, "INT0", s))
    BY <2>3 DEF KeepsTimer0, Counts0, Runs, r
  <2>4. CASE r = [s EXCEPT !.t0 = t] /\ s.t0.ct = clk
    <3>1. "t0" \in DOMAIN r /\ r.t0 = t
      BY <2>4 DEF HasTimer0
    <3> QED
      BY <2>1, <2>4, <3>1 DEF KeepsTimer0, HasTimer0, Counts0, r, t
  <2> QED
    BY <2>2, <2>3, <2>4
<1>2. /\ KeepsTimer0(s, Clock1(s, n, clk))
      /\ Counts0(s.t0) => Clock1(s, n, clk).t0 = s.t0
  <2> DEFINE r == Clock1(s, n, clk)
             x == Inc8(s.t0.th, n).val
  <2>1. \/ "t0" \in DOMAIN r /\ r.t0 = s.t0
        \/ "t0" \in DOMAIN r /\ r.t0 = [s.t0 EXCEPT !.th = x] /\ s.t0.mode = 3
    BY DEF Clock1, HasTimer0
  <2> HIDE DEF r, x
  <2>2. CASE "t0" \in DOMAIN r /\ r.t0 = s.t0
    BY <2>2 DEF KeepsTimer0, HasTimer0, r
  <2>3. CASE "t0" \in DOMAIN r /\ r.t0 = [s.t0 EXCEPT !.th = x] /\ s.t0.mode = 3
    <3>1. Shape0(r.t0) /\ Controls0(r.t0) = Controls0(s.t0) /\ ~Counts0(s.t0)
      BY <2>3 DEF HasTimer0, Shape0, Controls0, Counts0
    <3> QED
      BY <2>3, <3>1 DEF KeepsTimer0, HasTimer0, r
  <2> QED
    BY <2>1, <2>2, <2>3
<1>3. KeepsTimer0(s, Clock2(s, n, clk)) /\ Clock2(s, n, clk).t0 = s.t0
  <2>1. "t0" \in DOMAIN Clock2(s, n, clk) /\ Clock2(s, n, clk).t0 = s.t0
    BY DEF Clock2, HasTimer0
  <2> QED
    BY <2>1 DEF KeepsTimer0, HasTimer0
<1> QED
  BY <1>1, <1>2, <1>3

LEMMA SameCounting ==
    ASSUME NEW s, NEW r, KeepsTimer0(s, r)
    PROVE  Counts0(r.t0) = Counts0(s.t0)
BY DEF KeepsTimer0, Controls0, Counts0

\* Cycles leave a Timer 0 that counts edges alone.
LEMMA AdvanceTimer0 ==
    ASSUME NEW s, HasTimer0(s), NEW n \in Nat
    PROVE  /\ KeepsTimer0(s, Advance(s, n))
           /\ Counts0(s.t0) => Advance(s, n).t0 = s.t0
<1> DEFINE a == Clock0(s, n, FALSE)
           b == Clock1(a, n, FALSE)
           c == Clock2(b, n, FALSE)
<1>1. KeepsTimer0(s, a) /\ (Counts0(s.t0) => a.t0 = s.t0)
  BY ClocksOfTimer0
<1> HIDE DEF a
<1>2. KeepsTimer0(a, b) /\ (Counts0(a.t0) => b.t0 = a.t0)
  BY <1>1, ClocksOfTimer0 DEF KeepsTimer0
<1> HIDE DEF b
<1>3. KeepsTimer0(b, c) /\ (Counts0(b.t0) => c.t0 = b.t0)
  BY <1>2, ClocksOfTimer0 DEF KeepsTimer0
<1> HIDE DEF c
<1>4. KeepsTimer0(s, c) /\ (Counts0(s.t0) => c.t0 = s.t0)
  BY <1>1, <1>2, <1>3 DEF KeepsTimer0
<1>5. CASE n = 0
  BY <1>5 DEF Advance, KeepsTimer0
<1>6. CASE n # 0
  <2>1. Advance(s, n) = c
    BY <1>6 DEF Advance, a, b, c
  <2> QED
    BY <1>4, <2>1
<1> QED
  BY <1>5, <1>6

\* Of the edges, only those on T0 move it, by one count.
LEMMA DispatchTimer0 ==
    ASSUME NEW s, HasTimer0(s), NEW e \in Edge
    PROVE  /\ KeepsTimer0(s, Dispatch(s, e))
           /\ Counts0(s.t0) =>
                 Dispatch(s, e).t0 = IF e.signal = "T0_CLK" THEN IncTimer(s.t0, 1) ELSE s.t0
<1> DEFINE a == Clock0(s, 1, TRUE)
           b == Clock1(s, 1, TRUE)
           c == Clock2(s, 1, TRUE)
           r == Dispatch(s, e)
<1>0. e.signal \in Signals
  BY DEF Edge
<1>1. /\ KeepsTimer0(s, a) /\ KeepsTimer0(s, b) /\ KeepsTimer0(s, c)
      /\ Counts0(s.t0) => a.t0 = IncTimer(s.t0, 1) /\ b.t0 = s.t0 /\ c.t0 = s.t0
  <2>1. 1 \in Nat /\ TRUE \in BOOLEAN
    OBVIOUS
  <2>2. KeepsTimer0(s, a) /\ KeepsTimer0(s, b) /\ KeepsTimer0(s, c)
    BY <2>1, ClocksOfTimer0
  <2>3. Counts0(s.t0) => /\ a.t0 = IF TRUE THEN IncTimer(s.t0, 1) ELSE s.t0
                         /\ b.t0 = s.t0 /\ c.t0 = s.t0
    BY <2>1, ClocksOfTimer0, Zenon
  <2> HIDE DEF a, b, c
  <2> QED
    BY <2>2, <2>3
<1>2. CASE e.signal = "T2_EX"
  <2>1. "t0" \in DOMAIN r /\ r.t0 = s.t0
    BY <1>2 DEF Dispatch, HasTimer0
  <2> HIDE DEF r
  <2> QED
    BY <1>2, <2>1 DEF KeepsTimer0, HasTimer0, r
<1>3. CASE e.signal = "T0_CLK"
  <2>1. r = a
    BY <1>3 DEF Dispatch, ClockBy
  <2> HIDE DEF a, b, c, r
  <2> QED
    BY <1>1, <1>3, <2>1 DEF r
<1>4. CASE e.signal = "T1_CLK"
  <2>1. r = b
    BY <1>4 DEF Dispatch, ClockBy
  <2> HIDE DEF a, b, c, r
  <2> QED
    BY <1>1, <1>4, <2>1 DEF r
<1>5. CASE e.signal = "T2_CLK"
  <2>1. r = c
    BY <1>5 DEF Dispatch, ClockBy
  <2> HIDE DEF a, b, c, r
  <2> QED
    BY <1>1, <1>5, <2>1 DEF r
<1> QED
  BY <1>0, <1>2, <1>3, <1>4, <1>5 DEF Signals, Clocks
\* While nobody rewrites Timer 0 or pulses it, and it counts edges with 16 bits,
\* its count is the number of its edges that acted.
CountInv ==
    LeftAlone("t0", "T0_CLK") =>
        /\ HasTimer0(sfr)
        /\ IsFiniteSet(done)
        /\ Counts0(sfr.t0) => Count0(sfr.t0) = Cardinality(Done("T0_CLK")) % Pair

\* Firmware starts a Timer 0 that counts edges at 0.
Timer0Boots ==
    /\ Word % Pair = 0
    /\ \A s \in Boots : HasTimer0(s) /\ (Counts0(s.t0) => Count0(s.t0) = 0)

LEMMA CountInit == Timer0Boots /\ Init => CountInv
<1> SUFFICES ASSUME Timer0Boots, Init PROVE CountInv
  OBVIOUS
<1>1. HasTimer0(sfr) /\ (Counts0(sfr.t0) => Count0(sfr.t0) = 0)
  BY DEF Timer0Boots, Init
<1>2. IsFiniteSet(done) /\ Cardinality(Done("T0_CLK")) = 0
  <2>1. done = {} /\ Done("T0_CLK") = {}
    BY DEF Init, Done
  <2> QED
    BY <2>1, FS_EmptySet
<1>3. 0 % Pair = 0
  <2>1. 0 \in 0..(Pair - 1)
    BY PairType
  <2> QED
    BY <2>1, PairWrap
<1> QED
  BY <1>1, <1>2, <1>3 DEF CountInv

\* Steps by which no edge acts and that keep the controls and the count.
LEMMA CountUntouched ==
    ASSUME CountInv, done' = done,
           LeftAlone("t0", "T0_CLK") /\ HasTimer0(sfr) =>
               /\ KeepsTimer0(sfr, sfr')
               /\ Counts0(sfr.t0) => sfr'.t0 = sfr.t0
    PROVE  CountInv'
<1> SUFFICES ASSUME LeftAlone("t0", "T0_CLK")
             PROVE  CountInv'
  BY DEF CountInv
<1>1. KeepsTimer0(sfr, sfr') /\ (Counts0(sfr.t0) => sfr'.t0 = sfr.t0)
  BY DEF CountInv
<1>2. HasTimer0(sfr') /\ Counts0(sfr'.t0) = Counts0(sfr.t0)
  BY <1>1, SameCounting DEF KeepsTimer0
<1>3. Cardinality(Done("T0_CLK"))' = Cardinality(Done("T0_CLK"))
  BY DEF Done
<1> QED
  BY <1>1, <1>2, <1>3 DEF CountInv

\* An edge acts: one more edge on T0, one count more.
LEMMA CountEdge ==
    ASSUME Timer0Boots, TimersInv, CountInv, TickEdge, LeftAlone("t0", "T0_CLK")
    PROVE  CountInv'
<1>1. PICK i \in 1..Len(events) :
        LET e == events[i]
            now == Later(cycles_total, e.ts)
        IN  /\ sfr' = CatchUp(sfr, now - cycles_total, e)
            /\ done' = done \cup {e}
  BY DEF TickEdge
<1> DEFINE e == events[i]
           n == Later(cycles_total, e.ts) - cycles_total
           a == Advance(sfr, n)
<1>2. e \in Edge /\ e \notin done
  <2>1. e \in Edge /\ e \in Queued
    BY ElementOfSeq DEF TimersInv, QueueInv, QueueTyped, Queued
  <2>2. Ids(Queued) \cap Ids(done) = {}
    BY DEF TimersInv, QueueInv, NoEdgeLost
  <2> HIDE DEF e
  <2> QED
    BY <2>1, <2>2 DEF Ids
<1>3. n \in Nat
  <2> HIDE DEF e
  <2>1. e.ts \in Nat /\ cycles_total \in Nat
    BY <1>2, TimersAssumption DEF Edge, TimersInv, QueueInv, QueueTyped
  <2> QED
    BY <2>1 DEF Later
<1>4. done' = done \cup {e} /\ sfr' = Dispatch(a, e)
  BY <1>1 DEF CatchUp
<1> HIDE DEF e, n
<1>5. KeepsTimer0(sfr, a) /\ (Counts0(sfr.t0) => a.t0 = sfr.t0)
  BY <1>3, AdvanceTimer0 DEF CountInv
<1> HIDE DEF a
<1>6. /\ KeepsTimer0(a, sfr')
      /\ Counts0(a.t0) => sfr'.t0 = IF e.signal = "T0_CLK" THEN IncTimer(a.t0, 1) ELSE a.t0
  BY <1>2, <1>4, <1>5, DispatchTimer0 DEF KeepsTimer0
<1>7. /\ HasTimer0(sfr')
      /\ Counts0(sfr'.t0) = Counts0(sfr.t0) /\ Counts0(a.t0) = Counts0(sfr.t0)
  BY <1>5, <1>6, SameCounting DEF KeepsTimer0
<1>8. IsFiniteSet(done) /\ IsFiniteSet(done')
  BY <1>4, FS_AddElement DEF CountInv
<1>9. ASSUME Counts0(sfr.t0)
      PROVE  Count0(sfr'.t0) = Cardinality(Done("T0_CLK"))' % Pair
  <2> DEFINE D == Done("T0_CLK")
             c == Cardinality(D)
  <2>1. IsFiniteSet(D)
    <3>1. D \in SUBSET done
      BY DEF Done
    <3> QED
      BY <1>8, <3>1, FS_Subset
  <2>2. c \in Nat
    BY <2>1, FS_CardinalityType
  <2>3. Count0(sfr.t0) = c % Pair
    BY <1>9 DEF CountInv
  <2>4. CASE e.signal = "T0_CLK"
    <3>1. Done("T0_CLK")' = D \cup {e} /\ e \notin D
      BY <1>2, <1>4, <2>4 DEF Done
    <3>2. Cardinality(D \cup {e}) = c + 1
      BY <2>1, <3>1, FS_AddElement
    <3>3. sfr'.t0 = IncTimer(sfr.t0, 1)
      BY <1>5, <1>6, <1>7, <1>9, <2>4
    <3>4. Shape0(sfr.t0) /\ sfr.t0.mode = 1
      BY <1>9 DEF CountInv, HasTimer0, Counts0
    <3> HIDE DEF D, c
    <3>5. Count0(IncTimer(sfr.t0, 1)) = (c + 1) % Pair
      BY <2>2, <2>3, <3>4, CountsOne DEF Timer0Boots
    <3> QED
      BY <3>1, <3>2, <3>3, <3>5
  <2>5. CASE e.signal # "T0_CLK"
    <3>1. Done("T0_CLK")' = D
      BY <1>4, <2>5 DEF Done
    <3>2. sfr'.t0 = sfr.t0
      BY <1>5, <1>6, <1>7, <1>9, <2>5
    <3> QED
      BY <2>3, <3>1, <3>2
  <2> QED
    BY <2>4, <2>5
<1> QED
  BY <1>7, <1>8, <1>9 DEF CountInv

LEMMA CountStep ==
    ASSUME Timer0Boots, TimersInv, CountInv, [Next]_vars
    PROVE  CountInv'
<1>1. CASE TickBegin
  BY <1>1, CountUntouched DEF TickBegin, queue, KeepsTimer0
<1>2. CASE TickEdge
  BY <1>2, CountEdge DEF CountInv
<1>3. CASE TickEnd
  <2> DEFINE n == Later(cycles_total, target) - cycles_total
             a == Advance(sfr, n)
  <2>1. n \in Nat
    <3>1. cycles_total \in Nat /\ target \in Nat
      BY <1>3, TimersAssumption DEF TimersInv, QueueInv, QueueTyped, ConfigTyped, TickEnd
    <3> QED
      BY <3>1 DEF Later
  <2>2. sfr' = a /\ done' = done
    BY <1>3 DEF TickEnd
  <2> HIDE DEF n
  <2>3. HasTimer0(sfr) =>
            KeepsTimer0(sfr, a) /\ (Counts0(sfr.t0) => a.t0 = sfr.t0)
    BY <2>1, AdvanceTimer0
  <2> HIDE DEF a
  <2> QED
    BY <2>2, <2>3, CountUntouched
<1>4. CASE EmitEdge
  <2>1. UNCHANGED <<done, sfr>>
    BY <1>4 DEF EmitEdge, Emit, queue
  <2> QED
    BY <2>1, CountUntouched DEF KeepsTimer0
<1>5. CASE InputSample
  <2>1. UNCHANGED <<done, sfr>>
    BY <1>5 DEF InputSample, Emit, queue
  <2> QED
    BY <2>1, CountUntouched DEF KeepsTimer0
<1>6. CASE RouteInput
  BY <1>6, CountUntouched DEF RouteInput, queue, KeepsTimer0
<1>7. CASE Pulse
  <2>1. PICK p \in Pulses : sfr' = ClockBy(p.signal, sfr, p.n)
    BY <1>7 DEF Pulse
  <2>2. p.signal \in Clocks /\ p.n \in Nat
    BY HostAssumption
  <2>3. LeftAlone("t0", "T0_CLK") => p.signal # "T0_CLK"
    BY DEF LeftAlone
  <2>4. ASSUME LeftAlone("t0", "T0_CLK"), HasTimer0(sfr)
        PROVE  KeepsTimer0(sfr, sfr') /\ (Counts0(sfr.t0) => sfr'.t0 = sfr.t0)
    <3> DEFINE b == Clock1(sfr, p.n, TRUE)
               c == Clock2(sfr, p.n, TRUE)
    <3>1. sfr' = b \/ sfr' = c
      BY <2>1, <2>2, <2>3, <2>4 DEF ClockBy, Clocks
    <3>2. /\ KeepsTimer0(sfr, b) /\ (Counts0(sfr.t0) => b.t0 = sfr.t0)
          /\ KeepsTimer0(sfr, c) /\ (Counts0(sfr.t0) => c.t0 = sfr.t0)
      BY <2>2, <2>4, ClocksOfTimer0
    <3> HIDE DEF b, c
    <3> QED
      BY <3>1, <3>2
  <2>5. done' = done
    BY <1>7 DEF Pulse, queue
  <2> QED
    BY <2>4, <2>5, CountUntouched
<1>8. CASE SetProfile
  BY <1>8, CountUntouched DEF SetProfile, queue, KeepsTimer0
<1>9. CASE WriteRegisters
  <2>1. PICK r \in Rewrites :
          sfr' = [f \in DOMAIN sfr |-> IF f \in DOMAIN r THEN r[f] ELSE sfr[f]]
    BY <1>9 DEF WriteRegisters
  <2>2. LeftAlone("t0", "T0_CLK") => "t0" \notin DOMAIN r
    BY DEF LeftAlone
  <2>3. LeftAlone("t0", "T0_CLK") /\ HasTimer0(sfr) =>
            KeepsTimer0(sfr, sfr') /\ sfr'.t0 = sfr.t0
    BY <2>1, <2>2 DEF HasTimer0, KeepsTimer0
  <2>4. done' = done
    BY <1>9 DEF WriteRegisters, queue
  <2> QED
    BY <2>3, <2>4, CountUntouched
<1>10. CASE UNCHANGED vars
  BY <1>10, CountUntouched DEF vars, KeepsTimer0
<1> QED
  BY <1>1, <1>2, <1>3, <1>4, <1>5, <1>6, <1>7, <1>8, <1>9, <1>10
  DEF Next, Tick, Host

\* A Timer 0 that counts edges with 16 bits counts every edge that acted once,
\* also past the wrap of the pair.
THEOREM CountIsExact == Timer0Boots /\ Spec => []CountExact
<1>1. Timer0Boots /\ Init => CountInv
  BY CountInit
<1>2. Timer0Boots /\ TimersInv /\ CountInv /\ [Next]_vars => CountInv'
  BY CountStep
<1>3. CountInv => CountExact
  BY DEF CountInv, CountExact, CountsEdges, Counts0, Count0
<1>4. Timer0Boots => []Timer0Boots
  <2> SUFFICES ASSUME Timer0Boots PROVE []Timer0Boots
    OBVIOUS
  <2> QED
    BY PTL
<1> QED
  BY <1>1, <1>2, <1>3, <1>4, TimersInvariant, PTL DEF Spec

------------------------------------------------------------------------------
\* Registers and single ticks

Counter == [tl : 0..(Byte - 1), th : 0..(Byte - 1), tf : BOOLEAN, tr : BOOLEAN,
            mode : 0..3, gate : BOOLEAN, ct : BOOLEAN]

\* A counter with other registers and flag.
Registers(t, h, l, f) == [t EXCEPT !.th = h, !.tl = l, !.tf = f]

\* The sizes are positive numbers.
LEMMA PairIsNat == Byte \in Nat \ {0} /\ Low \in Nat \ {0} /\ Pair \in Nat \ {0} /\ Word \in Nat
                   /\ Pair = Byte * Byte
BY CountersAssumption DEF Pair

\* The registers so set read back, and the mode stays.
LEMMA RegistersFields ==
    ASSUME NEW t \in Counter, NEW h, NEW l, NEW f
    PROVE  /\ Registers(t, h, l, f).th = h
           /\ Registers(t, h, l, f).tl = l
           /\ Registers(t, h, l, f).tf = f
           /\ Registers(t, h, l, f).mode = t.mode
BY DEF Registers, Counter

\* What a tick does to them, by mode.
Carried(t, h, l, f) ==
    IF h = Byte - 1 THEN Registers(t, 0, l, TRUE) ELSE Registers(t, h + 1, l, f)

\* The carry into TH, in those terms.
LEMMA CarryRegisters ==
    ASSUME NEW t \in Counter, NEW h, NEW l, NEW f
    PROVE  Carry(Registers(t, h, l, f)) = Carried(t, h, l, f)
<1> DEFINE r == Registers(t, h, l, f)
<1>1. r.th = h
  BY RegistersFields
<1>2. [r EXCEPT !.th = 0, !.tf = TRUE] = Registers(t, 0, l, TRUE)
  BY DEF Registers, Counter
<1>3. [r EXCEPT !.th = r.th + 1] = Registers(t, h + 1, l, f)
  BY DEF Registers, Counter
<1> HIDE DEF r
<1>4. Carry(r) = Carried(t, h, l, f)
  BY <1>1, <1>2, <1>3 DEF Carry, Carried
<1> QED
  BY <1>4 DEF r

\* A single tick, in those terms: the 13-bit counter,
LEMMA TickMode0 ==
    ASSUME NEW t \in Counter, t.mode = 0, NEW h, NEW l, NEW f
    PROVE  TickOnce(Registers(t, h, l, f)) =
              IF l % Low = Low - 1 THEN Carried(t, h, l - (Low - 1), f)
              ELSE Registers(t, h, l + 1, f)
<1> DEFINE r == Registers(t, h, l, f)
<1>1. r.tl = l /\ r.mode = 0
  BY RegistersFields
<1>2. /\ [r EXCEPT !.tl = l + 1] = Registers(t, h, l + 1, f)
      /\ [r EXCEPT !.tl = l - (Low - 1)] = Registers(t, h, l - (Low - 1), f)
  BY DEF Registers, Counter
<1>3. Carry(Registers(t, h, l - (Low - 1), f)) = Carried(t, h, l - (Low - 1), f)
  BY CarryRegisters
<1> HIDE DEF r
<1>4. TickOnce(r) = IF l % Low = Low - 1 THEN Carry([r EXCEPT !.tl = l - (Low - 1)])
                    ELSE [r EXCEPT !.tl = l + 1]
  BY <1>1 DEF TickOnce
<1>5. TickOnce(r) = IF l % Low = Low - 1 THEN Carried(t, h, l - (Low - 1), f)
                    ELSE Registers(t, h, l + 1, f)
  BY <1>2, <1>3, <1>4
<1> QED
  BY <1>5 DEF r

\* the 16-bit counter,
LEMMA TickMode1 ==
    ASSUME NEW t \in Counter, t.mode = 1, NEW h, NEW l, NEW f
    PROVE  TickOnce(Registers(t, h, l, f)) =
              IF l = Byte - 1 THEN Carried(t, h, 0, f) ELSE Registers(t, h, l + 1, f)
<1> DEFINE r == Registers(t, h, l, f)
<1>1. r.tl = l /\ r.mode = 1
  BY RegistersFields
<1>2. /\ [r EXCEPT !.tl = l + 1] = Registers(t, h, l + 1, f)
      /\ [r EXCEPT !.tl = 0] = Registers(t, h, 0, f)
  BY DEF Registers, Counter
<1>3. Carry(Registers(t, h, 0, f)) = Carried(t, h, 0, f)
  BY CarryRegisters
<1> HIDE DEF r
<1>4. TickOnce(r) = IF l = Byte - 1 THEN Carry([r EXCEPT !.tl = 0])
                    ELSE [r EXCEPT !.tl = l + 1]
  BY <1>1 DEF TickOnce
<1>5. TickOnce(r) = IF l = Byte - 1 THEN Carried(t, h, 0, f) ELSE Registers(t, h, l + 1, f)
  BY <1>2, <1>3, <1>4
<1> QED
  BY <1>5 DEF r

\* the counter that reloads itself,
LEMMA TickMode2 ==
    ASSUME NEW t \in Counter, t.mode = 2, NEW h, NEW l, NEW f \in BOOLEAN
    PROVE  TickOnce(Registers(t, h, l, f)) =
              IF l = Byte - 1 THEN Registers(t, h, h, TRUE) ELSE Registers(t, h, l + 1, f)
<1> DEFINE r == Registers(t, h, l, f)
<1>1. r.tl = l /\ r.th = h /\ r.mode = 2
  BY RegistersFields
<1>2. /\ [r EXCEPT !.tl = l + 1] = Registers(t, h, l + 1, f)
      /\ [r EXCEPT !.tl = h, !.tf = TRUE] = Registers(t, h, h, TRUE)
  BY DEF Registers, Counter
<1> HIDE DEF r
<1>4. TickOnce(r) = IF l = Byte - 1 THEN [r EXCEPT !.tl = h, !.tf = TRUE]
                    ELSE [r EXCEPT !.tl = l + 1]
  BY <1>1 DEF TickOnce
<1>5. TickOnce(r) = IF l = Byte - 1 THEN Registers(t, h, h, TRUE) ELSE Registers(t, h, l + 1, f)
  BY <1>2, <1>4
<1> QED
  BY <1>5 DEF r

\* and the single 8-bit counter.
LEMMA TickMode3 ==
    ASSUME NEW t \in Counter, t.mode = 3, NEW h, NEW l, NEW f \in BOOLEAN
    PROVE  TickOnce(Registers(t, h, l, f)) =
              IF l = Byte - 1 THEN Registers(t, h, 0, TRUE) ELSE Registers(t, h, l + 1, f)
<1> DEFINE r == Registers(t, h, l, f)
<1>1. r.tl = l /\ r.mode = 3
  BY RegistersFields
<1>2. /\ [r EXCEPT !.tl = l + 1] = Registers(t, h, l + 1, f)
      /\ [r EXCEPT !.tl = 0, !.tf = TRUE] = Registers(t, h, 0, TRUE)
  BY DEF Registers, Counter
<1> HIDE DEF r
<1>4. TickOnce(r) = IF l = Byte - 1 THEN [r EXCEPT !.tl = 0, !.tf = TRUE]
                    ELSE [r EXCEPT !.tl = l + 1]
  BY <1>1 DEF TickOnce
<1>5. TickOnce(r) = IF l = Byte - 1 THEN Registers(t, h, 0, TRUE) ELSE Registers(t, h, l + 1, f)
  BY <1>2, <1>4
<1> QED
  BY <1>5 DEF r

------------------------------------------------------------------------------
\* Ticks at once

\* What counting n ticks at once leaves in the registers, by mode.
LEMMA IncRegisters ==
    ASSUME NEW t \in Counter, NEW n \in Nat, n + Pair <= Word
    PROVE  /\ t.mode = 0 => 
                LET x == t.th * Low + (t.tl % Low) + n
                    y == x % (Byte * Low)
                IN  IncTimer(t, n) = Registers(t, y \div Low, (t.tl - (t.tl % Low)) + (y % Low),
                                               t.tf \/ x >= Byte * Low)
           /\ t.mode = 1 => 
                LET x == t.th * Byte + t.tl + n
                    y == x % (Byte * Byte)
                IN  IncTimer(t, n) = Registers(t, y \div Byte, y % Byte, t.tf \/ x >= Byte * Byte)
           /\ t.mode = 2 => 
                IncTimer(t, n) = IF n < Byte - t.tl THEN Registers(t, t.th, t.tl + n, t.tf)
                                 ELSE Registers(t, t.th, t.th + ((n - (Byte - t.tl)) % (Byte - t.th)), TRUE)
           /\ t.mode = 3 => 
                IncTimer(t, n) = Registers(t, t.th, (t.tl + n) % Byte, t.tf \/ t.tl + n >= Byte)
<1>1. /\ t.th \in 0..(Byte - 1) /\ t.tl \in 0..(Byte - 1) /\ t.tf \in BOOLEAN /\ t.mode \in 0..3
      /\ t = Registers(t, t.th, t.tl, t.tf)
  BY DEF Counter, Registers
<1>2. /\ Byte \in Nat \ {0} /\ Low \in Nat \ {0} /\ Pair \in Nat \ {0} /\ Word \in Nat
      /\ Pair = Byte * Byte /\ Low <= Byte
  BY CountersAssumption, PairIsNat
<1>3. CASE t.mode = 0
  <2> DEFINE x == t.th * Low + (t.tl % Low) + n
  <2>1. x \in 0..(Word - 1)
    <3>1. t.tl % Low \in 0..(Low - 1)
      BY <1>1, <1>2, Wrap
    <3>2. t.th * Low <= (Byte - 1) * Low /\ t.th * Low \in Nat
      BY <1>1, <1>2
    <3>3. (Byte - 1) * Low = Byte * Low - Low /\ Byte * Low <= Byte * Byte
      BY <1>2
    <3> QED
      BY <3>1, <3>2, <3>3, <1>2
  <2>2. Word \in Nat \ {0} /\ x \in Int
    BY <2>1, <1>2
  <2>3. x % Word = x
    BY <2>1, <2>2, Wrap
  <2>4. IncTimer(t, n) = IncMode0(t, n)
    BY <1>3 DEF IncTimer
  <2> HIDE DEF x
  <2>5. IncMode0(t, n) = [t EXCEPT !.th = (x % (Byte * Low)) \div Low,
                                   !.tl = (t.tl - (t.tl % Low)) + ((x % (Byte * Low)) % Low),
                                   !.tf = @ \/ x >= Byte * Low]
    BY <2>3 DEF IncMode0, x
  <2>6. IncTimer(t, n) = Registers(t, (x % (Byte * Low)) \div Low,
                                   (t.tl - (t.tl % Low)) + ((x % (Byte * Low)) % Low), t.tf \/ x >= Byte * Low)
    BY <2>4, <2>5 DEF Registers, Counter
  <2> QED
    BY <1>3, <2>6 DEF x
<1>4. CASE t.mode = 1
  <2> DEFINE x == t.th * Byte + t.tl + n
  <2>1. x \in 0..(Word - 1)
    <3>2. t.th * Byte <= (Byte - 1) * Byte /\ t.th * Byte \in Nat
      BY <1>1, <1>2
    <3>3. (Byte - 1) * Byte = Byte * Byte - Byte
      BY <1>2
    <3> QED
      BY <3>2, <3>3, <1>1, <1>2
  <2>2. Word \in Nat \ {0} /\ x \in Int
    BY <2>1, <1>2
  <2>3. x % Word = x
    BY <2>1, <2>2, Wrap
  <2>4. IncTimer(t, n) = IncMode1(t, n)
    BY <1>4 DEF IncTimer
  <2> HIDE DEF x
  <2>5. IncMode1(t, n) = [t EXCEPT !.th = (x % (Byte * Byte)) \div Byte,
                                   !.tl = (x % (Byte * Byte)) % Byte,
                                   !.tf = @ \/ x >= Byte * Byte]
    BY <1>2, <2>3 DEF IncMode1, x
  <2>6. IncTimer(t, n) = Registers(t, (x % (Byte * Byte)) \div Byte, (x % (Byte * Byte)) % Byte,
                                   t.tf \/ x >= Byte * Byte)
    BY <2>4, <2>5 DEF Registers, Counter
  <2> QED
    BY <1>4, <2>6 DEF x
<1>5. CASE t.mode = 2
  <2>1. IncTimer(t, n) = IncMode2(t, n)
    BY <1>5 DEF IncTimer
  <2>2. IncMode2(t, n) = IF n < Byte - t.tl THEN Registers(t, t.th, t.tl + n, t.tf)
                         ELSE Registers(t, t.th, t.th + ((n - (Byte - t.tl)) % (Byte - t.th)), TRUE)
    <3>1. [t EXCEPT !.tl = @ + n] = Registers(t, t.th, t.tl + n, t.tf)
      BY DEF Registers, Counter
    <3> DEFINE v == t.th + ((n - (Byte - t.tl)) % (Byte - t.th))
    <3> HIDE DEF v
    <3>2. [t EXCEPT !.tl = v, !.tf = TRUE] = Registers(t, t.th, v, TRUE)
      BY DEF Registers, Counter
    <3> QED
      BY <3>1, <3>2 DEF IncMode2, v
  <2> QED
    BY <1>5, <2>1, <2>2
<1>6. CASE t.mode = 3
  <2>1. IncTimer(t, n) = IncMode3(t, n)
    BY <1>6 DEF IncTimer
  <2>2. t.tl + n \in 0..(Word - 1)
    <3>1. Byte <= Pair
      BY <1>2
    <3> QED
      BY <3>1, <1>1, <1>2
  <2>3. (t.tl + n) % Word = t.tl + n
    <3>1. Word \in Nat \ {0} /\ t.tl + n \in Int
      BY <2>2, <1>2
    <3> QED
      BY <2>2, <3>1, Wrap
  <2>4. Inc8(t.tl, n).val = (t.tl + n) % Byte /\ Inc8(t.tl, n).over = (t.tl + n >= Byte)
    BY <2>3 DEF Inc8
  <2>5. IncMode3(t, n) = Registers(t, t.th, (t.tl + n) % Byte, t.tf \/ t.tl + n >= Byte)
    <3> DEFINE v == (t.tl + n) % Byte
               o == t.tl + n >= Byte
    <3> HIDE DEF v, o
    <3>1. [t EXCEPT !.tl = v, !.tf = @ \/ o] = Registers(t, t.th, v, t.tf \/ o)
      BY DEF Registers, Counter
    <3> QED
      BY <2>4, <3>1 DEF v, o, IncMode3
  <2> QED
    BY <1>6, <2>1, <2>5
<1> QED
  BY <1>3, <1>4, <1>5, <1>6

\* One tick after n ticks is n + 1 ticks.
LEMMA OneTickMore ==
    ASSUME NEW t \in Counter, NEW n \in Nat, (n + 1) + Pair <= Word
    PROVE  TickOnce(IncTimer(t, n)) = IncTimer(t, n + 1)
<1>1. /\ t.th \in 0..(Byte - 1) /\ t.tl \in 0..(Byte - 1) /\ t.tf \in BOOLEAN /\ t.mode \in 0..3
  BY DEF Counter
<1>2. /\ Byte \in Nat \ {0} /\ Low \in Nat \ {0} /\ Pair \in Nat \ {0} /\ Word \in Nat
      /\ Pair = Byte * Byte /\ Low <= Byte
  BY CountersAssumption, PairIsNat
<1>3. n + Pair <= Word /\ n + 1 \in Nat
  BY <1>2
<1>4. CASE t.mode = 0
  <2> DEFINE x == t.th * Low + (t.tl % Low) + n
             z == t.th * Low + (t.tl % Low) + (n + 1)
             y == x % (Byte * Low)
             h == y \div Low
             l == y % Low
             base == t.tl - (t.tl % Low)
             f == t.tf \/ x >= Byte * Low
  <2>1. IncTimer(t, n) = Registers(t, h, base + l, f)
    BY <1>3, <1>4, IncRegisters
  <2>2. IncTimer(t, n + 1) = Registers(t, (z % (Byte * Low)) \div Low,
                                       base + ((z % (Byte * Low)) % Low),
                                       t.tf \/ z >= Byte * Low)
    BY <1>3, <1>4, IncRegisters
  <2>3. t.tl % Low \in 0..(Low - 1)
    BY <1>1, <1>2, Wrap
  <2>4. x \in Nat /\ z = x + 1
    BY <1>1, <1>2, <2>3
  <2>5. t.tl \div Low \in Nat /\ base = Low * (t.tl \div Low)
    <3>1. t.tl \in Nat
      BY <1>1, <1>2
    <3>2. t.tl \div Low \in Nat /\ t.tl = Low * (t.tl \div Low) + (t.tl % Low)
      BY <1>2, <3>1, Quotient
    <3>3. Low * (t.tl \div Low) \in Nat
      BY <1>2, <3>2
    <3> QED
      BY <2>3, <3>1, <3>2, <3>3
  <2>6. Byte * Low \in Nat \ {0} /\ y \in Nat
    <3> DEFINE m == Byte * Low
               i == x
    <3>1. m \in Nat \ {0} /\ i \in Int
      BY <1>2, <2>4
    <3> HIDE DEF m, i
    <3>2. i % m \in 0..(m - 1)
      BY <3>1, Wrap
    <3>3. i % m \in Nat
      BY <3>1, <3>2
    <3> QED
      BY <3>1, <3>3 DEF m, i
  <2> HIDE DEF y
  <2>7. l \in 0..(Low - 1) /\ h \in Nat
    <3>1. y \in Int
      BY <2>6
    <3>2. l \in 0..(Low - 1)
      BY <1>2, <3>1, Wrap
    <3>3. h \in Nat
      BY <1>2, <2>6, Quotient
    <3> QED
      BY <3>2, <3>3
  <2> USE DEF y
  <2> HIDE DEF base
  <2>8. base \in Nat
    BY <2>5, <1>2
  <2> HIDE DEF x, z
  <2>15. /\ l # Low - 1 => /\ ((x + 1) % (Byte * Low)) \div Low = h /\ ((x + 1) % (Byte * Low)) % Low = l + 1
                           /\ x + 1 >= Byte * Low => x >= Byte * Low
         /\ l = Low - 1 => /\ ((x + 1) % (Byte * Low)) % Low = 0
                           /\ ((x + 1) % (Byte * Low)) \div Low = IF h = Byte - 1 THEN 0 ELSE h + 1
                           /\ h = Byte - 1 => x + 1 >= Byte * Low
                           /\ h # Byte - 1 /\ x + 1 >= Byte * Low => x >= Byte * Low
    BY <1>2, <2>4, CarryDigit, Zenon
  <2>9. /\ l # Low - 1 => /\ (z % (Byte * Low)) \div Low = h /\ (z % (Byte * Low)) % Low = l + 1
                          /\ z >= Byte * Low => x >= Byte * Low
        /\ l = Low - 1 => /\ (z % (Byte * Low)) % Low = 0
                          /\ (z % (Byte * Low)) \div Low = IF h = Byte - 1 THEN 0 ELSE h + 1
                          /\ h = Byte - 1 => z >= Byte * Low
                          /\ h # Byte - 1 /\ z >= Byte * Low => x >= Byte * Low
    BY <2>4, <2>15
  <2>10. x >= Byte * Low => z >= Byte * Low
    BY <2>4, <2>6
  <2> HIDE DEF y, h, l
  <2>11. (base + l) % Low = l
    <3>0. l \in Nat /\ l \in Int
      BY <1>2, <2>7
    <3>1. (Low * (t.tl \div Low) + l) % Low = l % Low
      BY <1>2, <2>5, <3>0, DropMultiple
    <3>2. l % Low = l
      BY <1>2, <2>7, <3>0, Wrap
    <3> QED
      BY <2>5, <3>1, <3>2
  <2>12. TickOnce(Registers(t, h, base + l, f)) =
            IF (base + l) % Low = Low - 1 THEN Carried(t, h, (base + l) - (Low - 1), f)
            ELSE Registers(t, h, (base + l) + 1, f)
    BY <1>4, TickMode0
  <2> HIDE DEF f
  <2>13. CASE l # Low - 1
    <3>1. f = (t.tf \/ z >= Byte * Low)
      BY <2>9, <2>10, <2>13 DEF f
    <3>2. (base + l) + 1 = base + (l + 1)
      BY <2>7, <2>8
    <3> QED
      BY <2>1, <2>2, <2>9, <2>11, <2>12, <2>13, <3>1, <3>2
  <2>14. CASE l = Low - 1
    <3>1. (base + l) - (Low - 1) = base + 0
      BY <2>7, <2>8, <2>14
    <3>2. TickOnce(IncTimer(t, n)) = Carried(t, h, base + 0, f)
      BY <2>1, <2>11, <2>12, <2>14, <3>1
    <3>3. CASE h = Byte - 1
      <4>1. (t.tf \/ z >= Byte * Low) = TRUE
        BY <1>1, <2>9, <2>14, <3>3
      <4> QED
        BY <2>2, <2>9, <2>14, <3>2, <3>3, <4>1 DEF Carried
    <3>4. CASE h # Byte - 1
      <4>1. f = (t.tf \/ z >= Byte * Low)
        BY <2>9, <2>10, <2>14, <3>4 DEF f
      <4> QED
        BY <2>2, <2>9, <2>14, <3>2, <3>4, <4>1 DEF Carried
    <3> QED
      BY <3>3, <3>4
  <2> QED
    BY <2>13, <2>14
<1>5. CASE t.mode = 1
  <2> DEFINE x == t.th * Byte + t.tl + n
             z == t.th * Byte + t.tl + (n + 1)
             y == x % (Byte * Byte)
             h == y \div Byte
             l == y % Byte
             f == t.tf \/ x >= Byte * Byte
  <2>1. IncTimer(t, n) = Registers(t, h, l, f)
    BY <1>3, <1>5, IncRegisters
  <2>2. IncTimer(t, n + 1) = Registers(t, (z % (Byte * Byte)) \div Byte, (z % (Byte * Byte)) % Byte,
                                       t.tf \/ z >= Byte * Byte)
    BY <1>3, <1>5, IncRegisters
  <2>4. x \in Nat /\ z = x + 1
    BY <1>1, <1>2
  <2>6. Byte * Byte \in Nat \ {0}
    BY <1>2
  <2> HIDE DEF x, z
  <2>15. /\ l # Byte - 1 => /\ ((x + 1) % (Byte * Byte)) \div Byte = h /\ ((x + 1) % (Byte * Byte)) % Byte = l + 1
                            /\ x + 1 >= Byte * Byte => x >= Byte * Byte
         /\ l = Byte - 1 => /\ ((x + 1) % (Byte * Byte)) % Byte = 0
                            /\ ((x + 1) % (Byte * Byte)) \div Byte = IF h = Byte - 1 THEN 0 ELSE h + 1
                            /\ h = Byte - 1 => x + 1 >= Byte * Byte
                            /\ h # Byte - 1 /\ x + 1 >= Byte * Byte => x >= Byte * Byte
    BY <1>2, <2>4, CarryDigit, Zenon
  <2>9. /\ l # Byte - 1 => /\ (z % (Byte * Byte)) \div Byte = h /\ (z % (Byte * Byte)) % Byte = l + 1
                           /\ z >= Byte * Byte => x >= Byte * Byte
        /\ l = Byte - 1 => /\ (z % (Byte * Byte)) % Byte = 0
                           /\ (z % (Byte * Byte)) \div Byte = IF h = Byte - 1 THEN 0 ELSE h + 1
                           /\ h = Byte - 1 => z >= Byte * Byte
                           /\ h # Byte - 1 /\ z >= Byte * Byte => x >= Byte * Byte
    BY <2>4, <2>15
  <2>10. x >= Byte * Byte => z >= Byte * Byte
    BY <2>4, <2>6
  <2> HIDE DEF y, h, l
  <2>12. TickOnce(Registers(t, h, l, f)) =
            IF l = Byte - 1 THEN Carried(t, h, 0, f) ELSE Registers(t, h, l + 1, f)
    BY <1>5, TickMode1
  <2> HIDE DEF f
  <2>13. CASE l # Byte - 1
    <3>1. f = (t.tf \/ z >= Byte * Byte)
      BY <2>9, <2>10, <2>13 DEF f
    <3> QED
      BY <2>1, <2>2, <2>9, <2>12, <2>13, <3>1
  <2>14. CASE l = Byte - 1
    <3>2. TickOnce(IncTimer(t, n)) = Carried(t, h, 0, f)
      BY <2>1, <2>12, <2>14
    <3>3. CASE h = Byte - 1
      <4>1. (t.tf \/ z >= Byte * Byte) = TRUE
        BY <1>1, <2>9, <2>14, <3>3
      <4> QED
        BY <2>2, <2>9, <2>14, <3>2, <3>3, <4>1 DEF Carried
    <3>4. CASE h # Byte - 1
      <4>1. f = (t.tf \/ z >= Byte * Byte)
        BY <2>9, <2>10, <2>14, <3>4 DEF f
      <4> QED
        BY <2>2, <2>9, <2>14, <3>2, <3>4, <4>1 DEF Carried
    <3> QED
      BY <3>3, <3>4
  <2> QED
    BY <2>13, <2>14
<1>6. CASE t.mode = 2
  <2> DEFINE d == Byte - t.th
             m == n - (Byte - t.tl)
  <2>0. d \in Nat \ {0} /\ m \in Int
    BY <1>1, <1>2
  <2>1. IncTimer(t, n) = IF n < Byte - t.tl THEN Registers(t, t.th, t.tl + n, t.tf)
                         ELSE Registers(t, t.th, t.th + (m % d), TRUE)
    BY <1>3, <1>6, IncRegisters
  <2>2. IncTimer(t, n + 1) = IF n + 1 < Byte - t.tl THEN Registers(t, t.th, t.tl + (n + 1), t.tf)
                         ELSE Registers(t, t.th, t.th + (((n + 1) - (Byte - t.tl)) % d), TRUE)
    BY <1>3, <1>6, IncRegisters
  <2>3. (n + 1) - (Byte - t.tl) = m + 1
    BY <1>1, <1>2
  <2>4. CASE n < Byte - t.tl
    <3>1. TickOnce(Registers(t, t.th, t.tl + n, t.tf)) =
             IF t.tl + n = Byte - 1 THEN Registers(t, t.th, t.th, TRUE)
             ELSE Registers(t, t.th, (t.tl + n) + 1, t.tf)
      <4> DEFINE f == t.tf
                 l == t.tl + n
                 g == t.th
      <4>0. f \in BOOLEAN
        BY <1>1
      <4> HIDE DEF f, l, g
      <4>1. TickOnce(Registers(t, g, l, f)) =
               IF l = Byte - 1 THEN Registers(t, g, g, TRUE) ELSE Registers(t, g, l + 1, f)
        BY <1>6, <4>0, TickMode2
      <4> QED
        BY <4>1 DEF f, l, g
    <3>2. CASE t.tl + n = Byte - 1
      <4>1. ~(n + 1 < Byte - t.tl) /\ m + 1 = 0
        BY <1>1, <1>2, <3>2
      <4>2. 0 \in 0..(d - 1) /\ 0 \in Int
        BY <2>0
      <4>3. 0 % d = 0
        BY <2>0, <4>2, Wrap
      <4>4. t.th + 0 = t.th
        BY <1>1, <1>2
      <4> HIDE DEF m, d
      <4> QED
        BY <2>1, <2>2, <2>3, <2>4, <3>1, <3>2, <4>1, <4>3, <4>4
    <3>3. CASE t.tl + n # Byte - 1
      <4>1. n + 1 < Byte - t.tl /\ (t.tl + n) + 1 = t.tl + (n + 1)
        BY <1>1, <1>2, <2>4, <3>3
      <4> HIDE DEF m, d
      <4> QED
        BY <2>1, <2>2, <2>4, <3>1, <3>3, <4>1
    <3> QED
      BY <3>2, <3>3
  <2>5. CASE ~(n < Byte - t.tl)
    <3>1. TickOnce(Registers(t, t.th, t.th + (m % d), TRUE)) =
             IF t.th + (m % d) = Byte - 1 THEN Registers(t, t.th, t.th, TRUE)
             ELSE Registers(t, t.th, (t.th + (m % d)) + 1, TRUE)
      <4> DEFINE f == TRUE
                 l == t.th + (m % d)
                 g == t.th
      <4>0. f \in BOOLEAN
        BY <1>1
      <4> HIDE DEF f, l, g
      <4>1. TickOnce(Registers(t, g, l, f)) =
               IF l = Byte - 1 THEN Registers(t, g, g, TRUE) ELSE Registers(t, g, l + 1, f)
        BY <1>6, <4>0, TickMode2
      <4> QED
        BY <4>1 DEF f, l, g
    <3>2. m \in Nat /\ ~(n + 1 < Byte - t.tl)
      BY <1>1, <1>2, <2>5
    <3>3. m % d \in 0..(d - 1)
      BY <2>0, Wrap
    <3>4. t.th + (m % d) = Byte - 1 <=> m % d = d - 1
      BY <1>1, <1>2, <3>3
    <3>5. /\ m % d = d - 1 => (m + 1) % d = 0
          /\ m % d # d - 1 => (m + 1) % d = (m % d) + 1
      BY <2>0, <3>2, OneMore
    <3>6. t.th + 0 = t.th /\ (t.th + (m % d)) + 1 = t.th + ((m % d) + 1)
      BY <1>1, <1>2, <3>3
    <3> HIDE DEF m, d
    <3> QED
      BY <2>1, <2>2, <2>3, <2>5, <3>1, <3>2, <3>4, <3>5, <3>6
  <2> QED
    BY <2>4, <2>5
<1>7. CASE t.mode = 3
  <2> DEFINE x == t.tl + n
             l == x % Byte
             f == t.tf \/ x >= Byte
  <2>1. IncTimer(t, n) = Registers(t, t.th, l, f)
    BY <1>3, <1>7, IncRegisters
  <2>2. IncTimer(t, n + 1) = Registers(t, t.th, (t.tl + (n + 1)) % Byte, t.tf \/ t.tl + (n + 1) >= Byte)
    BY <1>3, <1>7, IncRegisters
  <2>3. t.tl + (n + 1) = x + 1 /\ x \in Nat
    BY <1>1, <1>2
  <2>9. f \in BOOLEAN
    BY <1>1
  <2> HIDE DEF f, l
  <2>4. TickOnce(Registers(t, t.th, l, f)) =
           IF l = Byte - 1 THEN Registers(t, t.th, 0, TRUE) ELSE Registers(t, t.th, l + 1, f)
    BY <1>7, <2>9, TickMode3
  <2> HIDE DEF x
  <2> USE DEF l
  <2>5. /\ l = Byte - 1 => (x + 1) % Byte = 0
        /\ l # Byte - 1 => (x + 1) % Byte = l + 1
    BY <1>2, <2>3, OneMore
  <2>6. l \in 0..(Byte - 1) /\ x >= l /\ (x \in 0..(Byte - 1) => l = x)
    <3>1. x \div Byte \in Nat /\ x = Byte * (x \div Byte) + l
      BY <1>2, <2>3, Quotient
    <3>4. x \in Int
      BY <2>3
    <3>5. l \in 0..(Byte - 1)
      BY <1>2, <3>4, Wrap
    <3>6. x \in 0..(Byte - 1) => l = x
      BY <1>2, <3>4, Wrap
    <3>2. l \in 0..(Byte - 1) /\ (x \in 0..(Byte - 1) => l = x)
      BY <3>5, <3>6
    <3>3. Byte * (x \div Byte) \in Nat
      BY <1>2, <3>1
    <3> HIDE DEF l
    <3> QED
      BY <3>1, <3>2, <3>3, <2>3
  <2> HIDE DEF l
  <2>7. CASE l = Byte - 1
    <3>1. (t.tf \/ x + 1 >= Byte) = TRUE
      BY <1>1, <1>2, <2>3, <2>6, <2>7 DEF f
    <3> QED
      BY <2>1, <2>2, <2>3, <2>4, <2>5, <2>7, <3>1
  <2>8. CASE l # Byte - 1
    <3>2. x + 1 >= Byte <=> x >= Byte
      BY <1>2, <2>3, <2>6, <2>8
    <3>1. f = (t.tf \/ x + 1 >= Byte)
      BY <3>2 DEF f
    <3> QED
      BY <2>1, <2>2, <2>3, <2>4, <2>5, <2>8, <3>1
  <2> QED
    BY <2>7, <2>8
<1> QED
  BY <1>1, <1>4, <1>5, <1>6, <1>7

\* No tick leaves a counter alone.
LEMMA NoTicks ==
    ASSUME NEW t \in Counter
    PROVE  IncTimer(t, 0) = t
<1>1. /\ t.th \in 0..(Byte - 1) /\ t.tl \in 0..(Byte - 1) /\ t.tf \in BOOLEAN /\ t.mode \in 0..3
      /\ t = Registers(t, t.th, t.tl, t.tf)
  BY DEF Counter, Registers
<1>2. /\ Byte \in Nat \ {0} /\ Low \in Nat \ {0} /\ Pair \in Nat \ {0} /\ Word \in Nat
      /\ Pair = Byte * Byte /\ Low <= Byte /\ 0 + Pair <= Word /\ 0 \in Nat
  BY CountersAssumption, PairIsNat
<1>3. CASE t.mode = 0
  <2> DEFINE l == t.tl % Low
             x == t.th * Low + l
  <2>0. t.tl \in Int
    BY <1>1
  <2>1. t.tl \in Int /\ l \in 0..(Low - 1)
    BY <1>1, <1>2, <2>0, Wrap
  <2> HIDE DEF l
  <2>2. x \in Nat /\ x = Low * t.th + l /\ x + 0 = x /\ l \in Nat
    BY <1>1, <1>2, <2>1
  <2>3. x < Byte * Low
    <3>1. Low * t.th <= Low * (Byte - 1) /\ Low * (Byte - 1) = Byte * Low - Low /\ Low * t.th \in Nat
      BY <1>1, <1>2
    <3> QED
      BY <1>1, <1>2, <2>1, <2>2, <3>1
  <2>4. Byte * Low \in Nat \ {0} /\ x \in Int /\ x \in 0..((Byte * Low) - 1)
    BY <1>2, <2>2, <2>3
  <2> HIDE DEF x
  <2>5. x % (Byte * Low) = x
    <3> DEFINE m == Byte * Low
    <3>1. m \in Nat \ {0} /\ x \in 0..(m - 1)
      BY <2>4
    <3> HIDE DEF m
    <3>2. x % m = x
      BY <2>4, <3>1, Wrap
    <3> QED
      BY <3>2 DEF m
  <2>6. x \div Low = t.th /\ x % Low = l
    <3>1. x \div Low \in Nat /\ x = Low * (x \div Low) + (x % Low)
      BY <1>2, <2>2, Quotient
    <3>2. x % Low \in 0..(Low - 1)
      BY <1>2, <2>4, Wrap
    <3>3. t.th \in Nat
      BY <1>1, <1>2
    <3> DEFINE q == x \div Low
               r == x % Low
    <3> HIDE DEF q, r
    <3>4. Low * q + r = Low * t.th + l /\ q \in Nat /\ r \in 0..(Low - 1)
      BY <2>2, <3>1, <3>2 DEF q, r
    <3>5. q = t.th /\ r = l
      BY <1>2, <2>1, <3>3, <3>4, SameQuotient
    <3> QED
      BY <3>5 DEF q, r
  <2>7. IncTimer(t, 0) = Registers(t, ((x + 0) % (Byte * Low)) \div Low,
                                   (t.tl - l) + (((x + 0) % (Byte * Low)) % Low),
                                   t.tf \/ x + 0 >= Byte * Low)
    BY <1>2, <1>3, IncRegisters DEF x, l
  <2>8. (t.tl - l) + l = t.tl /\ (t.tf \/ x >= Byte * Low) = t.tf
    BY <1>1, <1>2, <2>1, <2>2, <2>3
  <2> QED
    BY <1>1, <2>2, <2>5, <2>6, <2>7, <2>8
<1>4. CASE t.mode = 1
  <2> DEFINE x == t.th * Byte + t.tl
  <2>2. x \in Nat /\ x = Byte * t.th + t.tl /\ x + 0 = x
    BY <1>1, <1>2
  <2>3. x < Byte * Byte
    <3>1. Byte * t.th <= Byte * (Byte - 1) /\ Byte * (Byte - 1) = Byte * Byte - Byte /\ Byte * t.th \in Nat
      BY <1>1, <1>2
    <3> QED
      BY <1>1, <1>2, <2>2, <3>1
  <2>4. Byte * Byte \in Nat \ {0} /\ x \in Int /\ x \in 0..((Byte * Byte) - 1)
    BY <1>2, <2>2, <2>3
  <2> HIDE DEF x
  <2>5. x % (Byte * Byte) = x
    <3> DEFINE m == Byte * Byte
    <3>1. m \in Nat \ {0} /\ x \in 0..(m - 1)
      BY <2>4
    <3> HIDE DEF m
    <3>2. x % m = x
      BY <2>4, <3>1, Wrap
    <3> QED
      BY <3>2 DEF m
  <2>6. x \div Byte = t.th /\ x % Byte = t.tl
    <3>1. x \div Byte \in Nat /\ x = Byte * (x \div Byte) + (x % Byte)
      BY <1>2, <2>2, Quotient
    <3>2. x % Byte \in 0..(Byte - 1)
      BY <1>2, <2>4, Wrap
    <3>3. t.th \in Nat
      BY <1>1, <1>2
    <3> DEFINE q == x \div Byte
               r == x % Byte
    <3> HIDE DEF q, r
    <3>4. Byte * q + r = Byte * t.th + t.tl /\ q \in Nat /\ r \in 0..(Byte - 1)
      BY <2>2, <3>1, <3>2 DEF q, r
    <3> DEFINE h == t.th
               l == t.tl
    <3>6. h \in Nat /\ l \in 0..(Byte - 1) /\ Byte * q + r = Byte * h + l
      BY <1>1, <3>3, <3>4
    <3> HIDE DEF h, l
    <3>5. q = h /\ r = l
      BY <1>2, <3>4, <3>6, SameQuotient
    <3> QED
      BY <3>5 DEF q, r, h, l
  <2>7. IncTimer(t, 0) = Registers(t, ((x + 0) % (Byte * Byte)) \div Byte, ((x + 0) % (Byte * Byte)) % Byte,
                                   t.tf \/ x + 0 >= Byte * Byte)
    BY <1>2, <1>4, IncRegisters DEF x
  <2>8. (t.tf \/ x >= Byte * Byte) = t.tf
    BY <1>1, <1>2, <2>2, <2>3
  <2> QED
    BY <1>1, <2>2, <2>5, <2>6, <2>7, <2>8
<1>5. CASE t.mode = 2
  <2>1. 0 < Byte - t.tl /\ t.tl + 0 = t.tl
    BY <1>1, <1>2
  <2>2. IncTimer(t, 0) = Registers(t, t.th, t.tl + 0, t.tf)
    BY <1>2, <1>5, <2>1, IncRegisters
  <2> QED
    BY <1>1, <2>1, <2>2
<1>6. CASE t.mode = 3
  <2>1. t.tl + 0 = t.tl /\ ~(t.tl >= Byte) /\ t.tl \in Int
    BY <1>1, <1>2
  <2>2. t.tl % Byte = t.tl
    BY <1>1, <1>2, <2>1, Wrap
  <2>3. IncTimer(t, 0) = Registers(t, t.th, (t.tl + 0) % Byte, t.tf \/ t.tl + 0 >= Byte)
    BY <1>2, <1>6, IncRegisters
  <2>4. (t.tf \/ t.tl >= Byte) = t.tf
    BY <1>1, <2>1
  <2> QED
    BY <1>1, <2>1, <2>2, <2>3, <2>4
<1> QED
  BY <1>1, <1>3, <1>4, <1>5, <1>6

\* Setting registers within their ranges leaves a counter.
LEMMA RegistersType ==
    ASSUME NEW t \in Counter, NEW h \in 0..(Byte - 1), NEW l \in 0..(Byte - 1), NEW f \in BOOLEAN
    PROVE  Registers(t, h, l, f) \in Counter
BY DEF Registers, Counter

\* A tick keeps the ranges of the registers.
LEMMA TickKeepsCounter ==
    ASSUME NEW t \in Counter
    PROVE  TickOnce(t) \in Counter
<1> DEFINE h == t.th
           l == t.tl
           f == t.tf
<1>1. /\ h \in 0..(Byte - 1) /\ l \in 0..(Byte - 1) /\ f \in BOOLEAN /\ t.mode \in 0..3
      /\ t = Registers(t, h, l, f)
  BY DEF Counter, Registers
<1>2. Byte \in Nat \ {0} /\ Low \in Nat \ {0} /\ Low <= Byte /\ 0 \in 0..(Byte - 1) /\ TRUE \in BOOLEAN
  BY CountersAssumption
<1> HIDE DEF h, l, f
<1>3. l + 1 \in 0..(Byte - 1) \/ l = Byte - 1
  BY <1>1, <1>2
<1>4. \A x \in 0..(Byte - 1) : Carried(t, h, x, f) \in Counter
  <2> TAKE x \in 0..(Byte - 1)
  <2>1. h = Byte - 1 \/ h + 1 \in 0..(Byte - 1)
    BY <1>1, <1>2
  <2>2. Registers(t, 0, x, TRUE) \in Counter
    BY <1>2, RegistersType
  <2>3. CASE h = Byte - 1
    BY <2>2, <2>3 DEF Carried
  <2>4. CASE h # Byte - 1
    <3>1. Registers(t, h + 1, x, f) \in Counter
      BY <1>1, <2>1, <2>4, RegistersType
    <3> QED
      BY <2>4, <3>1 DEF Carried
  <2> QED
    BY <2>3, <2>4
<1>5. l + 1 \in 0..(Byte - 1) => Registers(t, h, l + 1, f) \in Counter
  BY <1>1, RegistersType
<1>6. CASE t.mode = 0
  <2>1. TickOnce(Registers(t, h, l, f)) = IF l % Low = Low - 1 THEN Carried(t, h, l - (Low - 1), f)
                                          ELSE Registers(t, h, l + 1, f)
    BY <1>6, TickMode0
  <2>2. CASE l % Low = Low - 1
    <3>1. l \in Nat
      BY <1>1, <1>2
    <3>2. l \div Low \in Nat /\ l = Low * (l \div Low) + (l % Low)
      BY <1>2, <3>1, Quotient
    <3>3. Low * (l \div Low) \in Nat
      BY <1>2, <3>2
    <3>4. l - (Low - 1) \in 0..(Byte - 1)
      BY <1>1, <1>2, <2>2, <3>2, <3>3
    <3> QED
      BY <1>1, <1>4, <2>1, <2>2, <3>4
  <2>3. CASE l % Low # Low - 1
    <3>1. l # Byte - 1
      <4> SUFFICES ASSUME l = Byte - 1 PROVE FALSE
        OBVIOUS
      <4>1. l \in Nat /\ l + 1 = Byte /\ Byte % Low = 0
        BY <1>1, <1>2, CountersAssumption
      <4>4. l \in Int
        BY <4>1
      <4>2. l % Low \in 0..(Low - 1)
        BY <1>2, <4>4, Wrap
      <4>3. (l + 1) % Low = (l % Low) + 1
        BY <1>2, <2>3, <4>1, OneMore
      <4> QED
        BY <1>2, <4>1, <4>2, <4>3
    <3> QED
      BY <1>1, <1>3, <1>5, <2>1, <2>3, <3>1
  <2> QED
    BY <2>2, <2>3
<1>7. CASE t.mode = 1
  <2>1. TickOnce(Registers(t, h, l, f)) = IF l = Byte - 1 THEN Carried(t, h, 0, f)
                                          ELSE Registers(t, h, l + 1, f)
    BY <1>7, TickMode1
  <2> QED
    BY <1>1, <1>2, <1>3, <1>4, <1>5, <2>1
<1>8. CASE t.mode = 2
  <2>1. TickOnce(Registers(t, h, l, f)) = IF l = Byte - 1 THEN Registers(t, h, h, TRUE)
                                          ELSE Registers(t, h, l + 1, f)
    BY <1>1, <1>8, TickMode2
  <2>2. Registers(t, h, h, TRUE) \in Counter
    BY <1>1, <1>2, RegistersType
  <2> QED
    BY <1>1, <1>3, <1>5, <2>1, <2>2
<1>9. CASE t.mode = 3
  <2>1. TickOnce(Registers(t, h, l, f)) = IF l = Byte - 1 THEN Registers(t, h, 0, TRUE)
                                          ELSE Registers(t, h, l + 1, f)
    BY <1>1, <1>9, TickMode3
  <2>2. Registers(t, h, 0, TRUE) \in Counter
    BY <1>1, <1>2, RegistersType
  <2> QED
    BY <1>1, <1>3, <1>5, <2>1, <2>2
<1> QED
  BY <1>1, <1>6, <1>7, <1>8, <1>9

------------------------------------------------------------------------------
\* Timer 2

Counter2 == [val : 0..(Pair - 1), rcap : 0..(Pair - 1), tf2 : BOOLEAN, exf2 : BOOLEAN, tr2 : BOOLEAN,
             ct2 : BOOLEAN, exen2 : BOOLEAN, cprl2 : BOOLEAN, baud : BOOLEAN]

Registers2(t, v, f) == [t EXCEPT !.val = v, !.tf2 = f]

\* The registers so set read back, and the controls stay.
LEMMA Registers2Fields ==
    ASSUME NEW t \in Counter2, NEW v \in 0..(Pair - 1), NEW f \in BOOLEAN
    PROVE  /\ Registers2(t, v, f).val = v /\ Registers2(t, v, f).tf2 = f
           /\ Registers2(t, v, f).rcap = t.rcap /\ Registers2(t, v, f).cprl2 = t.cprl2
           /\ Registers2(t, v, f).baud = t.baud
           /\ Registers2(t, v, f) \in Counter2
BY DEF Registers2, Counter2

\* What a tick does to them.
LEMMA Tick2Registers ==
    ASSUME NEW t \in Counter2, NEW v \in 0..(Pair - 1), NEW f \in BOOLEAN, NEW g \in BOOLEAN,
           g = (f \/ SetsTf2(t, rules))
    PROVE  Timer2Once(Registers2(t, v, f)) =
              IF v = Pair - 1 THEN Registers2(t, IF t.cprl2 THEN 0 ELSE t.rcap, g)
              ELSE Registers2(t, v + 1, f)
<1> DEFINE r == Registers2(t, v, f)
           w == IF t.cprl2 THEN 0 ELSE t.rcap
<1>1. r.val = v /\ r.tf2 = f /\ r.rcap = t.rcap /\ r.cprl2 = t.cprl2 /\ r.baud = t.baud
  BY Registers2Fields
<1>2. [r EXCEPT !.val = v + 1] = Registers2(t, v + 1, f)
  BY DEF Registers2, Counter2
<1>3. \A x : [r EXCEPT !.val = x, !.tf2 = g] = Registers2(t, x, g)
  BY DEF Registers2, Counter2
<1> HIDE DEF r
<1>4. Pair \in Nat \ {0} /\ (v < Pair - 1 <=> v # Pair - 1)
  BY PairIsNat
<1>5. CASE v = Pair - 1
  <2>1. Timer2Once(r) = [r EXCEPT !.val = IF r.cprl2 THEN 0 ELSE r.rcap,
                                  !.tf2 = r.tf2 \/ rules = "pragmatic" \/ ~r.baud]
    BY <1>1, <1>4, <1>5 DEF Timer2Once
  <2>2. (r.tf2 \/ rules = "pragmatic" \/ ~r.baud) = g
    BY <1>1 DEF SetsTf2
  <2>3. (IF r.cprl2 THEN 0 ELSE r.rcap) = w
    BY <1>1
  <2> HIDE DEF w
  <2>4. Timer2Once(r) = [r EXCEPT !.val = w, !.tf2 = g]
    BY <2>1, <2>2, <2>3
  <2>5. Timer2Once(r) = Registers2(t, w, g)
    BY <1>3, <2>4
  <2> QED
    BY <1>5, <2>5 DEF w, r
<1>6. CASE v # Pair - 1
  <2>1. Timer2Once(r) = [r EXCEPT !.val = v + 1]
    BY <1>1, <1>4, <1>6 DEF Timer2Once
  <2> QED
    BY <1>2, <1>6, <2>1 DEF r
<1> QED
  BY <1>5, <1>6

\* What counting n ticks at once does.
LEMMA Count2Registers ==
    ASSUME NEW t \in Counter2, NEW n \in Nat, n + Pair <= Word
    PROVE  /\ t.cprl2 => CountTimer2(t, n, rules) =
                            Registers2(t, (t.val + n) % Pair,
                                       t.tf2 \/ (SetsTf2(t, rules) /\ t.val + n >= Pair))
           /\ ~t.cprl2 /\ n < Pair - t.val =>
                 CountTimer2(t, n, rules) = Registers2(t, t.val + n, t.tf2)
           /\ ~t.cprl2 /\ n >= Pair - t.val =>
                 CountTimer2(t, n, rules) =
                    Registers2(t, t.rcap + ((n - (Pair - t.val)) % (Pair - t.rcap)),
                               t.tf2 \/ SetsTf2(t, rules))
<1>1. /\ t.val \in 0..(Pair - 1) /\ t.rcap \in 0..(Pair - 1) /\ t.tf2 \in BOOLEAN
      /\ t.cprl2 \in BOOLEAN /\ t = Registers2(t, t.val, t.tf2)
  BY DEF Counter2, Registers2
<1>2. Pair \in Nat \ {0} /\ Word \in Nat
  BY PairIsNat
<1>3. CASE n = 0
  <2>1. CountTimer2(t, n, rules) = t
    BY <1>3 DEF CountTimer2
  <2>2. /\ t.val + n = t.val /\ ~(t.val + n >= Pair) /\ n < Pair - t.val /\ t.val \in Int
        /\ ~(n >= Pair - t.val)
    BY <1>1, <1>2, <1>3
  <2>3. t.val % Pair = t.val
    BY <1>1, <1>2, <2>2, Wrap
  <2>4. (t.tf2 \/ (SetsTf2(t, rules) /\ t.val + n >= Pair)) = t.tf2
    BY <1>1, <2>2
  <2> QED
    BY <1>1, <2>1, <2>2, <2>3, <2>4
<1>4. CASE n > 0 /\ t.cprl2
  <2>1. t.val + n \in 0..(Word - 1) /\ t.val + n \in Int /\ Word \in Nat \ {0}
    BY <1>1, <1>2
  <2>2. (t.val + n) % Word = t.val + n
    BY <2>1, Wrap
  <2> DEFINE v == (t.val + n) % Pair
             f == t.tf2 \/ (SetsTf2(t, rules) /\ t.val + n >= Pair)
  <2>3. CountTimer2(t, n, rules) = [t EXCEPT !.val = v, !.tf2 = f]
    <3> DEFINE total == (t.val + n) % Word
    <3>1. CountTimer2(t, n, rules) =
             [t EXCEPT !.val = total % Pair,
                       !.tf2 = t.tf2 \/ (SetsTf2(t, rules) /\ total >= Pair)]
      BY <1>4 DEF CountTimer2, Counter2
    <3> QED
      BY <2>2, <3>1
  <2> HIDE DEF v, f
  <2>4. CountTimer2(t, n, rules) = Registers2(t, v, f)
    BY <2>3 DEF Registers2, Counter2
  <2> QED
    BY <1>4, <2>4 DEF v, f
<1>5. CASE n > 0 /\ ~t.cprl2 /\ n < Pair - t.val
  <2>1. ~(n = 0) /\ ~(n > 0 /\ t.cprl2) /\ n < Pair - t.val /\ ~(n >= Pair - t.val)
    BY <1>1, <1>2, <1>5
  <2>2. CountTimer2(t, n, rules) = [t EXCEPT !.val = t.val + n]
    BY <1>1, <1>5, <2>1 DEF CountTimer2
  <2>3. [t EXCEPT !.val = t.val + n] = Registers2(t, t.val + n, t.tf2)
    BY DEF Registers2, Counter2
  <2> QED
    BY <1>5, <2>1, <2>2, <2>3
<1>6. CASE n > 0 /\ ~t.cprl2 /\ n >= Pair - t.val
  <2>1. ~(n = 0) /\ ~(n > 0 /\ t.cprl2) /\ ~(n < Pair - t.val)
    BY <1>1, <1>2, <1>6
  <2> DEFINE v == t.rcap + ((n - (Pair - t.val)) % (Pair - t.rcap))
             f == t.tf2 \/ SetsTf2(t, rules)
  <2> HIDE DEF v, f
  <2>2. CountTimer2(t, n, rules) = [t EXCEPT !.val = v, !.tf2 = f]
    BY <1>6, <2>1 DEF CountTimer2, v, f
  <2>3. [t EXCEPT !.val = v, !.tf2 = f] = Registers2(t, v, f)
    BY DEF Registers2, Counter2
  <2> QED
    BY <1>6, <2>1, <2>2, <2>3 DEF v, f
<1> QED
  <2>1. n = 0 \/ n > 0
    OBVIOUS
  <2>2. n < Pair - t.val \/ n >= Pair - t.val
    BY <1>1, <1>2
  <2> QED
    BY <1>1, <1>3, <1>4, <1>5, <1>6, <2>1, <2>2

\* One tick after n ticks is n + 1 ticks, for Timer 2.
LEMMA OneTickMore2 ==
    ASSUME NEW t \in Counter2, NEW n \in Nat, (n + 1) + Pair <= Word
    PROVE  Timer2Once(CountTimer2(t, n, rules)) = CountTimer2(t, n + 1, rules)
<1>1. /\ t.val \in 0..(Pair - 1) /\ t.rcap \in 0..(Pair - 1) /\ t.tf2 \in BOOLEAN
      /\ t.cprl2 \in BOOLEAN
  BY DEF Counter2
<1>2. Pair \in Nat \ {0} /\ Word \in Nat
  BY PairIsNat
<1>3. n + Pair <= Word /\ n + 1 \in Nat
  BY <1>2
<1> DEFINE sets == SetsTf2(t, rules)
<1>4. sets \in BOOLEAN
  BY DEF SetsTf2
<1>5. CASE t.cprl2
  <2> DEFINE x == t.val + n
             v == x % Pair
             f == t.tf2 \/ (sets /\ x >= Pair)
             g == f \/ sets
  <2>1. CountTimer2(t, n, rules) = Registers2(t, v, f)
    BY <1>3, <1>5, Count2Registers
  <2>2. CountTimer2(t, n + 1, rules) = 
           Registers2(t, (t.val + (n + 1)) % Pair, t.tf2 \/ (sets /\ t.val + (n + 1) >= Pair))
    BY <1>3, <1>5, Count2Registers
  <2>3. x \in Nat /\ x \in Int /\ t.val + (n + 1) = x + 1
    BY <1>1, <1>2
  <2> HIDE DEF x
  <2>4. v \in 0..(Pair - 1) /\ (x \in 0..(Pair - 1) => v = x)
    <3>1. v \in 0..(Pair - 1)
      BY <1>2, <2>3, Wrap
    <3>2. x \in 0..(Pair - 1) => v = x
      BY <1>2, <2>3, Wrap
    <3> QED
      BY <3>1, <3>2
  <2>5. v <= x
    <3>1. x \div Pair \in Nat /\ x = Pair * (x \div Pair) + v
      BY <1>2, <2>3, Quotient
    <3>2. Pair * (x \div Pair) \in Nat
      BY <1>2, <3>1
    <3> HIDE DEF v
    <3> QED
      BY <3>1, <3>2, <2>3, <2>4
  <2>6. /\ v = Pair - 1 => (x + 1) % Pair = 0
        /\ v # Pair - 1 => (x + 1) % Pair = v + 1
    BY <1>2, <2>3, OneMore
  <2>7. f \in BOOLEAN /\ g \in BOOLEAN
    BY <1>1, <1>4
  <2> HIDE DEF v
  <2>8. Timer2Once(Registers2(t, v, f)) =
           IF v = Pair - 1 THEN Registers2(t, IF t.cprl2 THEN 0 ELSE t.rcap, g)
           ELSE Registers2(t, v + 1, f)
    <3>1. g = (f \/ SetsTf2(t, rules))
      OBVIOUS
    <3> HIDE DEF f, g
    <3> QED
      BY <2>4, <2>7, <3>1, Tick2Registers
  <2>9. CASE v = Pair - 1
    <3>1. g = (t.tf2 \/ (sets /\ x + 1 >= Pair))
      BY <1>2, <2>3, <2>5, <2>9
    <3> QED
      BY <1>5, <2>1, <2>2, <2>3, <2>6, <2>8, <2>9, <3>1
  <2>10. CASE v # Pair - 1
    <3>1. x + 1 >= Pair <=> x >= Pair
      BY <1>2, <2>3, <2>4, <2>10
    <3>2. f = (t.tf2 \/ (sets /\ x + 1 >= Pair))
      BY <3>1
    <3> QED
      BY <2>1, <2>2, <2>3, <2>6, <2>8, <2>10, <3>2
  <2> QED
    BY <2>9, <2>10
<1>6. CASE ~t.cprl2
  <2>1. CASE n < Pair - t.val
    <3> DEFINE v == t.val + n
               f == t.tf2
               g == f \/ sets
    <3>1. CountTimer2(t, n, rules) = Registers2(t, v, f)
      BY <1>3, <1>6, <2>1, Count2Registers
    <3>2. v \in 0..(Pair - 1) /\ f \in BOOLEAN /\ g \in BOOLEAN
      BY <1>1, <1>2, <1>4, <2>1
    <3>3. Timer2Once(Registers2(t, v, f)) =
             IF v = Pair - 1 THEN Registers2(t, IF t.cprl2 THEN 0 ELSE t.rcap, g)
             ELSE Registers2(t, v + 1, f)
      <4>1. g = (f \/ SetsTf2(t, rules))
        OBVIOUS
      <4> HIDE DEF v, f, g
      <4> QED
        BY <3>2, <4>1, Tick2Registers
    <3>4. CASE v = Pair - 1
      <4>1. n + 1 >= Pair - t.val /\ (n + 1) - (Pair - t.val) = 0
        BY <1>1, <1>2, <3>4
      <4>2. CountTimer2(t, n + 1, rules) =
               Registers2(t, t.rcap + (((n + 1) - (Pair - t.val)) % (Pair - t.rcap)), t.tf2 \/ sets)
        BY <1>3, <1>6, <4>1, Count2Registers
      <4>3. 0 % (Pair - t.rcap) = 0
        <5> DEFINE d == Pair - t.rcap
        <5>1. d \in Nat \ {0} /\ 0 \in Int /\ 0 \in 0..(d - 1)
          BY <1>1, <1>2
        <5> HIDE DEF d
        <5>2. 0 % d = 0
          BY <5>1, Wrap
        <5> QED
          BY <5>2 DEF d
      <4>4. t.rcap + 0 = t.rcap
        BY <1>1, <1>2
      <4> HIDE DEF v
      <4> QED
        BY <1>6, <3>1, <3>3, <3>4, <4>1, <4>2, <4>3, <4>4
    <3>5. CASE v # Pair - 1
      <4>1. n + 1 < Pair - t.val /\ t.val + (n + 1) = v + 1
        BY <1>1, <1>2, <2>1, <3>5
      <4>2. CountTimer2(t, n + 1, rules) = Registers2(t, t.val + (n + 1), t.tf2)
        BY <1>3, <1>6, <4>1, Count2Registers
      <4> HIDE DEF v
      <4> QED
        BY <3>1, <3>3, <3>5, <4>1, <4>2
    <3> QED
      BY <3>4, <3>5
  <2>2. CASE n >= Pair - t.val
    <3> DEFINE d == Pair - t.rcap
               m == n - (Pair - t.val)
               v == t.rcap + (m % d)
               f == t.tf2 \/ sets
    <3>1. CountTimer2(t, n, rules) = Registers2(t, v, f)
      BY <1>3, <1>6, <2>2, Count2Registers
    <3>2. n + 1 >= Pair - t.val /\ (n + 1) - (Pair - t.val) = m + 1 /\ m \in Nat /\ m \in Int
          /\ d \in Nat \ {0}
      BY <1>1, <1>2, <2>2
    <3>3. CountTimer2(t, n + 1, rules) = Registers2(t, t.rcap + ((m + 1) % d), f)
      <4>1. CountTimer2(t, n + 1, rules) =
               Registers2(t, t.rcap + (((n + 1) - (Pair - t.val)) % (Pair - t.rcap)), t.tf2 \/ sets)
        BY <1>3, <1>6, <3>2, Count2Registers
      <4> QED
        BY <3>2, <4>1
    <3>4. d = Pair - t.rcap
      OBVIOUS
    <3> HIDE DEF d, m
    <3>5. m % d \in 0..(d - 1)
      BY <3>2, Wrap
    <3>6. /\ m % d = d - 1 => (m + 1) % d = 0
          /\ m % d # d - 1 => (m + 1) % d = (m % d) + 1
      BY <3>2, OneMore
    <3>7. v \in 0..(Pair - 1) /\ f \in BOOLEAN /\ (v = Pair - 1 <=> m % d = d - 1)
          /\ v + 1 = t.rcap + ((m % d) + 1) /\ t.rcap + 0 = t.rcap
      BY <1>1, <1>2, <1>4, <3>4, <3>5
    <3>8. Timer2Once(Registers2(t, v, f)) =
             IF v = Pair - 1 THEN Registers2(t, IF t.cprl2 THEN 0 ELSE t.rcap, f)
             ELSE Registers2(t, v + 1, f)
      <4>1. f = (f \/ SetsTf2(t, rules))
        BY <1>4
      <4> HIDE DEF v, f
      <4> QED
        BY <3>7, <4>1, Tick2Registers
    <3> HIDE DEF v, f
    <3> QED
      BY <1>6, <3>1, <3>3, <3>6, <3>7, <3>8
  <2> QED
    <3>1. n < Pair - t.val \/ n >= Pair - t.val
      BY <1>1, <1>2
    <3> QED
      BY <2>1, <2>2, <3>1
<1> QED
  BY <1>1, <1>5, <1>6

------------------------------------------------------------------------------
\* Any number of ticks

\* Ticks one at a time: the function that Times defines obeys its equation when
\* some function does, and by induction it is that one.
LEMMA TimesTick ==
    ASSUME NEW t \in Counter, NEW n \in Nat, n + Pair <= Word
    PROVE  Times(n, TickOnce, t) = IncTimer(t, n)
<1> DEFINE after[k \in 0..n] == IF k = 0 THEN t ELSE TickOnce(after[k - 1])
           G == [k \in 0..n |-> IncTimer(t, k)]
           H(f) == [k \in 0..n |-> IF k = 0 THEN t ELSE TickOnce(f[k - 1])]
<1>1. G = H(G)
  <2> SUFFICES ASSUME NEW k \in 0..n
               PROVE  IncTimer(t, k) = IF k = 0 THEN t ELSE TickOnce(G[k - 1])
    OBVIOUS
  <2>1. CASE k = 0
    BY <2>1, NoTicks
  <2>2. CASE k # 0
    <3>1. k - 1 \in 0..n /\ k - 1 \in Nat /\ (k - 1) + 1 = k /\ ((k - 1) + 1) + Pair <= Word
      BY <2>2, PairIsNat
    <3>2. TickOnce(IncTimer(t, k - 1)) = IncTimer(t, (k - 1) + 1)
      BY <3>1, OneTickMore
    <3>3. G[k - 1] = IncTimer(t, k - 1)
      BY <3>1
    <3> QED
      BY <2>2, <3>1, <3>2, <3>3
  <2> QED
    BY <2>1, <2>2
<1>2. after = CHOOSE f : f = H(f)
  OBVIOUS
<1> HIDE DEF after, G
<1>3. after = H(after)
  BY <1>1, <1>2
<1>4. \A k \in 0..n : after[k] = IF k = 0 THEN t ELSE TickOnce(after[k - 1])
  BY <1>3
<1>5. \A k \in 0..n : G[k] = IF k = 0 THEN t ELSE TickOnce(G[k - 1])
  BY <1>1
<1> DEFINE S == {k \in Nat : k <= n => after[k] = G[k]}
<1>6. 0 \in S
  BY <1>4, <1>5
<1>7. \A k \in Nat : k \in S => k + 1 \in S
  <2> SUFFICES ASSUME NEW k \in Nat, k \in S, k + 1 <= n PROVE after[k + 1] = G[k + 1]
    OBVIOUS
  <2>1. k + 1 \in 0..n /\ (k + 1) - 1 = k /\ k + 1 # 0 /\ k <= n
    OBVIOUS
  <2> QED
    BY <1>4, <1>5, <2>1
<1> HIDE DEF S
<1>8. n \in S
  BY <1>6, <1>7, Induction
<1>9. after[n] = IncTimer(t, n)
  BY <1>8 DEF S, G
<1> QED
  BY <1>9 DEF Times, after

\* The same for Timer 2.
LEMMA TimesTick2 ==
    ASSUME NEW t \in Counter2, NEW n \in Nat, n + Pair <= Word
    PROVE  Times(n, Timer2Once, t) = CountTimer2(t, n, rules)
<1> DEFINE after[k \in 0..n] == IF k = 0 THEN t ELSE Timer2Once(after[k - 1])
           G == [k \in 0..n |-> CountTimer2(t, k, rules)]
           H(f) == [k \in 0..n |-> IF k = 0 THEN t ELSE Timer2Once(f[k - 1])]
<1>1. G = H(G)
  <2> SUFFICES ASSUME NEW k \in 0..n
               PROVE  CountTimer2(t, k, rules) = IF k = 0 THEN t ELSE Timer2Once(G[k - 1])
    OBVIOUS
  <2>1. CASE k = 0
    BY <2>1 DEF CountTimer2
  <2>2. CASE k # 0
    <3>1. k - 1 \in 0..n /\ k - 1 \in Nat /\ (k - 1) + 1 = k /\ ((k - 1) + 1) + Pair <= Word
      BY <2>2, PairIsNat
    <3>2. Timer2Once(CountTimer2(t, k - 1, rules)) = CountTimer2(t, (k - 1) + 1, rules)
      BY <3>1, OneTickMore2
    <3>3. G[k - 1] = CountTimer2(t, k - 1, rules)
      BY <3>1
    <3> QED
      BY <2>2, <3>1, <3>2, <3>3
  <2> QED
    BY <2>1, <2>2
<1>2. after = CHOOSE f : f = H(f)
  OBVIOUS
<1> HIDE DEF after, G
<1>3. after = H(after)
  BY <1>1, <1>2
<1>4. \A k \in 0..n : after[k] = IF k = 0 THEN t ELSE Timer2Once(after[k - 1])
  BY <1>3
<1>5. \A k \in 0..n : G[k] = IF k = 0 THEN t ELSE Timer2Once(G[k - 1])
  BY <1>1
<1> DEFINE S == {k \in Nat : k <= n => after[k] = G[k]}
<1>6. 0 \in S
  BY <1>4, <1>5
<1>7. \A k \in Nat : k \in S => k + 1 \in S
  <2> SUFFICES ASSUME NEW k \in Nat, k \in S, k + 1 <= n PROVE after[k + 1] = G[k + 1]
    OBVIOUS
  <2>1. k + 1 \in 0..n /\ (k + 1) - 1 = k /\ k + 1 # 0 /\ k <= n
    OBVIOUS
  <2> QED
    BY <1>4, <1>5, <2>1
<1> HIDE DEF S
<1>8. n \in S
  BY <1>6, <1>7, Induction
<1>9. after[n] = CountTimer2(t, n, rules)
  BY <1>8 DEF S, G
<1> QED
  BY <1>9 DEF Times, after

\* Counting keeps the ranges of the registers.
LEMMA IncKeepsCounter ==
    ASSUME NEW t \in Counter, NEW n \in Nat, n + Pair <= Word
    PROVE  IncTimer(t, n) \in Counter
<1> DEFINE S == {k \in Nat : k <= n => IncTimer(t, k) \in Counter}
<1>1. 0 \in S
  BY NoTicks
<1>2. \A k \in Nat : k \in S => k + 1 \in S
  <2> SUFFICES ASSUME NEW k \in Nat, k \in S, k + 1 <= n PROVE IncTimer(t, k + 1) \in Counter
    OBVIOUS
  <2>1. (k + 1) + Pair <= Word /\ k <= n
    BY PairIsNat
  <2>2. TickOnce(IncTimer(t, k)) = IncTimer(t, k + 1)
    BY <2>1, OneTickMore
  <2> QED
    BY <2>1, <2>2, TickKeepsCounter
<1> HIDE DEF S
<1>3. n \in S
  BY <1>1, <1>2, Induction
<1> QED
  BY <1>3 DEF S

\* The same for Timer 2.
LEMMA CountKeepsCounter2 ==
    ASSUME NEW t \in Counter2, NEW n \in Nat, n + Pair <= Word
    PROVE  CountTimer2(t, n, rules) \in Counter2
<1>1. /\ t.val \in 0..(Pair - 1) /\ t.rcap \in 0..(Pair - 1) /\ t.tf2 \in BOOLEAN
      /\ t.cprl2 \in BOOLEAN /\ Pair \in Nat \ {0}
  BY PairIsNat DEF Counter2
<1>2. \A v \in 0..(Pair - 1), f \in BOOLEAN : Registers2(t, v, f) \in Counter2
  BY Registers2Fields
<1>3. SetsTf2(t, rules) \in BOOLEAN
  BY DEF SetsTf2
<1>4. CASE t.cprl2
  <2> DEFINE f == t.tf2 \/ (SetsTf2(t, rules) /\ t.val + n >= Pair)
             v == (t.val + n) % Pair
  <2>1. CountTimer2(t, n, rules) = Registers2(t, v, f)
    BY <1>4, Count2Registers
  <2>2. t.val + n \in Int /\ f \in BOOLEAN
    BY <1>1, <1>3
  <2>3. v \in 0..(Pair - 1)
    BY <1>1, <2>2, Wrap
  <2> HIDE DEF v, f
  <2> QED
    BY <1>2, <2>1, <2>2, <2>3
<1>5. CASE ~t.cprl2 /\ n < Pair - t.val
  <2>1. CountTimer2(t, n, rules) = Registers2(t, t.val + n, t.tf2)
    BY <1>5, Count2Registers
  <2>2. t.val + n \in 0..(Pair - 1)
    BY <1>1, <1>5
  <2> QED
    BY <1>1, <1>2, <2>1, <2>2
<1>6. CASE ~t.cprl2 /\ n >= Pair - t.val
  <2> DEFINE d == Pair - t.rcap
             v == t.rcap + ((n - (Pair - t.val)) % d)
             f == t.tf2 \/ SetsTf2(t, rules)
  <2>1. CountTimer2(t, n, rules) = Registers2(t, v, f)
    BY <1>6, Count2Registers
  <2>2. d \in Nat \ {0} /\ n - (Pair - t.val) \in Int /\ f \in BOOLEAN /\ d = Pair - t.rcap
    BY <1>1, <1>3
  <2> HIDE DEF d
  <2>3. (n - (Pair - t.val)) % d \in 0..(d - 1)
    BY <2>2, Wrap
  <2>4. v \in 0..(Pair - 1)
    BY <1>1, <2>2, <2>3
  <2> HIDE DEF v, f
  <2> QED
    BY <1>2, <2>1, <2>2, <2>4
<1> QED
  <2>1. n < Pair - t.val \/ n >= Pair - t.val
    BY <1>1
  <2> QED
    BY <1>1, <1>4, <1>5, <1>6, <2>1

------------------------------------------------------------------------------
\* The theorem

\* The numbers of ticks for which no sum of register and ticks wraps in uint32_t.
Summable == \A n \in CallSizes : n + Pair <= Word

\* The counters agree, and their registers are in range.
LockstepInv == TimersCountTicks /\ fast \in Counter /\ fast2 \in Counter2

\* It holds when the counters start, with whatever their registers hold.
LEMMA LockstepStarts == LockstepInit => LockstepInv
<1> SUFFICES ASSUME LockstepInit PROVE LockstepInv
  OBVIOUS
<1>1. PICK tl, th \in 0..(Byte - 1), m \in 0..3 :
         fast = [tl |-> tl, th |-> th, tf |-> FALSE, tr |-> TRUE,
                 mode |-> m, gate |-> FALSE, ct |-> FALSE]
  BY DEF LockstepInit
<1>2. fast \in Counter
  BY <1>1 DEF Counter
<1>3. PICK v, r \in Pairs, cap, baud \in BOOLEAN :
         fast2 = [val |-> v, rcap |-> r, tf2 |-> FALSE, exf2 |-> FALSE, tr2 |-> TRUE,
                  ct2 |-> FALSE, exen2 |-> FALSE, cprl2 |-> cap, baud |-> baud]
  BY DEF LockstepInit
<1>5. v \in 0..(Pair - 1) /\ r \in 0..(Pair - 1)
  BY <1>3, LockstepAssumption
<1>6. fast2 \in Counter2
  BY <1>3, <1>5 DEF Counter2
<1> QED
  BY <1>2, <1>6 DEF LockstepInit, LockstepInv, TimersCountTicks

\* And every call, of however many ticks, keeps it.
LEMMA LockstepStep == Summable /\ LockstepInv /\ [LockstepNext]_lockstep => LockstepInv'
<1> SUFFICES ASSUME Summable, LockstepInv, [LockstepNext]_lockstep PROVE LockstepInv'
  OBVIOUS
<1>1. fast = slow /\ fast2 = slow2 /\ fast \in Counter /\ fast2 \in Counter2
  BY DEF LockstepInv, TimersCountTicks
<1>2. CASE Count
  <2>1. PICK n \in CallSizes : /\ fast' = IncTimer(fast, n)
                               /\ slow' = Times(n, TickOnce, slow)
                               /\ fast2' = CountTimer2(fast2, n, rules)
                               /\ slow2' = Times(n, Timer2Once, slow2)
    BY <1>2 DEF Count
  <2>2. n \in Nat /\ n + Pair <= Word
    BY LockstepAssumption, PairIsNat DEF Summable
  <2>3. slow' = IncTimer(fast, n) /\ IncTimer(fast, n) \in Counter
    BY <1>1, <2>1, <2>2, TimesTick, IncKeepsCounter
  <2>4. slow2' = CountTimer2(fast2, n, rules) /\ CountTimer2(fast2, n, rules) \in Counter2
    BY <1>1, <2>1, <2>2, TimesTick2, CountKeepsCounter2
  <2> QED
    BY <2>1, <2>3, <2>4 DEF LockstepInv, TimersCountTicks
<1>3. CASE ClearFlags
  <2>1. [fast EXCEPT !.tf = FALSE] \in Counter /\ [fast2 EXCEPT !.tf2 = FALSE] \in Counter2
    BY <1>1 DEF Counter, Counter2
  <2> QED
    BY <1>1, <1>3, <2>1 DEF ClearFlags, LockstepInv, TimersCountTicks
<1>4. CASE UNCHANGED lockstep
  BY <1>1, <1>4 DEF lockstep, LockstepInv, TimersCountTicks, Counter, Counter2
<1> QED
  BY <1>2, <1>3, <1>4 DEF LockstepNext

\* For registers of any size, timers_tick may group the cycles as it likes: counting n
\* ticks at once leaves every timer, its reloads and its flags as n single ticks do, in
\* every mode, up to the tick counts at which a 32-bit sum would wrap.
THEOREM TimersCountTicksCorrect == Summable /\ LockstepSpec => []TimersCountTicks
<1>1. LockstepInit => LockstepInv
  BY LockstepStarts
<1>2. Summable /\ LockstepInv /\ [LockstepNext]_lockstep => LockstepInv'
  BY LockstepStep
<1>3. LockstepInv => TimersCountTicks
  BY DEF LockstepInv
<1>4. Summable => []Summable
  OBVIOUS
<1> QED
  BY <1>1, <1>2, <1>3, <1>4, PTL DEF LockstepSpec

=============================================================================
