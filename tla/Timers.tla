-------------------------------- MODULE Timers --------------------------------
(***************************************************************************)
(* lib/timers.c: the queue of time-stamped signal edges, the loop of       *)
(* timers_tick that advances emulated time from edge to edge, the input    *)
(* routing, and the timers those edges and cycles drive.                   *)
(*                                                                         *)
(* timers_tick is three actions, TickBegin, TickEdge and TickEnd.  Nothing *)
(* else runs between them: host and firmware are sequential with the tick. *)
(* Module TimersIsr gives up that assumption.                              *)
(***************************************************************************)
EXTENDS TimerCounters, Integers, Sequences, FiniteSets

CONSTANTS
    MaxEvents,   \* TIMERS_MAX_EVENTS
    Inputs,      \* the input ids the host samples
    Routes,      \* the routes the host sets up
    Emits,       \* the edges the host emits itself, as [signal, edge]
    TickSizes,   \* the cycles of one timers_tick
    Pulses,      \* the calls of timers_pulse_t0, _t1 and _t2, as [signal, n]
    Boots,       \* the timer registers firmware starts from
    Rewrites,    \* what firmware writes later: records of some fields of sfr
    MaxTime,     \* bound on emulated time
    MaxEdges     \* bound on the number of queued edges

Clocks == {"T0_CLK", "T1_CLK", "T2_CLK"}
Signals == Clocks \cup {"T2_EX"}
Polarities == {"rising", "falling"}
Route == [enabled : BOOLEAN, signal : Signals, edge : Polarities]

ASSUME TimersAssumption ==
    /\ MaxEvents \in Nat \ {0}
    /\ MaxTime \in Nat /\ MaxEdges \in Nat
    /\ TickSizes \subseteq Nat

ASSUME HostAssumption ==
    /\ Pulses \subseteq [signal : Clocks, n : Nat]
    /\ Routes \subseteq Route
    /\ Emits \subseteq [signal : Signals, edge : Polarities]

VARIABLES
    cycles_total,
    events,        \* the queue, in array order
    routes, known, levels,
    profile,
    sfr,           \* [t0, t1, t2, pins]: timer registers, INT pins that are high
    target,        \* the end of the running timers_tick, or NoTick
    serial,        \* history: edges queued so far, the next edge's id
    done           \* history: the edges that have acted

queue == <<cycles_total, events, serial, done>>
inputs == <<routes, known, levels>>
vars == <<cycles_total, events, routes, known, levels, profile, sfr, target,
          serial, done>>

NoTick == -1
Edge == [id : 0..MaxEdges, ts : 0..MaxTime, signal : Signals, edge : Polarities]
NoRoute == [enabled |-> FALSE, signal |-> "T0_CLK", edge |-> "rising"]

Init ==
    /\ cycles_total = 0 /\ events = <<>>
    /\ routes = [i \in Inputs |-> NoRoute] /\ known = {} /\ levels = {}
    /\ profile = "pragmatic"
    /\ sfr \in Boots
    /\ target = NoTick
    /\ serial = 0 /\ done = {}

------------------------------------------------------------------------------
\* The timers.  clk tells what clocks them: FALSE cycles, TRUE signal edges.

Runs(t, pin, s) == t.tr /\ (t.gate => pin \in s.pins)

Clock0Always(s, n, clk) ==
    IF ~Runs(s.t0, "INT0", s) THEN s ELSE [s EXCEPT !.t0 = IncTimer(@, n)]
Clock0(s, n, clk) ==
    IF s.t0.ct # clk \/ ~Runs(s.t0, "INT0", s) THEN s
    ELSE [s EXCEPT !.t0 = IncTimer(@, n)]

\* Timer 0 in mode 3 takes TR1, TF1 and the controls of Timer 1 for its TH0.
Clock1(s, n, clk) ==
    LET th0 == Inc8(s.t0.th, n)
    IN  IF s.t1.ct # clk \/ ~Runs(s.t1, "INT1", s) THEN s
        ELSE IF s.t0.mode = 3
             THEN [s EXCEPT !.t0.th = th0.val, !.t1.tf = @ \/ th0.over]
        ELSE IF s.t1.mode = 3 THEN s
        ELSE [s EXCEPT !.t1 = IncTimer(@, n)]

Clock2(s, n, clk) ==
    IF ~s.t2.tr2 \/ s.t2.ct2 # clk THEN s
    ELSE [s EXCEPT !.t2 = CountTimer2(@, n, profile)]

Advance(s, n) ==
    IF n = 0 THEN s ELSE Clock2(Clock1(Clock0(s, n, FALSE), n, FALSE), n, FALSE)

ClockBy(signal, s, n) ==
    CASE signal = "T0_CLK" -> Clock0(s, n, TRUE)
      [] signal = "T1_CLK" -> Clock1(s, n, TRUE)
      [] signal = "T2_CLK" -> Clock2(s, n, TRUE)

Dispatch(s, e) ==
    IF e.signal = "T2_EX"
    THEN [s EXCEPT !.t2 = ExternalEvent(@, profile)]
    ELSE ClockBy(e.signal, s, 1)

\* The timers first catch up with the time of an edge, then the edge acts.
EdgeFirst(s, n, e) == Advance(Dispatch(s, e), n)
CatchUp(s, n, e) == Dispatch(Advance(s, n), e)

------------------------------------------------------------------------------
\* timers_tick

Later(a, b) == IF a >= b THEN a ELSE b

Due(t) == {i \in 1..Len(events) : events[i].ts <= t}

\* The entry the scan of the queue picks: the first of the earliest due edges.
FirstDue(i, t) == i \in Due(t) /\ \A j \in Due(t) : i <= j
NextDue(i, t) ==
    /\ i \in Due(t)
    /\ \A j \in Due(t) : \/ events[i].ts < events[j].ts
                         \/ events[i].ts = events[j].ts /\ i <= j

\* The last entry fills the gap.
DropLast(i) == SubSeq(events, 1, Len(events) - 1)
Remove(i) == SubSeq([events EXCEPT ![i] = events[Len(events)]], 1, Len(events) - 1)

TickBegin ==
    /\ target = NoTick
    /\ \E c \in TickSizes : /\ cycles_total + c <= MaxTime
                            /\ target' = cycles_total + c
    /\ UNCHANGED <<queue, inputs, profile, sfr>>

TickEdge ==
    /\ target # NoTick
    /\ \E i \in 1..Len(events) :
        LET e == events[i]
            now == Later(cycles_total, e.ts)
        IN  /\ NextDue(i, target)
            /\ events' = Remove(i)
            /\ cycles_total' = now
            /\ sfr' = CatchUp(sfr, now - cycles_total, e)
            /\ done' = done \cup {e}
    /\ UNCHANGED <<inputs, profile, target, serial>>

TickEnd ==
    /\ target # NoTick /\ Due(target) = {}
    /\ cycles_total' = Later(cycles_total, target)
    /\ sfr' = Advance(sfr, Later(cycles_total, target) - cycles_total)
    /\ target' = NoTick
    /\ UNCHANGED <<events, inputs, profile, serial, done>>

------------------------------------------------------------------------------
\* Calls of the host

AsStamped(ts) == ts
NotBefore(ts) == Later(cycles_total, ts)

Overfull == Len(events) > MaxEvents
Full == Len(events) >= MaxEvents

\* timers_emit_signal_edge: refused when the queue is full.
Emit(signal, edge, ts) ==
    IF Full
    THEN UNCHANGED queue
    ELSE /\ serial < MaxEdges
         /\ events' = Append(events, [id |-> serial, ts |-> NotBefore(ts),
                                      signal |-> signal, edge |-> edge])
         /\ serial' = serial + 1
         /\ UNCHANGED <<cycles_total, done>>

EmitEdge ==
    /\ target = NoTick
    /\ \E k \in Emits, ts \in 0..MaxTime : Emit(k.signal, k.edge, ts)
    /\ UNCHANGED <<inputs, profile, sfr, target>>

\* timers_input_sample: the first sample of an input only records its level.
InputSample ==
    /\ target = NoTick
    /\ \E i \in Inputs, high \in BOOLEAN, ts \in 0..MaxTime :
        LET prev == i \in levels
            edge == IF prev THEN "falling" ELSE "rising"
        IN  /\ known' = known \cup {i}
            /\ levels' = IF high THEN levels \cup {i} ELSE levels \ {i}
            /\ IF i \in known /\ prev # high /\ routes[i].enabled /\ routes[i].edge = edge
               THEN Emit(routes[i].signal, edge, ts)
               ELSE UNCHANGED queue
    /\ UNCHANGED <<routes, profile, sfr, target>>

RouteInput ==
    /\ target = NoTick
    /\ \E i \in Inputs, r \in Routes : routes' = [routes EXCEPT ![i] = r]
    /\ UNCHANGED <<queue, known, levels, profile, sfr, target>>

\* The pulse functions clock a counter directly, past the queue.
Pulse ==
    /\ target = NoTick
    /\ \E p \in Pulses : sfr' = ClockBy(p.signal, sfr, p.n)
    /\ UNCHANGED <<queue, inputs, profile, target>>

SetProfile ==
    /\ target = NoTick
    /\ profile' \in {"strict", "pragmatic"}
    /\ UNCHANGED <<queue, inputs, sfr, target>>

\* Firmware and the interrupt controller, between two ticks.
WriteRegisters ==
    /\ target = NoTick
    /\ \E r \in Rewrites :
          sfr' = [f \in DOMAIN sfr |-> IF f \in DOMAIN r THEN r[f] ELSE sfr[f]]
    /\ UNCHANGED <<queue, inputs, profile, target>>

Tick == TickBegin \/ TickEdge \/ TickEnd
Host == EmitEdge \/ InputSample \/ RouteInput \/ Pulse \/ SetProfile
Next == Tick \/ Host \/ WriteRegisters

Spec == Init /\ [][Next]_vars

------------------------------------------------------------------------------
\* Properties

\* The queue and the time base stay in their ranges, and the queue in its bound.
TypeOK ==
    /\ cycles_total \in 0..MaxTime
    /\ events \in Seq(Edge) /\ Len(events) <= MaxEvents
    /\ routes \in [Inputs -> Route \cup {NoRoute}]
    /\ known \subseteq Inputs /\ levels \subseteq Inputs
    /\ profile \in {"strict", "pragmatic"}
    /\ target \in 0..MaxTime \cup {NoTick}
    /\ serial \in 0..MaxEdges
    /\ done \in SUBSET Edge

\* Emulated time never passes a queued edge, not even while a tick is under way
\* or after edges were stamped in the past: no edge is applied late.
NoStaleEvent == \A i \in 1..Len(events) : events[i].ts >= cycles_total

Queued == {events[i] : i \in 1..Len(events)}
Ids(S) == {e.id : e \in S}

\* Every edge the queue accepted is queued or has acted, exactly once: filling
\* the gap of a removed entry with the last one loses and repeats none.
NoEdgeLost ==
    /\ \A i, j \in 1..Len(events) : events[i].id = events[j].id => i = j
    /\ Ids(Queued) \cap Ids(done) = {}
    /\ Ids(Queued \cup done) = 0..(serial - 1)

\* Neither firmware nor a direct pulse touches timer t.
LeftAlone(t, clock) ==
    /\ \A r \in Rewrites : t \notin DOMAIN r
    /\ \A p \in Pulses : p.signal # clock

\* Timer 2 runs freely on cycles and captures on T2EX.
FreeRunning ==
    /\ LeftAlone("t2", "T2_CLK")
    /\ sfr.t2.tr2 /\ ~sfr.t2.ct2 /\ sfr.t2.cprl2 /\ sfr.t2.exen2 /\ ~sfr.t2.baud

Done(signal) == {e \in done : e.signal = signal}
LastStamp(S) == CHOOSE t \in {e.ts : e \in S} : \A e \in S : e.ts <= t

\* The count then is the emulated time, however cpu_run grouped the cycles and
\* wherever edges split them, and the captured value is the time of the edge.
CaptureExact ==
    FreeRunning =>
        /\ sfr.t2.val = cycles_total % Pair
        /\ Done("T2_EX") # {} => sfr.t2.rcap = LastStamp(Done("T2_EX")) % Pair

CountsEdges == sfr.t0.tr /\ sfr.t0.ct /\ ~sfr.t0.gate /\ sfr.t0.mode = 1

\* Timer 0 as a 16-bit edge counter holds the number of T0 edges that acted.
CountExact ==
    LeftAlone("t0", "T0_CLK") /\ CountsEdges =>
        sfr.t0.th * Byte + sfr.t0.tl = Cardinality(Done("T0_CLK")) % Pair

Timeline == INSTANCE SignalTimeline
            WITH Edges <- Edge, now <- cycles_total, pending <- Queued, done <- done

\* The array with its swaps and the tick loop implement the timeline: edges act
\* in the order of their stamps, each exactly at its stamp.
ImplementsTimeline == Timeline!Spec
=============================================================================
