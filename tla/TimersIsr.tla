------------------------------ MODULE TimersIsr -------------------------------
(***************************************************************************)
(* The queue of lib/timers.c when timers_input_sample runs in an interrupt *)
(* of the host machine, as the documentation invites, while the emulator   *)
(* loop is inside timers_tick.  An interrupt runs to its end between two   *)
(* accesses of the loop to event_count or events; nothing guards them.     *)
(* Time stamps are left out: any entry may be the earliest.                *)
(***************************************************************************)
EXTENDS Naturals

CONSTANTS
    MaxEvents,   \* TIMERS_MAX_EVENTS
    MaxEdges     \* bound on the number of accepted edges

VARIABLES
    events,        \* events[0 .. MaxEvents - 1]
    event_count,
    pc,            \* where timers_event_pop_next_due is
    best, loaded,  \* its locals: the chosen index, event_count as last read
    serial,        \* history: edges accepted so far, the next edge's id
    taken          \* history: the edges handed to the dispatcher, with repeats

vars == <<events, event_count, pc, best, loaded, serial, taken>>

Indices == 0..(MaxEvents - 1)
NoEdge == MaxEdges   \* what an entry holds before its first use

Init ==
    /\ events = [i \in Indices |-> NoEdge] /\ event_count = 0
    /\ pc = "scan" /\ best = 0 /\ loaded = 0
    /\ serial = 0
    /\ taken = [e \in 0..(MaxEdges - 1) |-> 0]

------------------------------------------------------------------------------
\* The emulator loop: timers_event_pop_next_due, one access at a time

\* The loop over the entries leaves best at one of them.
ScanQueue ==
    /\ pc = "scan"
    /\ \E i \in Indices : i < event_count /\ best' = i
    /\ pc' = "copy"
    /\ UNCHANGED <<events, event_count, loaded, serial, taken>>

\* *out_event = events[best]
CopyOut ==
    /\ pc = "copy"
    /\ taken' = [taken EXCEPT ![events[best]] = @ + 1]
    /\ pc' = "load"
    /\ UNCHANGED <<events, event_count, best, loaded, serial>>

\* event_count-- reads the count ...
LoadCount ==
    /\ pc = "load"
    /\ loaded' = event_count
    /\ pc' = "store"
    /\ UNCHANGED <<events, event_count, best, serial, taken>>

\* ... and stores it less one.
StoreCount ==
    /\ pc = "store"
    /\ event_count' = loaded - 1
    /\ pc' = "fill"
    /\ UNCHANGED <<events, best, loaded, serial, taken>>

\* events[best] = events[event_count]: the compiler may read event_count again
\* or still have it in a register.
Fill(i, last) == [events EXCEPT ![i] = events[last]]

FillGap ==
    /\ pc = "fill"
    /\ \E last \in {event_count, loaded - 1} :
          last \in Indices /\ events' = Fill(best, last)
    /\ pc' = "scan"
    /\ UNCHANGED <<event_count, best, loaded, serial, taken>>

Pop == ScanQueue \/ CopyOut \/ LoadCount \/ StoreCount \/ FillGap

------------------------------------------------------------------------------
\* The interrupt handler, at any point of the loop

\* timers_event_push, reached from timers_input_sample.
Push ==
    /\ event_count < MaxEvents /\ serial < MaxEdges
    /\ events' = [events EXCEPT ![event_count] = serial]
    /\ event_count' = event_count + 1
    /\ serial' = serial + 1
    /\ UNCHANGED <<pc, best, loaded, taken>>

Next == Pop \/ Push

Spec == Init /\ [][Next]_vars

------------------------------------------------------------------------------
\* Properties

Copies(e) == {i \in Indices : i < event_count /\ events[i] = e}

\* Between two pops every accepted edge is in the queue once or was dispatched
\* once: none is lost, none acts twice.
EdgeConservation ==
    pc = "scan" =>
        \A e \in 0..(serial - 1) :
            \/ taken[e] = 1 /\ Copies(e) = {}
            \/ taken[e] = 0 /\ \E i \in Indices : Copies(e) = {i}
=============================================================================
