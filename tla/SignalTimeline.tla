---------------------------- MODULE SignalTimeline ----------------------------
(***************************************************************************)
(* What lib/timers.c promises about external edges: emulated time never    *)
(* passes a queued edge, and each edge acts exactly at its time stamp.     *)
(* docs/en/TIMERS_IMPLEMENTATION.md calls this a "deterministic ordering   *)
(* between instruction execution and external signal activity".            *)
(***************************************************************************)
EXTENDS Naturals

CONSTANT Edges   \* the edges, records with a time stamp ts

VARIABLES now, pending, done

vars == <<now, pending, done>>

Init == now = 0 /\ pending = {} /\ done = {}

\* An edge is queued at the present or in the future.
Queue == \E e \in Edges \ (pending \cup done) :
            /\ e.ts >= now
            /\ pending' = pending \cup {e}
            /\ UNCHANGED <<now, done>>

\* An edge acts: time moves to its stamp, and no other edge was due before.
Act == \E e \in pending :
          /\ \A f \in pending : e.ts <= f.ts
          /\ now' = e.ts
          /\ pending' = pending \ {e}
          /\ done' = done \cup {e}

\* Time moves on its own only when no edge is due.
Advance == /\ now' > now
           /\ \A e \in pending : e.ts > now'
           /\ UNCHANGED <<pending, done>>

Next == Queue \/ Act \/ Advance

Spec == Init /\ [][Next]_vars
=============================================================================
