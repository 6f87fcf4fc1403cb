------------------------------- MODULE MCTimers -------------------------------
(* Values of the constants of Timers for TLC. *)
EXTENDS Timers

Stopped == [tl |-> 0, th |-> 0, tf |-> FALSE, tr |-> FALSE, mode |-> 1,
            gate |-> FALSE, ct |-> FALSE]
Stopped2 == [val |-> 0, rcap |-> 0, tf2 |-> FALSE, exf2 |-> FALSE, tr2 |-> FALSE,
             ct2 |-> FALSE, exen2 |-> FALSE, cprl2 |-> FALSE, baud |-> FALSE]
Off == [t0 |-> Stopped, t1 |-> Stopped, t2 |-> Stopped2, pins |-> {"INT0", "INT1"}]

\* Timer 0 counts edges, Timer 2 runs freely and captures, Timer 1 is gated.
Measuring == [Off EXCEPT !.t0.tr = TRUE, !.t0.ct = TRUE,
                         !.t1.tr = TRUE, !.t1.gate = TRUE,
                         !.t2.tr2 = TRUE, !.t2.exen2 = TRUE, !.t2.cprl2 = TRUE]

\* Split, so that TH0 takes the controls of Timer 1, and Timer 2 as baud generator;
\* reloading behind its gate, and Timer 2 as edge counter.
Split == [Off EXCEPT !.t0.tr = TRUE, !.t0.mode = 3, !.t1.tr = TRUE,
                     !.t2.tr2 = TRUE, !.t2.exen2 = TRUE, !.t2.baud = TRUE]
Gated == [Off EXCEPT !.t0.tr = TRUE, !.t0.gate = TRUE, !.t0.mode = 2,
                     !.t2.tr2 = TRUE, !.t2.ct2 = TRUE, !.t2.exen2 = TRUE]
SomeBoots == {Measuring, Split, Gated}

\* Firmware turns Timer 1 into an edge counter.
SomeRewrites == {[t1 |-> [Stopped EXCEPT !.tr = TRUE, !.ct = TRUE]]}

\* As many pulses at once as overflow the counter.
PulsesOnT1 == {[signal |-> "T1_CLK", n |-> Pair]}

CaptureEmits == {[signal |-> "T2_EX", edge |-> "falling"]}
Routed == {[enabled |-> TRUE, signal |-> "T0_CLK", edge |-> "falling"]}
=============================================================================
