------------------------------ MODULE MCMachine -------------------------------
(* Values of the constants of Machine for TLC. *)
EXTENDS Machine

\* Timer 0, and Timer 1 that may preempt it or waits for it.
AllEnabled == {Fitted \cup {"EA"}, Fitted}

\* 7 cycles a second, of the 7.5 there are.
OneCrystal == {[fosc_hz |-> 15, clocks_per_cycle |-> 2]}

TwoBits == <<0, 1>>
=============================================================================
