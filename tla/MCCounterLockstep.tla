-------------------------- MODULE MCCounterLockstep --------------------------
(* Values of the constants of CounterLockstep for TLC. *)
EXTENDS CounterLockstep

\* From no tick to several wraps of the 16-bit pair.
ShortTicks == {0, 1, 2, 3, 5, 2 * Pair + 1}

\* The ends of the range.
Ends == {0, 1, Pair - 2, Pair - 1}
=============================================================================
