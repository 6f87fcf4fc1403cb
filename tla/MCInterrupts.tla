----------------------------- MODULE MCInterrupts -----------------------------
(* Values of the constants of Interrupts for TLC. *)
EXTENDS Interrupts

\* One source of each kind: an external pin, a timer whose flag the controller
\* acknowledges, the serial source and Timer 2 with two flags each that firmware
\* acknowledges.  INT1 and T1 are treated as INT0 and T0 are.
FourSources == Sources \ {"T1", "INT1"}

\* All enabled, or two of them behind a clear EA, and three priority assignments.
SomeIE == {Fitted \cup {"EA"}, {"T0", "SERIAL"}}
SomeIP == {{}, {"INT0", "T2"}, {"SERIAL"}}
=============================================================================
