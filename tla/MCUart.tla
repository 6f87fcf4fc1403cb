-------------------------------- MODULE MCUart --------------------------------
(* Values of the constants of Uart for TLC. *)
EXTENDS Uart

\* The rates of a clock of 5 cycles per second with a TH1 of 0 or 1, halved by
\* SMOD: two of the rates have the same whole number of bauds.
Cps == 5
RateOf(cycles) == [cycles |-> cycles, baud |-> Cps \div cycles]
TimerRates ==
    [p \in {0, 1} \X BOOLEAN |-> RateOf((4 - p[1]) \div (IF p[2] THEN 2 ELSE 1))]

\* Timer 1 gives one rate or none.
OneTimerRate == [p \in {0} \X BOOLEAN |-> RateOf(2)]

\* A fixed rate of 3 and 6 bauds, its bit times rounded up.
FixedRates ==
    [smod \in BOOLEAN |->
        IF smod THEN [cycles |-> 1, baud |-> 6] ELSE [cycles |-> 2, baud |-> 3]]

Scon(modes, sm2s, rens, tb8s) ==
    [mode : modes, sm2 : sm2s, ren : rens, tb8 : tb8s]

\* Sending only, in every mode.
SendModes == Scon(0..3, {FALSE}, {FALSE}, {0})

\* Sending only, 8-bit.
SendMode1 == Scon({1}, {FALSE}, {FALSE}, {0})

\* Receiving too: 9-bit with and without filter, 8-bit, and not listening.
ReceiveModes == Scon({1, 3}, {FALSE, TRUE}, {TRUE}, {0}) \cup SendMode1
ReceivedFrames == [byte : {1}, bit9 : 0..1]
=============================================================================
