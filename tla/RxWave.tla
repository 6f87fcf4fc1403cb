-------------------------------- MODULE RxWave --------------------------------
(***************************************************************************)
(* The waveform generator of src/main.c: a tick hook that plays the levels *)
(* of one serial frame, a start bit, the data bits and a stop bit.         *)
(***************************************************************************)
EXTENDS Naturals, Sequences

CONSTANT Data   \* the data bits of the frame, in the order they are sent

ASSUME WaveAssumption == Data \in Seq({0, 1})

Total == Len(Data) + 2   \* total_bits: 10

WaveStart(bit_cycles) ==
    [active |-> TRUE, bit_index |-> 0, bit_cycles |-> bit_cycles,
     countdown |-> bit_cycles, level |-> 0]

LevelOf(bit) == IF bit = Total - 1 THEN 1 ELSE Data[bit]

NextBit(w) ==
    IF w.bit_index + 1 >= Total
    THEN [w EXCEPT !.bit_index = @ + 1, !.active = FALSE, !.level = 1]
    ELSE [w EXCEPT !.bit_index = @ + 1, !.level = LevelOf(w.bit_index + 1),
                   !.countdown = w.bit_cycles]

\* rx_wave_tick: every bit that ends within n cycles, the rest off the next.
WaveTickOnce(w, n) ==
    IF ~w.active THEN w
    ELSE IF n >= w.countdown THEN NextBit(w) ELSE [w EXCEPT !.countdown = @ - n]
WaveTick(w, n) ==
    LET after[k \in 0..n] ==
            IF k = 0 THEN [wave |-> w, left |-> n]
            ELSE LET s == after[k - 1]
                 IN  IF s.wave.active /\ s.left >= s.wave.countdown
                     THEN [wave |-> NextBit(s.wave), left |-> s.left - s.wave.countdown]
                     ELSE s
        end == after[n]
    IN  IF end.wave.active THEN [end.wave EXCEPT !.countdown = @ - end.left] ELSE end.wave
=============================================================================
