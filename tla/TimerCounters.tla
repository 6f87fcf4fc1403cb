---------------------------- MODULE TimerCounters ----------------------------
(***************************************************************************)
(* The counting arithmetic of lib/timers.c: how the counter registers of   *)
(* Timer 0, Timer 1 and Timer 2 move by several ticks at once.             *)
(*                                                                         *)
(* A timer is [tl, th, tf, tr, mode, gate, ct]; Timer 2 is [val, rcap,     *)
(* tf2, exf2, tr2, ct2, exen2, cprl2, baud], val and rcap being the pairs  *)
(* TH2:TL2 and RCAP2H:RCAP2L.                                              *)
(***************************************************************************)
EXTENDS Naturals

CONSTANTS
    Byte,   \* values of a register: 256
    Low,    \* values of the part of TL that mode 0 uses: 32
    Word    \* values of the uint32_t sums: 2^32

ASSUME CountersAssumption ==
    /\ Byte \in Nat \ {0} /\ Low \in Nat \ {0} /\ Word \in Nat
    /\ Low <= Byte /\ Byte % Low = 0 /\ Byte * Byte <= Word

Pair == Byte * Byte   \* values of a 16-bit register pair

\* The 13-bit counter: TH and the low part of TL, whose high part is kept.
IncMode0(t, n) ==
    LET total == (t.th * Low + (t.tl % Low) + n) % Word
        new == total % (Byte * Low)
    IN  [t EXCEPT !.th = new \div Low,
                  !.tl = (t.tl - (t.tl % Low)) + (new % Low),
                  !.tf = @ \/ total >= Byte * Low]

\* The 16-bit counter.
IncMode1(t, n) ==
    LET total == (t.th * Byte + t.tl + n) % Word
        new == total % Pair
    IN  [t EXCEPT !.th = new \div Byte, !.tl = new % Byte,
                  !.tf = @ \/ total >= Pair]

\* The 8-bit counter TL that reloads itself from TH.
ReloadOffByOne(t, n) ==
    IF n < Byte - t.tl
    THEN [t EXCEPT !.tl = @ + n]
    ELSE [t EXCEPT !.tl = t.th + ((n - (Byte - t.tl)) % (Byte + 1 - t.th)),
                   !.tf = TRUE]
IncMode2(t, n) ==
    IF n < Byte - t.tl
    THEN [t EXCEPT !.tl = @ + n]
    ELSE [t EXCEPT !.tl = t.th + ((n - (Byte - t.tl)) % (Byte - t.th)),
                   !.tf = TRUE]

\* A single 8-bit counter; mode 3 has one in TL0 and one in TH0.
Inc8(v, n) == [val |-> (v + n) % Byte, over |-> (v + n) % Word >= Byte]

IncMode3(t, n) ==
    [t EXCEPT !.tl = Inc8(t.tl, n).val, !.tf = @ \/ Inc8(t.tl, n).over]

IncTimer(t, n) ==
    CASE t.mode = 0 -> IncMode0(t, n)
      [] t.mode = 1 -> IncMode1(t, n)
      [] t.mode = 2 -> IncMode2(t, n)
      [] t.mode = 3 -> IncMode3(t, n)

\* Whether an overflow of Timer 2 sets TF2 in the baud-rate modes depends on the
\* profile.
SetsTf2(t, profile) == profile = "pragmatic" \/ ~t.baud

\* Timer 2: free running in capture mode, else reloaded from RCAP2.
CountTimer2(t, n, profile) ==
    LET sets == SetsTf2(t, profile)
        first == Pair - t.val
        total == (t.val + n) % Word
    IN  CASE n = 0 -> t
          [] n > 0 /\ t.cprl2 ->
               [t EXCEPT !.val = total % Pair, !.tf2 = @ \/ (sets /\ total >= Pair)]
          [] n > 0 /\ ~t.cprl2 /\ n < first ->
               [t EXCEPT !.val = @ + n]
          [] n > 0 /\ ~t.cprl2 /\ n >= first ->
               [t EXCEPT !.val = t.rcap + ((n - first) % (Pair - t.rcap)),
                         !.tf2 = @ \/ sets]

AlwaysReload(t, profile) ==
    IF ~t.tr2 \/ ~t.exen2 \/ (profile = "strict" /\ t.baud) THEN t
    ELSE [t EXCEPT !.val = t.rcap, !.exf2 = TRUE]
\* An edge on T2EX captures the count or reloads it.
ExternalEvent(t, profile) ==
    IF ~t.tr2 \/ ~t.exen2 \/ (profile = "strict" /\ t.baud) THEN t
    ELSE IF t.cprl2 THEN [t EXCEPT !.rcap = t.val, !.exf2 = TRUE]
    ELSE [t EXCEPT !.val = t.rcap, !.exf2 = TRUE]
=============================================================================
