--------------------------- MODULE CounterLockstep ---------------------------
(***************************************************************************)
(* The multi-tick arithmetic of TimerCounters in lockstep with counters    *)
(* that take the same ticks one at a time.  timers_tick splits a tick at   *)
(* every queued edge and cpu_run calls it with 1 to 4 cycles, so the result*)
(* must not depend on how the cycles are grouped.                          *)
(***************************************************************************)
EXTENDS TimerCounters

CONSTANTS
    CallSizes,   \* the tick counts of one call
    Pairs        \* what firmware may have put in TH2:TL2 and RCAP2H:RCAP2L

ASSUME LockstepAssumption == CallSizes \subseteq 0..(Word - 1) /\ Pairs \subseteq 0..(Pair - 1)

VARIABLES
    fast, slow,     \* a timer, by IncTimer and tick by tick
    fast2, slow2,   \* Timer 2, by CountTimer2 and tick by tick
    rules           \* the profile: "strict" or "pragmatic"

lockstep == <<fast, slow, fast2, slow2, rules>>

------------------------------------------------------------------------------
\* One tick, as the counters are wired

Carry(t) ==
    IF t.th = Byte - 1 THEN [t EXCEPT !.th = 0, !.tf = TRUE] ELSE [t EXCEPT !.th = @ + 1]

TickOnce(t) ==
    CASE t.mode = 0 ->
            IF t.tl % Low = Low - 1 THEN Carry([t EXCEPT !.tl = @ - (Low - 1)])
                                    ELSE [t EXCEPT !.tl = @ + 1]
      [] t.mode = 1 ->
            IF t.tl = Byte - 1 THEN Carry([t EXCEPT !.tl = 0]) ELSE [t EXCEPT !.tl = @ + 1]
      [] t.mode = 2 ->
            IF t.tl = Byte - 1 THEN [t EXCEPT !.tl = t.th, !.tf = TRUE]
                               ELSE [t EXCEPT !.tl = @ + 1]
      [] t.mode = 3 ->
            IF t.tl = Byte - 1 THEN [t EXCEPT !.tl = 0, !.tf = TRUE]
                               ELSE [t EXCEPT !.tl = @ + 1]

Timer2Once(t) ==
    IF t.val < Pair - 1 THEN [t EXCEPT !.val = @ + 1]
    ELSE [t EXCEPT !.val = IF t.cprl2 THEN 0 ELSE t.rcap,
                   !.tf2 = @ \/ rules = "pragmatic" \/ ~t.baud]

Times(n, Once(_), t) ==
    LET after[k \in 0..n] == IF k = 0 THEN t ELSE Once(after[k - 1]) IN after[n]

------------------------------------------------------------------------------
LockstepInit ==
    /\ \E tl, th \in 0..(Byte - 1), m \in 0..3 :
          fast = [tl |-> tl, th |-> th, tf |-> FALSE, tr |-> TRUE,
                  mode |-> m, gate |-> FALSE, ct |-> FALSE]
    /\ \E v, r \in Pairs, cap, baud \in BOOLEAN :
          fast2 = [val |-> v, rcap |-> r, tf2 |-> FALSE, exf2 |-> FALSE, tr2 |-> TRUE,
                   ct2 |-> FALSE, exen2 |-> FALSE, cprl2 |-> cap, baud |-> baud]
    /\ rules \in {"strict", "pragmatic"}
    /\ slow = fast /\ slow2 = fast2

Count ==
    \E n \in CallSizes :
        /\ fast' = IncTimer(fast, n)
        /\ slow' = Times(n, TickOnce, slow)
        /\ fast2' = CountTimer2(fast2, n, rules)
        /\ slow2' = Times(n, Timer2Once, slow2)
        /\ UNCHANGED rules

\* The interrupt controller clears TF0/TF1 on entry, firmware clears TF2.
ClearFlags ==
    /\ fast' = [fast EXCEPT !.tf = FALSE] /\ slow' = [slow EXCEPT !.tf = FALSE]
    /\ fast2' = [fast2 EXCEPT !.tf2 = FALSE] /\ slow2' = [slow2 EXCEPT !.tf2 = FALSE]
    /\ UNCHANGED rules

LockstepNext == Count \/ ClearFlags

LockstepSpec == LockstepInit /\ [][LockstepNext]_lockstep

------------------------------------------------------------------------------
\* Counting n ticks at once in any mode leaves Timer 0 or Timer 1 as n single
\* ticks would, reloads, kept high bits and overflow flag included; and Timer 2,
\* in capture and in reload mode and in both profiles.
TimersCountTicks == fast = slow /\ fast2 = slow2
=============================================================================
