---------------------------- MODULE ServiceLevels ----------------------------
(***************************************************************************)
(* What the interrupt controller of lib/cpu.c promises about nesting: it   *)
(* keeps the set of priority levels now in service, a new service needs a  *)
(* level above all of them, and RETI ends the highest one.  The controller *)
(* keeps this set in in_isr, isr_prio, isr_stack and isr_depth; module     *)
(* Interrupts shows that it implements this specification.                 *)
(***************************************************************************)
EXTENDS Naturals

CONSTANT Levels   \* the priority levels, natural numbers

VARIABLE active

Above(S, p) == \A q \in S : p > q
WithoutTop(S) == {q \in S : \E r \in S : r > q}

Init == active = {}

Accept == \E p \in Levels : Above(active, p) /\ active' = active \cup {p}

Return == active' = WithoutTop(active)

\* One cpu_step may execute RETI and accept the next interrupt.
ReturnAndAccept ==
    \E p \in Levels : /\ Above(WithoutTop(active), p)
                      /\ active' = WithoutTop(active) \cup {p}

Reset == active' = {}

Next == Accept \/ Return \/ ReturnAndAccept \/ Reset

Spec == Init /\ [][Next]_active
=============================================================================
