-------------------------------- MODULE Ports ---------------------------------
(***************************************************************************)
(* The ports of lib/ports.c: the latches behind P0 to P3, the copy of them *)
(* that the SFR array holds, what a read returns and what the host is      *)
(* told.  A byte is the set of its bits that are 1.                        *)
(*                                                                         *)
(* Every instruction that changes a port reads it first through the same   *)
(* hook as MOV does, so it works on the pins, not on the latch.            *)
(***************************************************************************)
EXTENDS Naturals

CONSTANTS
    Fitted,  \* the ports in use
    Pins     \* the pins of a port

ASSUME PortsAssumption == Fitted \subseteq 0..3

VARIABLES
    sfr,       \* the SFR array at P0 to P3
    attached,  \* ports_init has been called
    latch,     \* ports_t.latch
    reader,    \* a read_cb is set
    writer,    \* a write_cb is set
    told,      \* the arguments of the last write_cb of each port
    unheard,   \* history: ports set up or last written with no write_cb
    rewound,   \* history: ports that cpu_reset has changed behind the latch
    op         \* history: the last change of a port by firmware

vars == <<sfr, attached, latch, reader, writer, told, unheard, rewound, op>>

Nothing == [level |-> {}, mask |-> {}]
NoOp == [port |-> 0, bits |-> {}, high |-> {}]

\* The CPU template leaves P0 to P3 at 0; cpu_reset sets all their bits.
Init ==
    /\ sfr = [p \in Fitted |-> {}]
    /\ attached = FALSE
    /\ latch = [p \in Fitted |-> {}]
    /\ reader = FALSE /\ writer = FALSE
    /\ told = [p \in Fitted |-> Nothing]
    /\ unheard = Fitted
    /\ rewound = {}
    /\ op = NoOp

------------------------------------------------------------------------------
\* What a port reads as and what it drives

NoPullUp(p) == {}
PullUp(p) == IF p = 0 THEN {} ELSE Pins

\* ext is what read_cb returns, the pins that are high from outside.
Effective(p, ext) ==
    IF ~attached THEN sfr[p]
    ELSE latch[p] \cap ((IF reader THEN ext ELSE {}) \cup PullUp(p))

Level(p, l) == l \cap PullUp(p)
AllDriven(p, l) == Pins
DrivenMask(p, l) == (Pins \ l) \cup (l \cap PullUp(p))

\* port_notify_write: no call when no pin is driven.
Notify(p) ==
    LET mask == DrivenMask(p, latch'[p])
    IN  /\ told' = IF writer /\ mask # {}
                   THEN [told EXCEPT ![p] = [level |-> Level(p, latch'[p]), mask |-> mask]]
                   ELSE told
        /\ unheard' = IF writer THEN unheard \ {p} ELSE unheard \cup {p}

\* ports_write_sfr; before ports_init a port is an SFR like any other.
WriteSfr(p, v) ==
    /\ sfr' = [sfr EXCEPT ![p] = v]
    /\ IF attached
       THEN latch' = [latch EXCEPT ![p] = v] /\ Notify(p) /\ rewound' = rewound \ {p}
       ELSE UNCHANGED <<latch, told, unheard, rewound>>
    /\ UNCHANGED <<attached, reader, writer>>

------------------------------------------------------------------------------
\* Firmware

WriteByte == \E p \in Fitted, v \in SUBSET Pins :
    WriteSfr(p, v) /\ op' = [port |-> p, bits |-> Pins, high |-> {}]

\* SETB, CLR, CPL, JBC and MOV bit,C: cpu_write_bit.
WriteBit == \E p \in Fitted, b \in Pins, on \in BOOLEAN, ext \in SUBSET Pins :
    LET now == Effective(p, ext)
    IN  /\ WriteSfr(p, IF on THEN now \cup {b} ELSE now \ {b})
        /\ op' = [port |-> p, bits |-> {b}, high |-> ext]

\* ANL and ORL with a byte that has only the bits given.
Combine == \E p \in Fitted, v \in SUBSET Pins, or \in BOOLEAN, ext \in SUBSET Pins :
    LET now == Effective(p, ext)
    IN  /\ WriteSfr(p, IF or THEN now \cup v ELSE now \ v)
        /\ op' = [port |-> p, bits |-> v, high |-> ext]

\* The host: reset, attachment, a change of callbacks.  cpu_reset keeps the hooks
\* but knows nothing of the latches.
CpuReset ==
    /\ sfr' = [p \in Fitted |-> Pins]
    /\ rewound' = Fitted
    /\ op' = NoOp
    /\ UNCHANGED <<attached, latch, reader, writer, told, unheard>>

LatchFromSfr == sfr

PortsInit == \E r, w \in BOOLEAN :
    /\ attached' = TRUE /\ reader' = r /\ writer' = w
    /\ latch' = LatchFromSfr
    /\ unheard' = Fitted
    /\ rewound' = {}
    /\ op' = NoOp
    /\ UNCHANGED <<sfr, told>>

SetCallbacks == \E r, w \in BOOLEAN :
    /\ attached
    /\ reader' = r /\ writer' = w
    /\ op' = NoOp
    /\ UNCHANGED <<sfr, attached, latch, told, unheard, rewound>>

Next == WriteByte \/ WriteBit \/ Combine \/ CpuReset \/ PortsInit \/ SetCallbacks

Spec == Init /\ [][Next]_vars

------------------------------------------------------------------------------
\* Properties

\* Sets of ports and pins; and write_cb is never told to drive a pin high that its
\* mask says is not driven.
TypeOK ==
    /\ sfr \in [Fitted -> SUBSET Pins] /\ latch \in [Fitted -> SUBSET Pins]
    /\ {attached, reader, writer} \subseteq BOOLEAN
    /\ told \in [Fitted -> [level : SUBSET Pins, mask : SUBSET Pins]]
    /\ \A p \in Fitted : told[p].level \subseteq told[p].mask
    /\ unheard \subseteq Fitted /\ rewound \subseteq Fitted
    /\ op \in [port : 0..3, bits : SUBSET Pins, high : SUBSET Pins]

\* What a host sees that keeps what it was last told: 0, 1 or floating.
SeenLow(p) == told[p].mask \ told[p].level
SeenHigh(p) == told[p].mask \cap told[p].level

\* A host that keeps what it was last told knows which pins are driven low and which
\* high, whatever resets and changes of callbacks came in between.  The one case
\* in which it is behind is P0 with all pins released: port_notify_write keeps
\* quiet then, and the host still sees the lows it was told before.
HostInformed ==
    \A p \in Fitted \ unheard :
        \/ SeenLow(p) = Pins \ latch[p] /\ SeenHigh(p) = latch[p] \cap PullUp(p)
        \/ p = 0 /\ latch[p] = Pins

\* An instruction on some bits of a port leaves the other bits of the latch alone,
\* although it writes back what it read from the pins.  Not so on P0: there it
\* clears the bits whose pins are low from outside, but sets none.
OtherBitsKept ==
    [][ op' # NoOp /\ attached =>
            LET p == op'.port
                before == latch[p] \ op'.bits
                after == latch'[p] \ op'.bits
            IN  /\ after \subseteq before
                /\ (p # 0 \/ (reader /\ before \subseteq op'.high)) => after = before ]_vars

\* The SFR array holds the latch, except after cpu_reset, which sets the array and
\* leaves the latch, until firmware writes the port or ports_init copies it.
MirrorFresh == attached => \A p \in Fitted \ rewound : sfr[p] = latch[p]
=============================================================================
