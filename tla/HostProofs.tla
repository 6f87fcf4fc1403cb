------------------------------ MODULE HostProofs ------------------------------
(***************************************************************************)
(* Proofs about the two modules whose other side is the host: Ports, for   *)
(* any pins and ports, and HexLoader, for any lines and any memory map.    *)
(***************************************************************************)
EXTENDS Ports, HexLoader, Remainders, SequenceTheorems, TLAPS

------------------------------------------------------------------------------
\* Ports

\* A port that is fitted reads and drives sets of pins.
LEMMA Reads ==
    ASSUME TypeOK, NEW p \in Fitted, NEW ext \in SUBSET Pins
    PROVE  Effective(p, ext) \in SUBSET Pins
BY DEF TypeOK, Effective, PullUp

\* A write of firmware, by whatever instruction, is a WriteSfr of one port.
LEMMA WritesOfFirmware ==
    ASSUME TypeOK, WriteByte \/ WriteBit \/ Combine
    PROVE  /\ \E p \in Fitted, v \in SUBSET Pins : WriteSfr(p, v)
           /\ op' \in [port : 0..3, bits : SUBSET Pins, high : SUBSET Pins]
<1>1. CASE WriteByte
  BY <1>1, PortsAssumption DEF WriteByte
<1>2. CASE WriteBit
  <2>1. PICK p \in Fitted, b \in Pins, on \in BOOLEAN, ext \in SUBSET Pins :
            /\ WriteSfr(p, IF on THEN Effective(p, ext) \cup {b} ELSE Effective(p, ext) \ {b})
            /\ op' = [port |-> p, bits |-> {b}, high |-> ext]
    BY <1>2 DEF WriteBit
  <2>2. Effective(p, ext) \in SUBSET Pins
    BY Reads
  <2> QED
    BY <2>1, <2>2, PortsAssumption
<1>3. CASE Combine
  <2>1. PICK p \in Fitted, w \in SUBSET Pins, or \in BOOLEAN, ext \in SUBSET Pins :
            /\ WriteSfr(p, IF or THEN Effective(p, ext) \cup w ELSE Effective(p, ext) \ w)
            /\ op' = [port |-> p, bits |-> w, high |-> ext]
    BY <1>3 DEF Combine
  <2>2. Effective(p, ext) \in SUBSET Pins
    BY Reads
  <2> QED
    BY <2>1, <2>2, PortsAssumption
<1> QED
  BY <1>1, <1>2, <1>3

------------------------------------------------------------------------------
\* The invariants of one write

\* It keeps the types.
LEMMA WriteTypes ==
    ASSUME TypeOK, NEW p \in Fitted, NEW v \in SUBSET Pins, WriteSfr(p, v)
    PROVE  /\ sfr' \in [Fitted -> SUBSET Pins] /\ latch' \in [Fitted -> SUBSET Pins]
           /\ {attached, reader, writer}' \subseteq BOOLEAN
           /\ told' \in [Fitted -> [level : SUBSET Pins, mask : SUBSET Pins]]
           /\ \A q \in Fitted : told'[q].level \subseteq told'[q].mask
           /\ unheard' \subseteq Fitted /\ rewound' \subseteq Fitted
<1>1. CASE ~attached
  BY <1>1 DEF TypeOK, WriteSfr
<1>2. CASE attached
  <2>1. latch' = [latch EXCEPT ![p] = v] /\ latch'[p] = v
    BY <1>2 DEF TypeOK, WriteSfr
  <2>2. Level(p, v) \in SUBSET Pins /\ DrivenMask(p, v) \in SUBSET Pins
        /\ Level(p, v) \subseteq DrivenMask(p, v)
    BY DEF Level, DrivenMask, PullUp
  <2>3. \/ told' = told
        \/ told' = [told EXCEPT ![p] = [level |-> Level(p, v), mask |-> DrivenMask(p, v)]]
    BY <1>2, <2>1 DEF WriteSfr, Notify
  <2>4. /\ told' \in [Fitted -> [level : SUBSET Pins, mask : SUBSET Pins]]
        /\ \A q \in Fitted : told'[q].level \subseteq told'[q].mask
    BY <2>2, <2>3 DEF TypeOK
  <2>5. unheard' \subseteq Fitted
    BY <1>2 DEF TypeOK, WriteSfr, Notify
  <2> QED
    BY <1>2, <2>1, <2>4, <2>5 DEF TypeOK, WriteSfr
<1> QED
  BY <1>1, <1>2

\* What write_cb is told, or is spared, agrees with the latch of the port written;
\* the other ports and what was told of them stay.
LEMMA WriteInforms ==
    ASSUME TypeOK, HostInformed, NEW p \in Fitted, NEW v \in SUBSET Pins, WriteSfr(p, v)
    PROVE  HostInformed'
<1>1. CASE ~attached
  BY <1>1 DEF HostInformed, SeenLow, SeenHigh, WriteSfr
<1>2. CASE attached
  <2> SUFFICES ASSUME NEW q \in Fitted, q \notin unheard'
               PROVE  \/ SeenLow(q)' = Pins \ latch'[q] /\ SeenHigh(q)' = latch'[q] \cap PullUp(q)
                      \/ q = 0 /\ latch'[q] = Pins
    BY DEF HostInformed, PullUp
  <2>1. latch' = [latch EXCEPT ![p] = v]
    BY <1>2 DEF WriteSfr
  <2>2. CASE q # p
    <3>1. q \notin unheard /\ told'[q] = told[q] /\ latch'[q] = latch[q]
      BY <1>2, <2>1, <2>2 DEF WriteSfr, Notify, TypeOK
    <3> QED
      BY <3>1 DEF HostInformed, SeenLow, SeenHigh
  <2>3. CASE q = p
    <3>1. latch'[p] = v /\ writer
      BY <1>2, <2>1, <2>3 DEF WriteSfr, Notify, TypeOK
    <3>2. CASE DrivenMask(p, v) # {}
      <4>1. told'[p] = [level |-> Level(p, v), mask |-> DrivenMask(p, v)]
        BY <1>2, <3>1, <3>2 DEF WriteSfr, Notify, TypeOK
      <4> QED
        BY <2>3, <3>1, <4>1 DEF SeenLow, SeenHigh, Level, DrivenMask, PullUp
    <3>3. CASE DrivenMask(p, v) = {}
      <4>1. v = Pins /\ v \cap PullUp(p) = {}
        BY <3>3 DEF DrivenMask
      <4>2. CASE p = 0
        BY <2>3, <3>1, <4>1, <4>2
      <4>3. CASE p # 0
        <5>1. Pins = {}
          BY <4>1, <4>3 DEF PullUp
        <5>2. told'[p].mask \in SUBSET Pins
          BY WriteTypes
        <5> QED
          BY <2>3, <3>1, <4>1, <5>1, <5>2 DEF SeenLow, SeenHigh
      <4> QED
        BY <4>2, <4>3
    <3> QED
      BY <3>2, <3>3
  <2> QED
    BY <2>2, <2>3
<1> QED
  BY <1>1, <1>2

\* It writes the SFR array and the latch alike.
LEMMA WriteMirrors ==
    ASSUME TypeOK, MirrorFresh, NEW p \in Fitted, NEW v \in SUBSET Pins, WriteSfr(p, v)
    PROVE  MirrorFresh'
<1>1. CASE ~attached
  BY <1>1 DEF MirrorFresh, WriteSfr
<1>2. CASE attached
  BY <1>2 DEF MirrorFresh, WriteSfr, TypeOK
<1> QED
  BY <1>1, <1>2

------------------------------------------------------------------------------
\* The theorems about Ports

PortsInv == TypeOK /\ HostInformed /\ MirrorFresh

\* The invariant holds before ports_init.
LEMMA PortsInvInit == Init => PortsInv
<1> SUFFICES ASSUME Init PROVE PortsInv
  OBVIOUS
<1>1. TypeOK
  <2>1. {attached, reader, writer} \subseteq BOOLEAN
    BY DEF Init
  <2>2. /\ sfr \in [Fitted -> SUBSET Pins] /\ latch \in [Fitted -> SUBSET Pins]
        /\ told \in [Fitted -> [level : SUBSET Pins, mask : SUBSET Pins]]
        /\ \A p \in Fitted : told[p].level \subseteq told[p].mask
    BY DEF Init, Nothing
  <2>3. op \in [port : 0..3, bits : SUBSET Pins, high : SUBSET Pins]
    BY DEF Init, NoOp
  <2> QED
    BY <2>1, <2>2, <2>3 DEF Init, TypeOK
<1>2. HostInformed /\ MirrorFresh
  BY DEF Init, HostInformed, MirrorFresh
<1> QED
  BY <1>1, <1>2 DEF PortsInv

\* Every step keeps it.
LEMMA PortsInvStep == PortsInv /\ [Next]_vars => PortsInv'
<1> SUFFICES ASSUME PortsInv, [Next]_vars PROVE PortsInv'
  OBVIOUS
<1> USE DEF PortsInv
<1>1. CASE WriteByte \/ WriteBit \/ Combine
  <2>1. PICK p \in Fitted, v \in SUBSET Pins : WriteSfr(p, v)
    BY <1>1, WritesOfFirmware
  <2>2. TypeOK'
    BY <1>1, <2>1, WriteTypes, WritesOfFirmware DEF TypeOK
  <2> QED
    BY <2>1, <2>2, WriteInforms, WriteMirrors
<1>2. CASE CpuReset
  <2>1. TypeOK'
    BY <1>2 DEF CpuReset, TypeOK, NoOp
  <2> QED
    BY <1>2, <2>1 DEF CpuReset, HostInformed, SeenLow, SeenHigh, MirrorFresh
<1>3. CASE PortsInit
  <2>1. TypeOK'
    BY <1>3 DEF PortsInit, LatchFromSfr, TypeOK, NoOp
  <2> QED
    BY <1>3, <2>1 DEF PortsInit, LatchFromSfr, HostInformed, MirrorFresh
<1>4. CASE SetCallbacks
  <2>1. TypeOK'
    BY <1>4 DEF SetCallbacks, TypeOK, NoOp
  <2> QED
    BY <1>4, <2>1 DEF SetCallbacks, HostInformed, SeenLow, SeenHigh, MirrorFresh
<1>5. CASE UNCHANGED vars
  BY <1>5 DEF vars, TypeOK, HostInformed, SeenLow, SeenHigh, MirrorFresh
<1> QED
  BY <1>1, <1>2, <1>3, <1>4, <1>5 DEF Next

\* Ports, pins and callbacks keep their types, and the level a host is told is
\* always part of the pins it is told are driven (ports.c:31).
THEOREM PortsTypeCorrect == Spec => []TypeOK
BY PortsInvInit, PortsInvStep, PTL DEF Spec, PortsInv

\* A host that keeps what it was last told knows what a port drives (ports.c:31).
THEOREM HostInformedCorrect == Spec => []HostInformed
BY PortsInvInit, PortsInvStep, PTL DEF Spec, PortsInv

\* The SFR array and the latches agree but after a reset (ports.c:61, cpu.c:194).
THEOREM MirrorCorrect == Spec => []MirrorFresh
BY PortsInvInit, PortsInvStep, PTL DEF Spec, PortsInv

\* The bits that a step does not name stay in the latch.
LEMMA BitsKept ==
    ASSUME TypeOK, Next, op' # NoOp, attached
    PROVE  LET p == op'.port
               before == latch[p] \ op'.bits
               after == latch'[p] \ op'.bits
           IN  /\ after \subseteq before
               /\ (p # 0 \/ (reader /\ before \subseteq op'.high)) => after = before
<1>1. ASSUME NEW p \in Fitted, NEW v, WriteSfr(p, v)
      PROVE  latch'[p] = v
  BY <1>1 DEF WriteSfr, TypeOK
<1>2. ASSUME NEW p \in Fitted, NEW ext \in SUBSET Pins
      PROVE  /\ Effective(p, ext) \subseteq latch[p]
             /\ p # 0 => Effective(p, ext) = latch[p]
             /\ reader => latch[p] \cap ext \subseteq Effective(p, ext)
  BY <1>2 DEF Effective, PullUp, TypeOK
<1>3. CASE WriteByte
  BY <1>1, <1>3 DEF WriteByte, TypeOK
<1>4. CASE WriteBit
  <2>1. PICK p \in Fitted, b \in Pins, on \in BOOLEAN, ext \in SUBSET Pins :
            /\ WriteSfr(p, IF on THEN Effective(p, ext) \cup {b} ELSE Effective(p, ext) \ {b})
            /\ op' = [port |-> p, bits |-> {b}, high |-> ext]
    BY <1>4 DEF WriteBit
  <2>2. latch'[p] \ {b} = Effective(p, ext) \ {b}
    BY <1>1, <2>1
  <2> QED
    BY <1>2, <2>1, <2>2
<1>5. CASE Combine
  <2>1. PICK p \in Fitted, w \in SUBSET Pins, or \in BOOLEAN, ext \in SUBSET Pins :
            /\ WriteSfr(p, IF or THEN Effective(p, ext) \cup w ELSE Effective(p, ext) \ w)
            /\ op' = [port |-> p, bits |-> w, high |-> ext]
    BY <1>5 DEF Combine
  <2>2. latch'[p] \ w = Effective(p, ext) \ w
    BY <1>1, <2>1
  <2> QED
    BY <1>2, <2>1, <2>2
<1>6. CASE CpuReset \/ PortsInit \/ SetCallbacks
  BY <1>6 DEF CpuReset, PortsInit, SetCallbacks
<1> QED
  BY <1>3, <1>4, <1>5, <1>6 DEF Next

\* An instruction leaves the bits of a port alone that it does not name
\* (ports.c:23, 61), except on P0 where the pins are low from outside.
THEOREM OtherBitsCorrect == Spec => OtherBitsKept
<1>1. TypeOK /\ [Next]_vars =>
        [ op' # NoOp /\ attached =>
            LET p == op'.port
                before == latch[p] \ op'.bits
                after == latch'[p] \ op'.bits
            IN  /\ after \subseteq before
                /\ (p # 0 \/ (reader /\ before \subseteq op'.high)) => after = before ]_vars
  BY BitsKept
<1> QED
  BY <1>1, PortsTypeCorrect, PTL DEF Spec, OtherBitsKept

------------------------------------------------------------------------------
\* HexLoader

\* The fields of a line.
LEMMA LineType ==
    ASSUME NEW l \in Lines
    PROVE  /\ l.kind \in {"data", "eof", "base", "other", "blank", "garbage"}
           /\ l.addr \in Nat /\ l.count \in Nat /\ l.addr * Space \in Nat
<1>1. /\ l.kind \in {"data", "eof", "base", "other", "blank", "garbage"}
      /\ l.addr \in Nat /\ l.count \in Nat /\ Space \in Nat
  BY HexLoaderAssumption DEF Kinds
<1> QED
  BY <1>1

\* What a line makes of a loader that is reading, whichever it is.
StateAfter(l) ==
    IF l.kind = "eof" THEN "done"
    ELSE IF l.kind = "garbage" \/ (l.kind = "data" /\ ~Complete(l)) THEN "failed"
    ELSE "reading"

BaseAfter(base, l) == IF l.kind = "base" THEN l.addr * Space ELSE base

LoaderShape(s) == s = [state |-> s.state, base |-> s.base, arrays |-> s.arrays]
ImageShape(m) == m = [state |-> m.state, base |-> m.base, size |-> m.size, bytes |-> m.bytes]

\* The first loader's state and base after a line.
LEMMA StreamEffect ==
    ASSUME NEW s, LoaderShape(s), s.state = "reading", NEW l \in Lines
    PROVE  /\ LoaderShape(StreamLine(s, l))
           /\ StreamLine(s, l).state = StateAfter(l)
           /\ StreamLine(s, l).base = BaseAfter(s.base, l)
<1> DEFINE stored == Stored(s, l)
<1>1. CASE l.kind = "data" /\ Complete(l)
  <2>1. StreamLine(s, l) = [s EXCEPT !.arrays = stored, !.state = s.state]
    BY <1>1 DEF StreamLine
  <2> HIDE DEF stored
  <2> QED
    BY <1>1, <2>1 DEF LoaderShape, StateAfter, BaseAfter
<1>2. CASE l.kind = "data" /\ ~Complete(l)
  <2>1. StreamLine(s, l) = [s EXCEPT !.arrays = stored, !.state = "failed"]
    BY <1>2 DEF StreamLine
  <2> HIDE DEF stored
  <2> QED
    BY <1>2, <2>1 DEF LoaderShape, StateAfter, BaseAfter
<1>3. CASE l.kind = "eof"
  BY <1>3 DEF StreamLine, LoaderShape, StateAfter, BaseAfter
<1>4. CASE l.kind = "base"
  BY <1>4 DEF StreamLine, LoaderShape, StateAfter, BaseAfter
<1>5. CASE l.kind = "garbage"
  BY <1>5 DEF StreamLine, LoaderShape, StateAfter, BaseAfter
<1>6. CASE l.kind \in {"other", "blank"}
  BY <1>6 DEF StreamLine, LoaderShape, StateAfter, BaseAfter
<1> QED
  BY <1>1, <1>2, <1>3, <1>4, <1>5, <1>6, LineType

Sized(m) ==
    /\ ImageShape(m) /\ m.base \in Nat /\ m.size \in Nat
    /\ DOMAIN m.bytes = 0..(m.size - 1)
    /\ m.state = "failed" => m.size = 0

\* The second loader's, and the shape of its image.
LEMMA ImageEffect ==
    ASSUME NEW m, Sized(m), m.state = "reading", NEW l \in Lines
    PROVE  /\ Sized(ImageLine(m, l))
           /\ ImageLine(m, l).state = StateAfter(l)
           /\ ImageLine(m, l).base = BaseAfter(m.base, l)
<1>0. /\ l.addr \in Nat /\ l.count \in Nat /\ l.addr * Space \in Nat
      /\ m.base \in Nat /\ m.size \in Nat
  BY LineType DEF Sized
<1>F. /\ Freed(m).state = "failed" /\ Freed(m).base = m.base /\ Sized(Freed(m))
  <2>1. Freed(m) = [state |-> "failed", base |-> m.base, size |-> 0, bytes |-> <<>>]
    <3> DEFINE none == <<>>
    <3>1. Freed(m) = [m EXCEPT !.state = "failed", !.size = 0, !.bytes = none]
      BY DEF Freed
    <3>2. m = [state |-> m.state, base |-> m.base, size |-> m.size, bytes |-> m.bytes]
      BY DEF Sized, ImageShape
    <3> HIDE DEF none
    <3>3. Freed(m) = [state |-> "failed", base |-> m.base, size |-> 0, bytes |-> none]
      BY <3>1, <3>2
    <3> QED
      BY <3>3 DEF none
  <2>2. DOMAIN <<>> = 0..(0 - 1)
    OBVIOUS
  <2> DEFINE f == Freed(m)
  <2>3. /\ f.state = "failed" /\ f.base = m.base /\ f.size = 0 /\ f.bytes = <<>>
        /\ ImageShape(f)
    BY <2>1 DEF ImageShape
  <2> HIDE DEF f
  <2>4. DOMAIN f.bytes = 0..(f.size - 1)
    BY <2>2, <2>3
  <2>5. Sized(f)
    BY <1>0, <2>3, <2>4 DEF Sized
  <2> QED
    BY <2>3, <2>5 DEF f
<1>1. CASE l.kind = "data" /\ Complete(l)
  <2> DEFINE size == NewSize(m, l)
             bytes == Grown(m, l).bytes
  <2>1. size \in Nat
    BY <1>0 DEF NewSize, LineEnd, LineStart
  <2>2. Grown(m, l) = [state |-> m.state, base |-> m.base, size |-> size, bytes |-> bytes]
        /\ DOMAIN bytes = 0..(size - 1)
    <3> DEFINE cells == [a \in 0..(size - 1) |->
                            CASE a \in LineStart(m, l)..(LineEnd(m, l) - 1) ->
                                     l.data[a - LineStart(m, l) + 1]
                              [] a \notin LineStart(m, l)..(LineEnd(m, l) - 1) ->
                                     IF a < m.size THEN m.bytes[a] ELSE Blank]
    <3>1. Grown(m, l) = [m EXCEPT !.size = size, !.bytes = cells]
      BY DEF Grown
    <3>2. DOMAIN cells = 0..(size - 1)
      OBVIOUS
    <3>3. m = [state |-> m.state, base |-> m.base, size |-> m.size, bytes |-> m.bytes]
      BY DEF Sized, ImageShape
    <3> HIDE DEF cells, size
    <3>4. Grown(m, l) = [state |-> m.state, base |-> m.base, size |-> size, bytes |-> cells]
      BY <3>1, <3>3
    <3> QED
      BY <3>2, <3>4
  <2>3. ImageLine(m, l) = Grown(m, l)
    BY <1>1 DEF ImageLine
  <2> HIDE DEF size, bytes
  <2> QED
    BY <1>0, <1>1, <2>1, <2>2, <2>3 DEF Sized, ImageShape, StateAfter, BaseAfter
<1>2. CASE l.kind = "data" /\ ~Complete(l)
  BY <1>F, <1>2 DEF ImageLine, StateAfter, BaseAfter
<1>3. CASE l.kind = "eof"
  BY <1>3 DEF ImageLine, Sized, ImageShape, StateAfter, BaseAfter
<1>4. CASE l.kind = "base"
  <2> DEFINE base == l.addr * Space
  <2>1. ImageLine(m, l) = [m EXCEPT !.base = base] /\ base \in Nat
    BY <1>0, <1>4 DEF ImageLine
  <2>2. BaseAfter(m.base, l) = base
    BY <1>4 DEF BaseAfter
  <2> HIDE DEF base
  <2> QED
    BY <1>4, <2>1, <2>2 DEF Sized, ImageShape, StateAfter
<1>5. CASE l.kind = "garbage"
  BY <1>F, <1>5 DEF ImageLine, StateAfter, BaseAfter
<1>6. CASE l.kind \in {"other", "blank"}
  BY <1>6 DEF ImageLine, StateAfter, BaseAfter
<1> QED
  BY <1>1, <1>2, <1>3, <1>4, <1>5, <1>6, LineType

------------------------------------------------------------------------------
\* The theorems about HexLoader

HexInv ==
    /\ LoaderShape(loader) /\ Sized(image)
    /\ SameVerdict
    /\ loader.state \in {"reading", "done", "failed"}

\* The invariant of states and bases holds before the load.
LEMMA HexInvInit == HexInit => HexInv
<1> SUFFICES ASSUME HexInit PROVE HexInv
  OBVIOUS
<1> DEFINE blank == [b \in Arrays |-> [a \in 0..(Space - 1) |-> Blank]]
<1>1. /\ loader = [state |-> "reading", base |-> 0, arrays |-> blank]
      /\ image = [state |-> "reading", base |-> 0, size |-> 0, bytes |-> <<>>]
  BY DEF HexInit
<1> HIDE DEF blank
<1>2. DOMAIN <<>> = 0..(0 - 1)
  OBVIOUS
<1> QED
  BY <1>1, <1>2 DEF HexInv, LoaderShape, ImageShape, Sized, SameVerdict

\* Every line and the end of the file keep it.
LEMMA HexInvStep == HexInv /\ [HexNext]_hexVars => HexInv'
<1> SUFFICES ASSUME HexInv, [HexNext]_hexVars PROVE HexInv'
  OBVIOUS
<1> USE DEF HexInv
<1>1. CASE ReadLine
  <2>1. PICK l \in Lines :
            /\ Reading(loader) \/ Reading(image)
            /\ loader' = IF Reading(loader) THEN StreamLine(loader, l) ELSE loader
            /\ image' = IF Reading(image) THEN ImageLine(image, l) ELSE image
    BY <1>1 DEF ReadLine
  <2>2. loader.state = "reading" /\ image.state = "reading" /\ loader.base = image.base
    BY <2>1 DEF Reading, SameVerdict
  <2>3. loader' = StreamLine(loader, l) /\ image' = ImageLine(image, l)
    BY <2>1, <2>2 DEF Reading
  <2>4. /\ LoaderShape(loader') /\ Sized(image')
        /\ loader'.state = StateAfter(l) /\ image'.state = StateAfter(l)
        /\ loader'.base = image'.base
    BY <2>2, <2>3, StreamEffect, ImageEffect
  <2> QED
    BY <2>4 DEF StateAfter, SameVerdict, LoaderShape, Sized, ImageShape
<1>2. CASE EndOfFile
  <2>1. loader.state = "reading" /\ image.state = "reading" /\ loader.base = image.base
    BY <1>2 DEF EndOfFile, Reading, SameVerdict
  <2>2. /\ loader' = [loader EXCEPT !.state = "done"]
        /\ image' = [image EXCEPT !.state = "done"]
    BY <1>2, <2>1 DEF EndOfFile, Reading
  <2> QED
    BY <2>1, <2>2 DEF SameVerdict, LoaderShape, Sized, ImageShape
<1>3. CASE UNCHANGED hexVars
  BY <1>3 DEF hexVars, SameVerdict, LoaderShape, Sized, ImageShape
<1> QED
  BY <1>1, <1>2, <1>3 DEF HexNext

\* The image has a byte for every address below its size, and none is left of a
\* failed load (hex_loader.c:102).
THEOREM HexTypeCorrect == HexSpec => []HexTypeOK
<1>1. HexInv => HexTypeOK
  BY DEF HexInv, HexTypeOK, SameVerdict, Sized
<1> QED
  BY <1>1, HexInvInit, HexInvStep, PTL DEF HexSpec

\* The two loaders accept and reject the same files at the same line, under the same
\* upper address (hex_loader.c:33, 102).
THEOREM SameVerdictCorrect == HexSpec => []SameVerdict
BY HexInvInit, HexInvStep, PTL DEF HexSpec, HexInv

------------------------------------------------------------------------------
\* The base in force, the latest byte and the owner of an address

\* A set of numbers that is not empty and bounded has a greatest element.
LEMMA Greatest ==
    ASSUME NEW m \in Nat, NEW S \in SUBSET (0..m), S # {}
    PROVE  \E x \in S : \A y \in S : y <= x
<1> DEFINE T == {j \in Nat : j <= m /\ m - j \in S}
<1>1. T # {}
  <2>1. PICK x \in S : TRUE
    OBVIOUS
  <2>2. m - x \in Nat /\ m - x <= m /\ m - (m - x) = x
    BY <2>1
  <2>3. m - x \in T
    BY <2>1, <2>2
  <2> QED
    BY <2>3
<1>2. T \in SUBSET Nat
  OBVIOUS
<1>4. \A y \in S : m - y \in T
  <2> SUFFICES ASSUME NEW y \in S PROVE m - y \in T
    OBVIOUS
  <2>1. m - y \in Nat /\ m - y <= m /\ m - (m - y) = y
    OBVIOUS
  <2> QED
    BY <2>1
<1>5. \A j \in T : j \in Nat /\ j <= m /\ m - j \in S
  OBVIOUS
<1> HIDE DEF T
<1>3. PICK j \in T : \A i \in T : ~(i < j)
  BY <1>1, <1>2, Least
<1>6. \A y \in S : y <= m - j
  <2> SUFFICES ASSUME NEW y \in S PROVE y <= m - j
    OBVIOUS
  <2>1. m - y \in T /\ m - y \in Nat /\ j \in Nat
    BY <1>4, <1>5
  <2>2. ~(m - y < j)
    BY <1>3, <2>1
  <2> QED
    BY <2>1, <2>2
<1> QED
  BY <1>5, <1>6

\* The base in force at line n of a file f.
BasesBefore(f, n) == {k \in 1..(n - 1) : f[k].kind = "base"}
LastOf(S) == CHOOSE k \in S : \A j \in S : j <= k
BaseIn(f, n) == IF BasesBefore(f, n) = {} THEN 0 ELSE f[LastOf(BasesBefore(f, n))].addr * Space

\* The base that the properties speak of is that of the file read so far.
LEMMA BaseAtIn == \A n : BaseAt(n) = BaseIn(file, n)
  BY DEF BaseAt, BaseIn, BasesBefore, LastOf

\* The greatest of a set of numbers up to n.
LEMMA LastIsThere ==
    ASSUME NEW n \in Nat, NEW S \in SUBSET (1..n), S # {}
    PROVE  LastOf(S) \in S /\ \A j \in S : j <= LastOf(S)
<1>1. S \in SUBSET (0..n)
  OBVIOUS
<1>2. PICK x \in S : \A y \in S : y <= x
  BY <1>1, Greatest
<1> QED
  BY <1>2 DEF LastOf

\* Only the lines before it decide the base of a line.
LEMMA BaseDependsOnPast ==
    ASSUME NEW n \in Nat \ {0}, NEW f, NEW g, \A k \in 1..(n - 1) : f[k] = g[k]
    PROVE  BaseIn(f, n) = BaseIn(g, n)
<1> DEFINE S == BasesBefore(f, n)
<1>1. BasesBefore(g, n) = S
  BY DEF BasesBefore
<1>2. S \in SUBSET (1..(n - 1)) /\ n - 1 \in Nat
  BY DEF BasesBefore
<1> HIDE DEF S
<1>3. S # {} => f[LastOf(S)] = g[LastOf(S)]
  BY <1>2, LastIsThere
<1> QED
  BY <1>1, <1>3 DEF BaseIn, S

\* A "base" line sets the base of the next.
LEMMA BaseAfterLine ==
    ASSUME NEW n \in Nat \ {0}, NEW f
    PROVE  BaseIn(f, n + 1) = IF f[n].kind = "base" THEN f[n].addr * Space ELSE BaseIn(f, n)
<1> DEFINE S == BasesBefore(f, n)
           T == BasesBefore(f, n + 1)
<1>1. S \in SUBSET (1..(n - 1)) /\ T \in SUBSET (1..n)
  BY DEF BasesBefore
<1>2. T = IF f[n].kind = "base" THEN S \cup {n} ELSE S
  <2>1. 1..((n + 1) - 1) = (1..(n - 1)) \cup {n}
    OBVIOUS
  <2> QED
    BY <2>1 DEF BasesBefore
<1> HIDE DEF S, T
<1>3. CASE f[n].kind = "base"
  <2>1. T # {} /\ n \in T
    BY <1>2, <1>3
  <2>2. LastOf(T) \in T /\ \A j \in T : j <= LastOf(T)
    BY <1>1, <2>1, LastIsThere
  <2> DEFINE x == LastOf(T)
  <2> HIDE DEF x
  <2>3. x \in 1..n /\ n <= x
    BY <1>1, <2>1, <2>2 DEF x
  <2>4. x = n
    BY <2>3
  <2> QED
    BY <1>3, <2>1, <2>4 DEF BaseIn, T, x
<1>4. CASE f[n].kind # "base"
  BY <1>2, <1>4 DEF BaseIn, S, T
<1> QED
  BY <1>3, <1>4

\* The latest of a set of bytes is the one that no other comes after.
Before(y, x) == y[1] < x[1] \/ (y[1] = x[1] /\ y[2] <= x[2])

\* It is the only one of the set with that property.
LEMMA LatestIs ==
    ASSUME NEW S \in SUBSET (Nat \X Nat), NEW x \in S, \A y \in S : Before(y, x)
    PROVE  Latest(S) = x
<1> DEFINE z == CHOOSE z \in S : \A y \in S : Before(y, z)
<1>1. Latest(S) = z
  BY DEF Latest, Before
<1>2. z \in S /\ \A y \in S : Before(y, z)
  OBVIOUS
<1> HIDE DEF z
<1>3. Before(x, z) /\ Before(z, x)
  BY <1>2
<1>4. x = <<x[1], x[2]>> /\ z = <<z[1], z[2]>> /\ x[1] \in Nat /\ x[2] \in Nat /\ z[1] \in Nat /\ z[2] \in Nat
  BY <1>2
<1>5. x[1] = z[1] /\ x[2] = z[2]
  BY <1>3, <1>4 DEF Before
<1> QED
  BY <1>1, <1>4, <1>5

\* find_region finds the region that owns the address.
MapType(m) == m \in Seq([base : Nat, size : Nat, reads : BOOLEAN, writes : BOOLEAN, array : Arrays])

\* What that says of each region.
LEMMA RegionType ==
    ASSUME MapType(regions)
    PROVE  /\ DOMAIN regions = 1..Len(regions) /\ Len(regions) \in Nat
           /\ \A n \in DOMAIN regions :
                 /\ n \in Nat \ {0}
                 /\ regions[n].base \in Nat /\ regions[n].size \in Nat
                 /\ regions[n].reads \in BOOLEAN /\ regions[n].writes \in BOOLEAN
                 /\ regions[n].array \in Arrays
<1> DEFINE R == [base : Nat, size : Nat, reads : BOOLEAN, writes : BOOLEAN, array : Arrays]
<1>1. regions \in Seq(R)
  BY DEF MapType
<1>2. Len(regions) \in Nat /\ DOMAIN regions = 1..Len(regions)
  BY <1>1, LenProperties
<1>3. \A n \in DOMAIN regions : regions[n] \in R
  BY <1>1, <1>2, ElementOfSeq
<1> QED
  BY <1>2, <1>3

\* A region covers the addresses within its size.
LEMMA CoversIs ==
    ASSUME NEW a \in Nat, NEW r, r.base \in Nat, r.size \in Nat
    PROVE  Covers(r, a) <=> a - r.base \in 0..(r.size - 1)
BY DEF Covers, End

\* The region it finds is the owner that the properties speak of.
LEMMA FindsOwner ==
    ASSUME MapType(regions), NEW a \in Nat
    PROVE  /\ find_region(regions, a) # None =>
                 find_region(regions, a) \in DOMAIN regions /\ Owner(a) = {find_region(regions, a)}
           /\ find_region(regions, a) = None => Owner(a) = {}
<1> DEFINE D == DOMAIN regions
           C(n) == Covers(regions[n], a)
           S == {n \in D : C(n)}
           First(n) == C(n) /\ \A k \in D : k < n => ~C(k)
           x == find_region(regions, a)
<1>1. D = 1..Len(regions) /\ Len(regions) \in Nat
      /\ \A n \in D : n \in Nat \ {0} /\ regions[n].base \in Nat /\ regions[n].size \in Nat
  BY RegionType
<1>2. \A n \in D : C(n) <=> a - regions[n].base \in 0..(regions[n].size - 1)
  BY <1>1, CoversIs
<1>3. Owner(a) = {n \in D : First(n)}
  <2>1. \A n \in D : \A k : (k \in D /\ k < n) <=> k \in 1..(n - 1)
    BY <1>1
  <2> HIDE DEF C
  <2>2. \A n \in D : (a - regions[n].base \in 0..(regions[n].size - 1)
                      /\ \A k \in 1..(n - 1) : a - regions[k].base \notin 0..(regions[k].size - 1))
                     <=> First(n)
    BY <1>2, <2>1
  <2> HIDE DEF First
  <2> QED
    BY <2>2 DEF Owner
<1>4. x = IF \E n \in D : C(n) THEN CHOOSE n \in D : First(n) ELSE None
  BY DEF find_region
<1>5. S \in SUBSET Nat
  BY <1>1
<1> HIDE DEF C
<1>6. (\E n \in D : C(n)) => \E n \in D : First(n)
  <2> SUFFICES ASSUME S # {} PROVE \E n \in D : First(n)
    OBVIOUS
  <2>1. PICK n \in S : \A k \in S : ~(k < n)
    BY <1>5, Least
  <2> QED
    BY <2>1
<1>7. \A n, k \in D : First(n) /\ First(k) => n = k
  <2> SUFFICES ASSUME NEW n \in D, NEW k \in D, First(n), First(k) PROVE n = k
    OBVIOUS
  <2>1. ~(n < k) /\ ~(k < n)
    OBVIOUS
  <2> QED
    BY <1>1, <2>1
<1>8. \A n \in D : First(n) => C(n)
  OBVIOUS
<1>9. \A n \in D : n # None
  BY <1>1 DEF None
<1> HIDE DEF First, D, x
<1>10. CASE \E n \in D : C(n)
  <2>1. x \in D /\ First(x)
    BY <1>4, <1>6, <1>10
  <2>2. Owner(a) = {x}
    BY <1>3, <1>7, <2>1
  <2> QED
    BY <1>9, <2>1, <2>2 DEF D, x
<1>11. CASE ~ \E n \in D : C(n)
  <2>1. x = None /\ Owner(a) = {}
    BY <1>3, <1>4, <1>8, <1>11
  <2> QED
    BY <2>1 DEF x
<1> QED
  BY <1>10, <1>11

------------------------------------------------------------------------------
\* What one line stores

Addresses == 0..(Space - 1)
Contents == [Arrays -> [Addresses -> Nat]]

\* A write to address a ends in array b.
Reaches(b, a) == \E n \in Owner(a) : regions[n].array = b /\ regions[n].writes

\* A write through the map changes the cell of its address in the array of the region
\* that owns the address, if that can be written.
LEMMA MapWriteEffect ==
    ASSUME MapType(regions), NEW A \in Contents, NEW t \in Addresses, NEW v \in Nat
    PROVE  /\ MapWrite(regions, A, t, v) \in Contents
           /\ \A b \in Arrays, a \in Addresses :
                 MapWrite(regions, A, t, v)[b][a] =
                     IF a = t /\ Reaches(b, t) THEN v ELSE A[b][a]
<1> DEFINE n == find_region(regions, t)
           W == MapWrite(regions, A, t, v)
<1>1. t \in Nat
  BY HexLoaderAssumption DEF Addresses
<1>2. /\ n # None => n \in DOMAIN regions /\ Owner(t) = {n}
      /\ n = None => Owner(t) = {}
  BY <1>1, FindsOwner
<1>3. W = IF n # None /\ regions[n].writes
          THEN [A EXCEPT ![regions[n].array][t] = v]
          ELSE A
  BY DEF MapWrite
<1> HIDE DEF n, W
<1>4. CASE n # None /\ regions[n].writes
  <2> DEFINE r == regions[n].array
  <2>1. r \in Arrays
    BY <1>2, <1>4, RegionType
  <2>2. \A b \in Arrays : Reaches(b, t) <=> b = r
    BY <1>2, <1>4 DEF Reaches
  <2>3. W = [A EXCEPT ![r][t] = v]
    BY <1>3, <1>4
  <2> HIDE DEF r
  <2>4. W \in Contents
    BY <2>1, <2>3 DEF Contents
  <2>5. \A b \in Arrays, a \in Addresses : W[b][a] = IF a = t /\ b = r THEN v ELSE A[b][a]
    BY <2>1, <2>3 DEF Contents
  <2> QED
    BY <2>2, <2>4, <2>5 DEF W
<1>5. CASE ~(n # None /\ regions[n].writes)
  <2>1. \A b \in Arrays : ~Reaches(b, t)
    BY <1>2, <1>5 DEF Reaches
  <2>2. W = A
    BY <1>3, <1>5
  <2> QED
    BY <2>1, <2>2 DEF W
<1> QED
  BY <1>4, <1>5

\* The bytes of a line, up to byte k, that go to address a.
Placed(base, l, k, a) == {j \in 1..k : Target(base, l, j) = a}

\* Storing a line leaves the last byte that it has for an address.
LEMMA StoredEffect ==
    ASSUME MapType(regions), NEW s, s.arrays \in Contents, s.base \in Nat, NEW l \in Lines
    PROVE  /\ Stored(s, l) \in Contents
           /\ \A b \in Arrays, a \in Addresses :
                 LET placed == Placed(s.base, l, Len(l.data), a)
                 IN  Stored(s, l)[b][a] =
                         IF placed # {} /\ Reaches(b, a) THEN l.data[LastOf(placed)]
                         ELSE s.arrays[b][a]
<1> DEFINE n == Len(l.data)
           base == s.arrays
           To(k) == Target(s.base, l, k)
           After(k, A) == MapWrite(regions, A, To(k), l.data[k])
           step == [p \in Nat \X Contents |-> IF p[1] \in 1..n THEN After(p[1], p[2]) ELSE p[2]]
<1>1. n \in Nat /\ \A k \in 1..n : l.data[k] \in Nat
  <2>1. l.data \in Seq(Nat)
    BY HexLoaderAssumption
  <2>2. Len(l.data) \in Nat /\ DOMAIN l.data = 1..Len(l.data)
    BY <2>1, LenProperties
  <2> QED
    BY <2>1, <2>2, ElementOfSeq
<1>2. \A k \in 1..n : To(k) \in Addresses
  <2> SUFFICES ASSUME NEW k \in 1..n PROVE To(k) \in Addresses
    OBVIOUS
  <2> DEFINE x == s.base + l.addr + k - 1
  <2>1. x \in Int
    BY <1>1, LineType
  <2> HIDE DEF x
  <2>2. x % Space \in 0..(Space - 1)
    BY <2>1, Wrap, HexLoaderAssumption
  <2> QED
    BY <2>2 DEF x, Target, Addresses
<1> HIDE DEF n, base, To
<1>3. \A k \in 1..n, A \in Contents :
        /\ After(k, A) \in Contents
        /\ \A b \in Arrays, a \in Addresses :
              After(k, A)[b][a] = IF a = To(k) /\ Reaches(b, To(k)) THEN l.data[k] ELSE A[b][a]
  BY <1>1, <1>2, MapWriteEffect
<1> HIDE DEF After
<1>4. step \in [Nat \X Contents -> Contents]
  BY <1>3
<1>5. \A k \in 1..n, A \in Contents : step[<<k, A>>] = After(k, A)
  BY <1>1
<1> HIDE DEF step
<1>6. base \in Contents
  BY DEF base
<1>7. PICK G : Computes(G, n, Contents, base, step)
  BY <1>1, <1>4, <1>6, Iterates
<1>8. G \in [0..n -> Contents] /\ G[0] = base
      /\ \A k \in 0..n : k # 0 => G[k] = step[<<k, G[k - 1]>>]
  BY <1>7 DEF Computes
<1>9. \A k \in 0..n : G[k] = IF k = 0 THEN base ELSE After(k, G[k - 1])
  <2> SUFFICES ASSUME NEW k \in 0..n, k # 0 PROVE G[k] = After(k, G[k - 1])
    BY <1>8
  <2>1. k \in 1..n /\ k - 1 \in 0..n
    BY <1>1
  <2>2. G[k - 1] \in Contents
    BY <1>8, <2>1
  <2> QED
    BY <1>5, <1>8, <2>1, <2>2
<1> DEFINE after[k \in 0..n] == IF k = 0 THEN base ELSE After(k, after[k - 1])
           H(f) == [k \in 0..n |-> IF k = 0 THEN base ELSE After(k, f[k - 1])]
           end == after[n]
<1>10. G = H(G)
  BY <1>8, <1>9
<1>11. after = CHOOSE f : f = H(f)
  OBVIOUS
<1> HIDE DEF after
<1>12. after = H(after)
  BY <1>10, <1>11
<1>13. \A k \in 0..n : after[k] = IF k = 0 THEN base ELSE After(k, after[k - 1])
  BY <1>12
<1> DEFINE Good(k) == /\ after[k] \in Contents
                      /\ \A b \in Arrays, a \in Addresses :
                            after[k][b][a] =
                                IF Placed(s.base, l, k, a) # {} /\ Reaches(b, a)
                                THEN l.data[LastOf(Placed(s.base, l, k, a))]
                                ELSE base[b][a]
           S == {k \in Nat : k <= n => Good(k)}
<1>14. 0 \in S
  <2>1. after[0] = base
    BY <1>1, <1>13
  <2>2. \A a : Placed(s.base, l, 0, a) = {}
    BY DEF Placed
  <2> QED
    BY <1>6, <2>1, <2>2
<1>15. \A k \in Nat : k \in S => k + 1 \in S
  <2> HIDE DEF Good
  <2> SUFFICES ASSUME NEW k \in Nat, k \in S, k + 1 <= n PROVE Good(k + 1)
    OBVIOUS
  <2>0. Good(k)
    <3>1. k <= n
      BY <1>1
    <3> QED
      BY <3>1
  <2> USE DEF Good
  <2> DEFINE A == after[k]
             B == after[k + 1]
             m == k + 1
  <2>1. m \in 0..n /\ m \in 1..n /\ m - 1 = k /\ m # 0 /\ m \in Nat
    BY <1>1
  <2>2. B = After(m, A) /\ A \in Contents
    BY <1>13, <2>0, <2>1
  <2> HIDE DEF A, B, m
  <2>3. B \in Contents
        /\ \A b \in Arrays, a \in Addresses :
              B[b][a] = IF a = To(m) /\ Reaches(b, To(m)) THEN l.data[m] ELSE A[b][a]
    BY <1>3, <2>1, <2>2
  <2>4. ASSUME NEW b \in Arrays, NEW a \in Addresses
        PROVE  B[b][a] = IF Placed(s.base, l, m, a) # {} /\ Reaches(b, a)
                         THEN l.data[LastOf(Placed(s.base, l, m, a))]
                         ELSE base[b][a]
    <3> DEFINE old == Placed(s.base, l, k, a)
               new == Placed(s.base, l, m, a)
    <3>1. A[b][a] = IF old # {} /\ Reaches(b, a) THEN l.data[LastOf(old)] ELSE base[b][a]
      BY <2>0 DEF A
    <3>2. new = IF To(m) = a THEN old \cup {m} ELSE old
      <4>1. 1..m = 1..k \cup {m}
        BY <2>1 DEF m
      <4> QED
        BY <4>1 DEF Placed, To
    <3>3. To(m) = a => LastOf(new) = m
      <4> SUFFICES ASSUME To(m) = a PROVE LastOf(new) = m
        OBVIOUS
      <4>1. new \in SUBSET (1..m) /\ m \in new /\ new # {}
        BY <3>2, <2>1 DEF Placed
      <4> HIDE DEF new
      <4> DEFINE x == LastOf(new)
      <4>2. x \in new /\ \A j \in new : j <= x
        BY <2>1, <4>1, LastIsThere
      <4> HIDE DEF x
      <4>3. x \in 1..m /\ m <= x
        BY <4>1, <4>2
      <4>4. x = m
        BY <2>1, <4>3
      <4> QED
        BY <4>4 DEF x
    <3>4. B[b][a] = IF a = To(m) /\ Reaches(b, To(m)) THEN l.data[m] ELSE A[b][a]
      BY <2>3
    <3> HIDE DEF old, new
    <3>5. CASE To(m) = a /\ Reaches(b, a)
      BY <3>2, <3>3, <3>4, <3>5 DEF new
    <3>6. CASE ~Reaches(b, a)
      <4>1. ~(a = To(m) /\ Reaches(b, To(m)))
        BY <3>6
      <4>2. B[b][a] = base[b][a]
        BY <3>1, <3>4, <3>6, <4>1
      <4> QED
        BY <3>6, <4>2
    <3>7. CASE To(m) # a
      <4>1. new = old
        BY <3>2, <3>7
      <4>2. B[b][a] = A[b][a]
        BY <3>4, <3>7
      <4> QED
        BY <3>1, <4>1, <4>2 DEF new
    <3> QED
      BY <3>5, <3>6, <3>7
  <2> QED
    BY <2>3, <2>4 DEF B, m
<1> HIDE DEF S
<1>16. n \in S
  BY <1>1, <1>14, <1>15, Induction
<1>17. Good(n)
  BY <1>1, <1>16 DEF S
<1>18. Stored(s, l) = end
  BY DEF Stored, after, After, end, n, base, To
<1> HIDE DEF end
<1> QED
  BY <1>17, <1>18 DEF end, n, base

------------------------------------------------------------------------------
\* What one more line adds to the file

\* The bytes of a file f for address a, and the value of the last of a set of them.
BytesIn(f, a) ==
    {p \in (1..Len(f)) \X (1..Space) :
        /\ f[p[1]].kind = "data" /\ p[2] <= Len(f[p[1]].data)
        /\ (BaseIn(f, p[1]) + f[p[1]].addr + p[2] - 1) % Space = a}

Value(f, S) == f[Latest(S)[1]].data[Latest(S)[2]]

\* The bytes that the properties speak of are those of the file read so far.
LEMMA BytesForIn == \A a : BytesFor(a) = BytesIn(file, a)
  BY BaseAtIn DEF BytesFor, BytesIn

\* The bytes that line l adds for address a, under the given base.
NewBytes(base, l, a) == IF l.kind = "data" THEN Placed(base, l, Len(l.data), a) ELSE {}

\* A file with one more line.
LEMMA AppendIs ==
    ASSUME NEW f \in Seq(Lines), NEW l \in Lines
    PROVE  /\ Append(f, l) \in Seq(Lines) /\ Len(f) \in Nat
           /\ Len(Append(f, l)) = Len(f) + 1
           /\ Append(f, l)[Len(f) + 1] = l
           /\ \A k \in 1..Len(f) : Append(f, l)[k] = f[k] /\ f[k] \in Lines
OBVIOUS

\* One more line adds its own bytes, with the base in force before it.
LEMMA BytesGrow ==
    ASSUME NEW f \in Seq(Lines), NEW l \in Lines, NEW a
    PROVE  LET n == Len(f)
           IN  BytesIn(Append(f, l), a) =
                   BytesIn(f, a) \cup {<<n + 1, j>> : j \in NewBytes(BaseIn(f, n + 1), l, a)}
<1> DEFINE n == Len(f)
           m == n + 1
           g == Append(f, l)
           Ok(h, k, j) == /\ h[k].kind = "data" /\ j <= Len(h[k].data)
                          /\ (BaseIn(h, k) + h[k].addr + j - 1) % Space = a
           New == NewBytes(BaseIn(f, m), l, a)
<1>1. /\ n \in Nat /\ Len(g) = m /\ g[m] = l
      /\ \A k \in 1..n : g[k] = f[k]
  BY AppendIs
<1>2. /\ BytesIn(f, a) = {p \in (1..n) \X (1..Space) : Ok(f, p[1], p[2])}
      /\ BytesIn(g, a) = {p \in (1..Len(g)) \X (1..Space) : Ok(g, p[1], p[2])}
  BY DEF BytesIn
<1>3. \A k \in 1..m : BaseIn(g, k) = BaseIn(f, k)
  <2> SUFFICES ASSUME NEW k \in 1..m PROVE BaseIn(g, k) = BaseIn(f, k)
    OBVIOUS
  <2>1. k \in Nat \ {0}
    BY <1>1
  <2>2. \A i \in 1..(k - 1) : g[i] = f[i]
    BY <1>1
  <2> HIDE DEF g
  <2> QED
    BY <2>1, <2>2, BaseDependsOnPast
<1> HIDE DEF n, g
<1>4. \A k \in 1..n : \A j : Ok(g, k, j) <=> Ok(f, k, j)
  <2> SUFFICES ASSUME NEW k \in 1..n, NEW j PROVE Ok(g, k, j) <=> Ok(f, k, j)
    OBVIOUS
  <2>1. k \in 1..m
    BY <1>1
  <2>2. BaseIn(g, k) = BaseIn(f, k) /\ g[k] = f[k]
    BY <1>1, <1>3, <2>1
  <2> QED
    BY <2>2
<1>5. l.data \in Seq(Nat) /\ Len(l.data) <= l.count /\ l.count \in 0..Space /\ Space \in Nat
  BY HexLoaderAssumption
<1>6. Len(l.data) \in Nat
  BY <1>5, LenProperties
<1>7. \A j : j \in New <=> j \in 1..Space /\ Ok(g, m, j)
  <2> SUFFICES ASSUME NEW j PROVE j \in New <=> j \in 1..Space /\ Ok(g, m, j)
    OBVIOUS
  <2>1. m \in 1..m
    BY <1>1
  <2>2. BaseIn(g, m) = BaseIn(f, m) /\ g[m] = l
    BY <1>1, <1>3, <2>1
  <2>3. j \in 1..Len(l.data) <=> j \in 1..Space /\ j <= Len(l.data)
    BY <1>5, <1>6
  <2> DEFINE base == BaseIn(f, m)
  <2>4. Ok(g, m, j) <=> l.kind = "data" /\ j <= Len(l.data) /\ (base + l.addr + j - 1) % Space = a
    BY <2>2
  <2>5. j \in New <=> l.kind = "data" /\ j \in 1..Len(l.data) /\ (base + l.addr + j - 1) % Space = a
    BY DEF NewBytes, Placed, Target
  <2> HIDE DEF base, New, Ok
  <2> QED
    BY <2>3, <2>4, <2>5
<1>8. 1..m = 1..n \cup {m} /\ m \notin 1..n
  BY <1>1
<1> HIDE DEF Ok, New, m
<1>9. BytesIn(g, a) = BytesIn(f, a) \cup {<<m, j>> : j \in New}
  <2>1. ASSUME NEW p \in BytesIn(g, a) PROVE p \in BytesIn(f, a) \cup {<<m, j>> : j \in New}
    <3>1. p \in (1..m) \X (1..Space) /\ Ok(g, p[1], p[2])
      BY <1>1, <1>2, <2>1
    <3>2. CASE p[1] = m
      <4>1. p = <<m, p[2]>> /\ p[2] \in New
        BY <1>7, <3>1, <3>2
      <4> QED
        BY <4>1
    <3>3. CASE p[1] # m
      <4>1. p[1] \in 1..n
        BY <1>8, <3>1, <3>3
      <4> QED
        BY <1>2, <1>4, <3>1, <4>1
    <3> QED
      BY <3>2, <3>3
  <2>2. ASSUME NEW p \in BytesIn(f, a) PROVE p \in BytesIn(g, a)
    BY <1>1, <1>2, <1>4, <1>8, <2>2
  <2>3. ASSUME NEW j \in New PROVE <<m, j>> \in BytesIn(g, a)
    <3>1. j \in 1..Space /\ Ok(g, m, j) /\ m \in 1..m
      BY <1>7, <1>8, <2>3
    <3> QED
      BY <1>1, <1>2, <3>1
  <2> QED
    BY <2>1, <2>2, <2>3
<1> QED
  BY <1>9 DEF g, m, n, New

\* The latest byte of a set is in it.
LEMMA LatestIn ==
    ASSUME NEW n \in Nat, NEW m \in Nat, NEW S \in SUBSET ((1..n) \X (1..m)), S # {}
    PROVE  Latest(S) \in S
<1> DEFINE K == {k \in 1..n : \E j \in 1..m : <<k, j>> \in S}
<1>1. \A p \in S : p = <<p[1], p[2]>> /\ p[1] \in 1..n /\ p[2] \in 1..m /\ p[1] \in K
  OBVIOUS
<1>2. K # {} /\ K \in SUBSET (0..n)
  BY <1>1
<1>3. PICK k \in K : \A i \in K : i <= k
  BY <1>2, Greatest
<1> DEFINE J == {j \in 1..m : <<k, j>> \in S}
<1>4. J # {} /\ J \in SUBSET (0..m)
  BY <1>3
<1>5. PICK j \in J : \A i \in J : i <= j
  BY <1>4, Greatest
<1>6. <<k, j>> \in S /\ k \in 1..n /\ j \in 1..m
  BY <1>3, <1>5
<1>7. \A p \in S : Before(p, <<k, j>>)
  <2> SUFFICES ASSUME NEW p \in S PROVE Before(p, <<k, j>>)
    OBVIOUS
  <2>1. p = <<p[1], p[2]>> /\ p[1] \in 1..n /\ p[2] \in 1..m /\ p[1] \in K
    BY <1>1
  <2>2. p[1] <= k
    BY <1>3, <2>1
  <2>3. p[1] = k => p[2] <= j
    BY <1>5, <2>1
  <2> HIDE DEF K, J
  <2>4. p[1] < k \/ (p[1] = k /\ p[2] <= j)
    BY <1>6, <2>1, <2>2, <2>3
  <2> QED
    BY <2>4 DEF Before
<1>8. S \in SUBSET (Nat \X Nat)
  OBVIOUS
<1>9. Latest(S) = <<k, j>>
  BY <1>6, <1>7, <1>8, LatestIs
<1> QED
  BY <1>6, <1>9

\* The value of the latest byte after one more line.
LEMMA ValueGrows ==
    ASSUME NEW f \in Seq(Lines), NEW l \in Lines, NEW a
    PROVE  LET old == BytesIn(f, a)
               more == NewBytes(BaseIn(f, Len(f) + 1), l, a)
               new == BytesIn(Append(f, l), a)
           IN  /\ more # {} => new # {} /\ Value(Append(f, l), new) = l.data[LastOf(more)]
               /\ more = {} => new = old
               /\ more = {} /\ old # {} => Value(Append(f, l), new) = Value(f, old)
<1> DEFINE n == Len(f)
           m == n + 1
           g == Append(f, l)
           old == BytesIn(f, a)
           more == NewBytes(BaseIn(f, m), l, a)
           new == BytesIn(g, a)
<1>1. n \in Nat /\ g[m] = l /\ \A k \in 1..n : g[k] = f[k]
  BY AppendIs
<1>2. new = old \cup {<<m, j>> : j \in more}
  BY BytesGrow
<1>3. old \in SUBSET ((1..n) \X (1..Space)) /\ Space \in Nat
  BY HexLoaderAssumption DEF BytesIn
<1>4. more \in SUBSET (1..Len(l.data)) /\ Len(l.data) \in Nat
  <2>1. l.data \in Seq(Nat)
    BY HexLoaderAssumption
  <2>2. Len(l.data) \in Nat
    BY <2>1, LenProperties
  <2> QED
    BY <2>2 DEF NewBytes, Placed
<1> HIDE DEF n, g, old, more, new
<1>5. CASE more # {}
  <2> DEFINE x == LastOf(more)
  <2>1. x \in more /\ \A j \in more : j <= x
    BY <1>4, <1>5, LastIsThere
  <2> HIDE DEF x
  <2>2. <<m, x>> \in new /\ new \in SUBSET (Nat \X Nat)
    BY <1>1, <1>2, <1>3, <1>4, <2>1
  <2>3. \A y \in new : Before(y, <<m, x>>)
    <3> SUFFICES ASSUME NEW y \in new PROVE Before(y, <<m, x>>)
      OBVIOUS
    <3>1. CASE y \in old
      <4>1. y[1] \in 1..n
        BY <1>3, <3>1
      <4>2. y[1] < m
        BY <1>1, <4>1
      <4> QED
        BY <4>2 DEF Before
    <3>2. CASE y \notin old
      <4>1. PICK j \in more : y = <<m, j>>
        BY <1>2, <3>2
      <4> QED
        BY <2>1, <4>1 DEF Before
    <3> QED
      BY <3>1, <3>2
  <2>4. Latest(new) = <<m, x>>
    BY <2>2, <2>3, LatestIs
  <2>5. Value(g, new) = l.data[x]
    BY <1>1, <2>4 DEF Value
  <2> QED
    BY <1>5, <2>2, <2>5 DEF x, g, new, more, n
<1>6. CASE more = {}
  <2>1. new = old
    BY <1>2, <1>6
  <2>2. old # {} => Latest(old) \in old
    BY <1>1, <1>3, LatestIn
  <2>3. old # {} => Latest(old)[1] \in 1..n
    BY <1>3, <2>2
  <2>4. old # {} => Value(g, old) = Value(f, old)
    BY <1>1, <2>3 DEF Value
  <2> QED
    BY <1>6, <2>1, <2>4 DEF g, new, more, n, old
<1> QED
  BY <1>5, <1>6

------------------------------------------------------------------------------
\* One line, loaded and in the image

\* hex_load_file: each cell holds the last byte for its address.
CellsOf(f, arrays) ==
    \A b \in Arrays, a \in Addresses :
        arrays[b][a] =
            IF BytesIn(f, a) # {} /\ Reaches(b, a) THEN Value(f, BytesIn(f, a)) ELSE Blank

\* That is the property LoadedExactly.
LEMMA CellsAreLoadedExactly == LoadedExactly <=> CellsOf(file, loader.arrays)
<1>1. \A a : BytesFor(a) = BytesIn(file, a)
  BY BytesForIn
<1> QED
  BY <1>1 DEF LoadedExactly, CellsOf, Addresses, Reaches, Value

\* What a line makes of the arrays.
LEMMA StreamArrays ==
    ASSUME NEW s, LoaderShape(s), NEW l \in Lines
    PROVE  StreamLine(s, l).arrays = IF l.kind = "data" THEN Stored(s, l) ELSE s.arrays
<1> DEFINE stored == Stored(s, l)
           state == IF Complete(l) THEN s.state ELSE "failed"
<1>1. CASE l.kind = "data"
  <2>1. StreamLine(s, l) = [s EXCEPT !.arrays = stored, !.state = state]
    BY <1>1 DEF StreamLine
  <2> HIDE DEF stored, state
  <2>2. StreamLine(s, l).arrays = stored
    BY <2>1 DEF LoaderShape
  <2> QED
    BY <1>1, <2>2 DEF stored
<1>2. CASE l.kind = "eof"
  BY <1>2 DEF StreamLine, LoaderShape
<1>3. CASE l.kind = "base"
  BY <1>3 DEF StreamLine, LoaderShape
<1>4. CASE l.kind = "garbage"
  BY <1>4 DEF StreamLine, LoaderShape
<1>5. CASE l.kind \in {"other", "blank"}
  BY <1>5 DEF StreamLine
<1> QED
  BY <1>1, <1>2, <1>3, <1>4, <1>5, LineType

\* A line keeps the cells right.
LEMMA StreamCells ==
    ASSUME MapType(regions), NEW f \in Seq(Lines), NEW s, LoaderShape(s),
           s.arrays \in Contents, s.base \in Nat, s.base = BaseIn(f, Len(f) + 1),
           CellsOf(f, s.arrays), NEW l \in Lines
    PROVE  /\ StreamLine(s, l).arrays \in Contents
           /\ CellsOf(Append(f, l), StreamLine(s, l).arrays)
<1> DEFINE g == Append(f, l)
           A == s.arrays
           B == StreamLine(s, l).arrays
<1>1. B = IF l.kind = "data" THEN Stored(s, l) ELSE A
  BY StreamArrays
<1>2. B \in Contents
  BY <1>1, StoredEffect
<1>3. ASSUME NEW b \in Arrays, NEW a \in Addresses
      PROVE  LET more == NewBytes(s.base, l, a)
             IN  B[b][a] = IF more # {} /\ Reaches(b, a) THEN l.data[LastOf(more)] ELSE A[b][a]
  <2>1. CASE l.kind = "data"
    <3> DEFINE placed == Placed(s.base, l, Len(l.data), a)
    <3>1. Stored(s, l)[b][a] = IF placed # {} /\ Reaches(b, a) THEN l.data[LastOf(placed)]
                               ELSE A[b][a]
      BY StoredEffect
    <3>2. NewBytes(s.base, l, a) = placed /\ B = Stored(s, l)
      BY <1>1, <2>1 DEF NewBytes
    <3> HIDE DEF placed, B, A
    <3> QED
      BY <3>1, <3>2
  <2>2. CASE l.kind # "data"
    BY <1>1, <2>2 DEF NewBytes
  <2> QED
    BY <2>1, <2>2
<1>4. ASSUME NEW b \in Arrays, NEW a \in Addresses
      PROVE  B[b][a] = IF BytesIn(g, a) # {} /\ Reaches(b, a) THEN Value(g, BytesIn(g, a)) ELSE Blank
  <2> DEFINE old == BytesIn(f, a)
             more == NewBytes(s.base, l, a)
             new == BytesIn(g, a)
  <2>1. /\ more # {} => new # {} /\ Value(g, new) = l.data[LastOf(more)]
        /\ more = {} => new = old
        /\ more = {} /\ old # {} => Value(g, new) = Value(f, old)
    BY ValueGrows
  <2>2. A[b][a] = IF old # {} /\ Reaches(b, a) THEN Value(f, old) ELSE Blank
    BY DEF CellsOf
  <2>3. B[b][a] = IF more # {} /\ Reaches(b, a) THEN l.data[LastOf(more)] ELSE A[b][a]
    BY <1>3
  <2> HIDE DEF old, more, new, A, B, g
  <2>4. CASE more # {}
    BY <2>1, <2>2, <2>3, <2>4 DEF new
  <2>5. CASE more = {}
    BY <2>1, <2>2, <2>3, <2>5 DEF new
  <2> QED
    BY <2>4, <2>5
<1> HIDE DEF B, g
<1>5. CellsOf(g, B)
  BY <1>4 DEF CellsOf
<1> QED
  BY <1>2, <1>5 DEF B, g

\* hex_load_file_malloc: the bytes of the image, as long as they fit.
FitsIn(f) == \A n \in 1..Len(f) :
    f[n].kind = "data" => BaseIn(f, n) + f[n].addr + f[n].count <= Space

\* Fits, of the file read so far.
LEMMA FitsIsIn == Fits <=> FitsIn(file)
  BY BaseAtIn DEF Fits, FitsIn

ImageOf(f, m) ==
    \A a \in Addresses :
        /\ BytesIn(f, a) # {} => a < m.size /\ m.bytes[a] = Value(f, BytesIn(f, a))
        /\ BytesIn(f, a) = {} /\ a < m.size => m.bytes[a] = Blank

\* If a file fits, it fits without its last line.
LEMMA FitsBefore ==
    ASSUME NEW f \in Seq(Lines), NEW l \in Lines, FitsIn(Append(f, l))
    PROVE  /\ FitsIn(f)
           /\ l.kind = "data" => BaseIn(f, Len(f) + 1) + l.addr + l.count <= Space
<1> DEFINE n == Len(f)
           g == Append(f, l)
<1>1. n \in Nat /\ Len(g) = n + 1 /\ g[n + 1] = l /\ \A k \in 1..n : g[k] = f[k]
  BY AppendIs
<1> HIDE DEF n, g
<1>2. \A k \in 1..(n + 1) : BaseIn(g, k) = BaseIn(f, k)
  <2> SUFFICES ASSUME NEW k \in 1..(n + 1) PROVE BaseIn(g, k) = BaseIn(f, k)
    OBVIOUS
  <2>1. k \in Nat \ {0} /\ \A i \in 1..(k - 1) : g[i] = f[i]
    BY <1>1
  <2> QED
    BY <2>1, BaseDependsOnPast
<1>3. \A k \in 1..(n + 1) : g[k].kind = "data" => BaseIn(f, k) + g[k].addr + g[k].count <= Space
  BY <1>1, <1>2 DEF FitsIn, g
<1>4. n + 1 \in 1..(n + 1) /\ \A k \in 1..n : k \in 1..(n + 1)
  BY <1>1
<1>5. \A k \in 1..n : f[k].kind = "data" => BaseIn(f, k) + f[k].addr + f[k].count <= Space
  BY <1>1, <1>3, <1>4
<1>6. l.kind = "data" => BaseIn(f, n + 1) + l.addr + l.count <= Space
  BY <1>1, <1>3, <1>4
<1> QED
  BY <1>5, <1>6 DEF FitsIn, n

\* The cell of the image after a line that fits.
LEMMA GrownCell ==
    ASSUME NEW m, Sized(m), NEW l \in Lines, l.kind = "data", Complete(l),
           m.base + l.addr + l.count <= Space, NEW a \in Addresses
    PROVE  LET placed == Placed(m.base, l, Len(l.data), a)
               g == Grown(m, l)
           IN  /\ placed # {} => a < g.size /\ g.bytes[a] = l.data[LastOf(placed)]
               /\ placed = {} => /\ a < m.size => a < g.size /\ g.bytes[a] = m.bytes[a]
                                 /\ a < g.size /\ ~(a < m.size) => g.bytes[a] = Blank
<1> DEFINE c == l.count
           start == LineStart(m, l)
           end == LineEnd(m, l)
           size == NewSize(m, l)
           placed == Placed(m.base, l, Len(l.data), a)
           cells == [x \in 0..(size - 1) |->
                        CASE x \in start..(end - 1) -> l.data[x - start + 1]
                          [] x \notin start..(end - 1) ->
                                 IF x < m.size THEN m.bytes[x] ELSE Blank]
<1>1. /\ m.base \in Nat /\ m.size \in Nat /\ l.addr \in Nat /\ c \in Nat
      /\ Space \in Nat \ {0} /\ a \in 0..(Space - 1) /\ Len(l.data) = c
  BY LineType, HexLoaderAssumption DEF Sized, Complete, Addresses
<1>2. /\ start \in Nat /\ end = start + c /\ end <= Space /\ start = m.base + l.addr
      /\ size = IF end > m.size THEN end ELSE m.size
  BY <1>1 DEF LineStart, LineEnd, NewSize
<1>3. Grown(m, l).size = size /\ Grown(m, l).bytes = cells
  <2>1. Grown(m, l) = [m EXCEPT !.size = size, !.bytes = cells]
    BY DEF Grown
  <2> HIDE DEF size, cells
  <2> QED
    BY <2>1 DEF Sized, ImageShape
<1>4. \A x \in 0..(size - 1) :
         cells[x] = IF x \in start..(end - 1) THEN l.data[x - start + 1]
                    ELSE IF x < m.size THEN m.bytes[x] ELSE Blank
  <2> HIDE DEF size, start, end
  <2> QED
    OBVIOUS
<1> HIDE DEF c, start, end, size, cells
<1>5. \A j \in 1..c : Target(m.base, l, j) = a <=> j = a - start + 1
  <2> SUFFICES ASSUME NEW j \in 1..c PROVE Target(m.base, l, j) = a <=> j = a - start + 1
    OBVIOUS
  <2> DEFINE x == m.base + l.addr + j - 1
  <2>1. x \in 0..(Space - 1) /\ x = start + j - 1
    BY <1>1, <1>2
  <2> HIDE DEF x
  <2>2. x % Space = x
    <3>1. x \in Int /\ Space \in Nat \ {0}
      BY <1>1, <2>1
    <3> QED
      BY <2>1, <3>1, Wrap
  <2>3. Target(m.base, l, j) = x
    BY <2>2 DEF Target, x
  <2>4. x \in Int /\ x = start + j - 1 /\ start \in Nat /\ a \in Nat /\ j \in Nat
    BY <1>1, <1>2, <2>1
  <2>5. x = a <=> j = a - start + 1
    BY <2>4
  <2> QED
    BY <2>3, <2>5
<1>6. placed = {j \in 1..c : j = a - start + 1}
  <2>1. placed = {j \in 1..c : Target(m.base, l, j) = a}
    BY <1>1 DEF Placed
  <2> QED
    BY <1>5, <2>1
<1> HIDE DEF placed
<1>7. CASE a \in start..(end - 1)
  <2> DEFINE j == a - start + 1
  <2>1. j \in 1..c
    <3>1. a \in Nat /\ start \in Nat /\ c \in Nat /\ end = start + c
      BY <1>1, <1>2
    <3> QED
      BY <1>7, <3>1
  <2>6. placed = {j}
    BY <1>6, <2>1
  <2>2. LastOf(placed) = j
    <3>1. c \in Nat /\ placed \in SUBSET (1..c) /\ placed # {}
      BY <1>1, <2>1, <2>6
    <3>2. LastOf(placed) \in placed
      BY <3>1, LastIsThere
    <3> QED
      BY <2>6, <3>2
  <2>3. a \in 0..(size - 1) /\ a < size
    <3>1. a \in Nat /\ start \in Nat /\ end \in Nat /\ m.size \in Nat
      BY <1>1, <1>2
    <3>2. size \in Nat /\ end <= size
      BY <1>2, <3>1
    <3>3. a < end
      BY <1>7, <3>1
    <3> QED
      BY <3>1, <3>2, <3>3
  <2>4. cells[a] = l.data[j]
    BY <1>4, <1>7, <2>3
  <2> QED
    BY <1>3, <2>2, <2>3, <2>4, <2>6 DEF placed
<1>8. CASE a \notin start..(end - 1)
  <2>1. placed = {}
    BY <1>1, <1>2, <1>6, <1>8
  <2>2. a < m.size => a < size /\ cells[a] = m.bytes[a]
    <3> SUFFICES ASSUME a < m.size PROVE a < size /\ cells[a] = m.bytes[a]
      OBVIOUS
    <3>1. a \in Nat /\ end \in Nat /\ m.size \in Nat
      BY <1>1, <1>2
    <3>2. size \in Nat /\ m.size <= size
      BY <1>2, <3>1
    <3>3. a \in 0..(size - 1) /\ a < size
      BY <3>1, <3>2
    <3> QED
      BY <1>4, <1>8, <3>3
  <2>3. a < size /\ ~(a < m.size) => cells[a] = Blank
    <3> SUFFICES ASSUME a < size, ~(a < m.size) PROVE cells[a] = Blank
      OBVIOUS
    <3>1. a \in 0..(size - 1)
      BY <1>1, <1>2
    <3> QED
      BY <1>4, <1>8, <3>1
  <2> QED
    BY <1>3, <2>1, <2>2, <2>3 DEF placed
<1> QED
  BY <1>7, <1>8

\* The image after one more line that both loaders can read.
LEMMA ImageGrows ==
    ASSUME NEW f \in Seq(Lines), NEW m, Sized(m), m.state = "reading", NEW l \in Lines,
           m.base = BaseIn(f, Len(f) + 1), FitsIn(Append(f, l)), ImageOf(f, m),
           ImageLine(m, l).state # "failed"
    PROVE  ImageOf(Append(f, l), ImageLine(m, l))
<1> DEFINE g == Append(f, l)
           r == ImageLine(m, l)
<1> SUFFICES ASSUME NEW a \in Addresses
             PROVE  /\ BytesIn(g, a) # {} => a < r.size /\ r.bytes[a] = Value(g, BytesIn(g, a))
                    /\ BytesIn(g, a) = {} /\ a < r.size => r.bytes[a] = Blank
  BY DEF ImageOf
<1> DEFINE old == BytesIn(f, a)
           more == NewBytes(m.base, l, a)
           new == BytesIn(g, a)
<1>1. /\ more # {} => new # {} /\ Value(g, new) = l.data[LastOf(more)]
      /\ more = {} => new = old
      /\ more = {} /\ old # {} => Value(g, new) = Value(f, old)
  BY ValueGrows
<1>2. /\ old # {} => a < m.size /\ m.bytes[a] = Value(f, old)
      /\ old = {} /\ a < m.size => m.bytes[a] = Blank
  BY DEF ImageOf
<1>3. /\ more # {} => a < r.size /\ r.bytes[a] = l.data[LastOf(more)]
      /\ more = {} => /\ a < m.size => a < r.size /\ r.bytes[a] = m.bytes[a]
                      /\ a < r.size /\ ~(a < m.size) => r.bytes[a] = Blank
  <2>1. CASE l.kind = "data"
    <3>1. Complete(l)
      BY <2>1, ImageEffect DEF StateAfter
    <3>2. r = Grown(m, l)
      BY <2>1, <3>1 DEF ImageLine
    <3>3. m.base + l.addr + l.count <= Space
      BY <2>1, FitsBefore
    <3>4. more = Placed(m.base, l, Len(l.data), a)
      BY <2>1 DEF NewBytes
    <3> HIDE DEF more, r
    <3> QED
      BY <2>1, <3>1, <3>2, <3>3, <3>4, GrownCell
  <2>2. CASE l.kind # "data"
    <3>1. more = {}
      BY <2>2 DEF NewBytes
    <3>2. l.kind # "garbage"
      BY ImageEffect DEF StateAfter
    <3>3. r.size = m.size /\ r.bytes = m.bytes
      <4> DEFINE base == l.addr * Space
      <4>1. CASE l.kind = "eof"
        BY <4>1 DEF ImageLine, Sized, ImageShape
      <4>2. CASE l.kind = "base"
        <5>1. r = [m EXCEPT !.base = base]
          BY <4>2 DEF ImageLine
        <5> HIDE DEF base, r
        <5> QED
          BY <5>1 DEF Sized, ImageShape
      <4>3. CASE l.kind \in {"other", "blank"}
        BY <4>3 DEF ImageLine
      <4> QED
        BY <2>2, <3>2, <4>1, <4>2, <4>3, LineType
    <3> HIDE DEF more, r
    <3>4. a \in Nat /\ m.size \in Nat
      BY HexLoaderAssumption DEF Addresses, Sized
    <3> QED
      BY <3>1, <3>3, <3>4
  <2> QED
    BY <2>1, <2>2
<1> HIDE DEF old, more, new, g, r
<1>4. CASE more # {}
  BY <1>1, <1>3, <1>4 DEF new
<1>5. CASE more = {}
  <2>1. new = old
    BY <1>1, <1>5
  <2>2. CASE old # {}
    BY <1>1, <1>2, <1>3, <1>5, <2>1, <2>2 DEF new
  <2>3. CASE old = {}
    BY <1>1, <1>2, <1>3, <1>5, <2>1, <2>3 DEF new
  <2> QED
    BY <2>2, <2>3
<1> QED
  BY <1>4, <1>5

------------------------------------------------------------------------------
\* What is loaded

\* The inductive invariant: what the file, the base in force and the arrays have to
\* do with one another, and the same for the image.
LoadInv ==
    /\ HexInv
    /\ MapType(regions)
    /\ file \in Seq(Lines)
    /\ loader.base = BaseIn(file, Len(file) + 1)
    /\ loader.base \in Nat
    /\ loader.arrays \in Contents
    /\ CellsOf(file, loader.arrays)
    /\ image.state # "failed" /\ FitsIn(file) => ImageOf(file, image)

\* It holds with no line read.
LEMMA LoadInvInit == HexInit => LoadInv
<1> SUFFICES ASSUME HexInit PROVE LoadInv
  OBVIOUS
<1> DEFINE blank == [b \in Arrays |-> [a \in 0..(Space - 1) |-> Blank]]
           none == <<>>
<1>1. HexInv
  BY HexInvInit
<1>2. MapType(regions)
  BY HexLoaderAssumption DEF HexInit, MapType
<1>3. /\ file = none
      /\ loader.base = 0 /\ loader.arrays = blank
      /\ image.size = 0 /\ image.bytes = none
  BY DEF HexInit
<1>4. none \in Seq(Lines) /\ Len(none) = 0
  OBVIOUS
<1>5. BaseIn(none, 1) = 0
  BY DEF BaseIn, BasesBefore
<1>6. \A a : BytesIn(none, a) = {}
  BY <1>4 DEF BytesIn
<1>7. blank \in Contents /\ \A b \in Arrays, a \in Addresses : blank[b][a] = Blank
  BY HexLoaderAssumption DEF Contents, Addresses
<1> HIDE DEF blank, none
<1>8. CellsOf(file, loader.arrays)
  BY <1>3, <1>6, <1>7 DEF CellsOf
<1>9. ImageOf(file, image)
  BY <1>3, <1>6, HexLoaderAssumption DEF ImageOf, Addresses
<1> QED
  BY <1>1, <1>2, <1>3, <1>4, <1>5, <1>7, <1>8, <1>9 DEF LoadInv

\* Every line and the end of the file keep it.
LEMMA LoadInvStep == LoadInv /\ [HexNext]_hexVars => LoadInv'
<1> SUFFICES ASSUME LoadInv, [HexNext]_hexVars PROVE LoadInv'
  OBVIOUS
<1>1. HexInv'
  BY HexInvStep DEF LoadInv
<1>2. regions' = regions
  BY DEF HexNext, ReadLine, EndOfFile, hexVars
<1>3. MapType(regions')
  BY <1>2 DEF LoadInv
<1>4. \A f, A : CellsOf(f, A)' <=> CellsOf(f, A)
  BY <1>2 DEF CellsOf, Reaches, Owner
<1>5. CASE ReadLine
  <2>1. PICK l \in Lines :
            /\ Reading(loader) \/ Reading(image)
            /\ file' = Append(file, l)
            /\ loader' = IF Reading(loader) THEN StreamLine(loader, l) ELSE loader
            /\ image' = IF Reading(image) THEN ImageLine(image, l) ELSE image
    BY <1>5 DEF ReadLine
  <2>2. /\ loader.state = "reading" /\ image.state = "reading"
        /\ loader.base = image.base /\ LoaderShape(loader) /\ Sized(image)
    BY <2>1 DEF Reading, SameVerdict, LoadInv, HexInv
  <2>3. loader' = StreamLine(loader, l) /\ image' = ImageLine(image, l)
    BY <2>1, <2>2 DEF Reading
  <2> DEFINE f == file
             g == Append(f, l)
             n == Len(f)
  <2>4. f \in Seq(Lines) /\ loader.base = BaseIn(f, n + 1)
    BY DEF LoadInv
  <2>5. /\ g \in Seq(Lines) /\ n \in Nat /\ Len(g) = n + 1 /\ g[n + 1] = l
        /\ \A k \in 1..n : g[k] = f[k]
    BY <2>4, AppendIs
  <2>6. loader'.base = BaseIn(g, Len(g) + 1) /\ loader'.base \in Nat
    <3>1. loader'.base = BaseAfter(loader.base, l)
      BY <2>2, <2>3, StreamEffect
    <3>2. BaseIn(g, n + 1) = BaseIn(f, n + 1)
      <4>1. \A k \in 1..((n + 1) - 1) : g[k] = f[k]
        BY <2>5
      <4> HIDE DEF f, g, n
      <4> QED
        BY <2>5, <4>1, BaseDependsOnPast
    <3>3. BaseIn(g, (n + 1) + 1) = IF l.kind = "base" THEN l.addr * Space ELSE BaseIn(g, n + 1)
      <4> HIDE DEF f, g, n
      <4>1. n + 1 \in Nat \ {0}
        BY <2>5
      <4> QED
        BY <2>5, <4>1, BaseAfterLine
    <3>4. l.addr * Space \in Nat /\ loader.base \in Nat
      BY LineType DEF LoadInv
    <3> HIDE DEF f, g, n
    <3> QED
      BY <2>4, <2>5, <3>1, <3>2, <3>3, <3>4 DEF BaseAfter
  <2>7. loader'.arrays \in Contents /\ CellsOf(g, loader'.arrays)
    BY <2>2, <2>3, StreamCells DEF LoadInv
  <2>8. image'.state # "failed" /\ FitsIn(g) => ImageOf(g, image')
    <3> SUFFICES ASSUME image'.state # "failed", FitsIn(g) PROVE ImageOf(g, image')
      OBVIOUS
    <3>1. FitsIn(f)
      BY <2>4, FitsBefore
    <3>2. ImageOf(f, image) /\ image.base = BaseIn(f, Len(f) + 1)
      BY <2>2, <2>4, <3>1 DEF LoadInv
    <3> QED
      BY <2>2, <2>3, <2>4, <3>2, ImageGrows
  <2>9. file' = g
    BY <2>1
  <2> HIDE DEF g
  <2> QED
    BY <1>1, <1>3, <1>4, <2>5, <2>6, <2>7, <2>8, <2>9 DEF LoadInv, MapType, FitsIn, ImageOf
<1>6. CASE EndOfFile
  <2>1. /\ loader.state = "reading" /\ image.state = "reading"
        /\ LoaderShape(loader) /\ Sized(image)
    BY <1>6 DEF EndOfFile, Reading, SameVerdict, LoadInv, HexInv
  <2>2. /\ loader' = [loader EXCEPT !.state = "done"]
        /\ image' = [image EXCEPT !.state = "done"]
        /\ file' = file
    BY <1>6, <2>1 DEF EndOfFile, Reading
  <2>3. /\ loader'.base = loader.base /\ loader'.arrays = loader.arrays
        /\ image'.size = image.size /\ image'.bytes = image.bytes
    BY <2>1, <2>2 DEF LoaderShape, Sized, ImageShape
  <2>4. CellsOf(file, loader.arrays)
    BY DEF LoadInv
  <2>5. CellsOf(file, loader.arrays)'
    BY <1>4, <2>2, <2>3, <2>4
  <2>6. FitsIn(file) => ImageOf(file, image)
    BY <2>1 DEF LoadInv
  <2>7. FitsIn(file') => ImageOf(file', image')
    BY <2>2, <2>3, <2>6 DEF ImageOf
  <2> QED
    BY <1>1, <1>3, <2>2, <2>3, <2>5, <2>7 DEF LoadInv
<1>7. CASE UNCHANGED hexVars
  BY <1>1, <1>3, <1>4, <1>7 DEF LoadInv, hexVars
<1> QED
  BY <1>5, <1>6, <1>7 DEF HexNext

\* Whatever the file and the memory map, and wherever the load stops, each cell of the
\* host's arrays holds the last byte that the lines read have for an address whose
\* region can be written and works on that array (hex_loader.c:33, mem_map.c:16).
THEOREM LoadedExactlyCorrect == HexSpec => []LoadedExactly
<1>1. LoadInv => LoadedExactly
  BY CellsAreLoadedExactly DEF LoadInv
<1> QED
  BY <1>1, LoadInvInit, LoadInvStep, PTL DEF HexSpec

\* Reading where both loaders have put the file.
LEMMA Agreement == LoadInv => LoadersAgree
<1> SUFFICES ASSUME LoadInv PROVE LoadersAgree
  OBVIOUS
<1>1. SameVerdict
  BY DEF LoadInv, HexInv
<1>2. ASSUME image.state # "failed", Fits, NEW a \in 0..(Space - 1), Backed(a)
      PROVE  MapRead(regions, loader.arrays, a) = IF a < image.size THEN image.bytes[a] ELSE Blank
  <2> DEFINE S == BytesIn(file, a)
             n == find_region(regions, a)
             b == regions[n].array
  <2>1. a \in Addresses /\ a \in Nat
    BY HexLoaderAssumption DEF Addresses
  <2>2. /\ S # {} => a < image.size /\ image.bytes[a] = Value(file, S)
        /\ S = {} /\ a < image.size => image.bytes[a] = Blank
    BY <1>2, <2>1, FitsIsIn DEF LoadInv, ImageOf
  <2>3. MapType(regions)
    BY DEF LoadInv
  <2>4. PICK k \in Owner(a) : regions[k].reads /\ regions[k].writes
    BY <1>2 DEF Backed
  <2>5. n # None /\ n \in DOMAIN regions /\ Owner(a) = {n}
    BY <2>1, <2>3, <2>4, FindsOwner
  <2>6. regions[n].reads /\ regions[n].writes
    BY <2>4, <2>5
  <2>7. b \in Arrays
    BY <2>3, <2>5, RegionType
  <2>8. Reaches(b, a)
    BY <2>5, <2>6 DEF Reaches
  <2>9. loader.arrays[b][a] = IF S # {} THEN Value(file, S) ELSE Blank
    BY <2>1, <2>7, <2>8 DEF LoadInv, CellsOf
  <2>10. MapRead(regions, loader.arrays, a) = loader.arrays[b][a]
    BY <2>5, <2>6 DEF MapRead
  <2> HIDE DEF S, b, n
  <2>11. CASE S # {}
    BY <2>2, <2>9, <2>10, <2>11
  <2>12. CASE S = {}
    BY <2>2, <2>9, <2>10, <2>12
  <2> QED
    BY <2>11, <2>12
<1> QED
  BY <1>1, <1>2 DEF LoadersAgree

\* The image that hex_load_file_malloc returns is what hex_load_file loads, as the CPU
\* reads it, for every file that fits code memory (hex_loader.c:33, 102).
THEOREM LoadersAgreeCorrect == HexSpec => []LoadersAgree
BY Agreement, LoadInvInit, LoadInvStep, PTL DEF HexSpec
===============================================================================
