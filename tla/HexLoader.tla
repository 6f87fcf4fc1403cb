------------------------------ MODULE HexLoader -------------------------------
(***************************************************************************)
(* The two loaders of src/hex_loader.c reading one Intel HEX file line by  *)
(* line: hex_load_file writes each byte through the memory map as it goes, *)
(* hex_load_file_malloc builds an image.  Their parsing code is duplicated *)
(* there, and so it is here.                                               *)
(*                                                                         *)
(* A line is [kind, addr, count, data]: data holds the digits that are     *)
(* there before the line ends or goes wrong, as bytes, count is the number *)
(* of bytes the line announces.  "base" is the record for the upper half   *)
(* of the address, which addr holds then; "other" is any record type that  *)
(* the loaders skip, "garbage" a line whose header or upper address they   *)
(* cannot read.                                                            *)
(***************************************************************************)
EXTENDS MemMap

CONSTANTS
    Lines,    \* the lines a file may have
    Maps,     \* the code memory maps of the host
    Arrays,   \* the arrays behind them
    MaxLines  \* bound on the lines of a file

Kinds == {"data", "eof", "base", "other", "blank", "garbage"}

ASSUME HexLoaderAssumption ==
    /\ Space \in Nat \ {0} /\ Blank \in Nat /\ MaxLines \in Nat
    /\ \A l \in Lines : /\ l.kind \in Kinds /\ l.addr \in Nat /\ l.count \in 0..Space
                        /\ l.data \in Seq(Nat) /\ Len(l.data) <= l.count
    /\ Maps \subseteq Seq([base : Nat, size : Nat, reads : BOOLEAN, writes : BOOLEAN,
                           array : Arrays])

VARIABLES
    regions,  \* the memory map
    file,     \* history: the lines read so far
    loader,   \* hex_load_file: [state, base, arrays]
    image     \* hex_load_file_malloc: [state, base, size, bytes]

hexVars == <<regions, file, loader, image>>

\* The host has set its arrays to Blank before it loads, as main does.
HexInit ==
    /\ regions \in Maps
    /\ file = <<>>
    /\ loader = [state |-> "reading", base |-> 0,
                 arrays |-> [b \in Arrays |-> [a \in 0..(Space - 1) |-> Blank]]]
    /\ image = [state |-> "reading", base |-> 0, size |-> 0, bytes |-> <<>>]

Complete(l) == Len(l.data) = l.count

------------------------------------------------------------------------------
\* hex_load_stream

\* The address of byte k of a data line, cut to uint16_t.
Target(base, l, k) == (base + l.addr + k - 1) % Space

Stored(s, l) ==
    LET after[k \in 0..Len(l.data)] ==
            IF k = 0 THEN s.arrays
            ELSE MapWrite(regions, after[k - 1], Target(s.base, l, k), l.data[k])
    IN  after[Len(l.data)]

StreamLine(s, l) ==
    CASE l.kind = "data"    -> [s EXCEPT !.arrays = Stored(s, l),
                                         !.state = IF Complete(l) THEN @ ELSE "failed"]
      [] l.kind = "eof"     -> [s EXCEPT !.state = "done"]
      [] l.kind = "base"    -> [s EXCEPT !.base = l.addr * Space]
      [] l.kind = "garbage" -> [s EXCEPT !.state = "failed"]
      [] l.kind \in {"other", "blank"} -> s

------------------------------------------------------------------------------
\* hex_load_file_malloc

Freed(m) == [m EXCEPT !.state = "failed", !.size = 0, !.bytes = <<>>]

LineStart(m, l) == m.base + l.addr
LineEnd(m, l) == LineStart(m, l) + l.count

SizeOfLine(m, l) == LineEnd(m, l)
NewSize(m, l) == IF LineEnd(m, l) > m.size THEN LineEnd(m, l) ELSE m.size

\* The image grows to the end of the line, Blank where nothing was loaded.
Grown(m, l) ==
    [m EXCEPT !.size = NewSize(m, l),
              !.bytes = [a \in 0..(NewSize(m, l) - 1) |->
                            CASE a \in LineStart(m, l)..(LineEnd(m, l) - 1) ->
                                     l.data[a - LineStart(m, l) + 1]
                              [] a \notin LineStart(m, l)..(LineEnd(m, l) - 1) ->
                                     IF a < m.size THEN m.bytes[a] ELSE Blank]]

ImageLine(m, l) ==
    CASE l.kind = "data" -> IF Complete(l) THEN Grown(m, l) ELSE Freed(m)
      [] l.kind = "eof"     -> [m EXCEPT !.state = "done"]
      [] l.kind = "base"    -> [m EXCEPT !.base = l.addr * Space]
      [] l.kind = "garbage" -> Freed(m)
      [] l.kind \in {"other", "blank"} -> m

------------------------------------------------------------------------------
Reading(s) == s.state = "reading"

ReadLine == \E l \in Lines :
    /\ Reading(loader) \/ Reading(image)
    /\ Len(file) < MaxLines
    /\ file' = Append(file, l)
    /\ loader' = IF Reading(loader) THEN StreamLine(loader, l) ELSE loader
    /\ image' = IF Reading(image) THEN ImageLine(image, l) ELSE image
    /\ UNCHANGED regions

\* fgets finds no more: success, whether or not there was an "eof" line.
EndOfFile ==
    /\ Reading(loader) \/ Reading(image)
    /\ loader' = IF Reading(loader) THEN [loader EXCEPT !.state = "done"] ELSE loader
    /\ image' = IF Reading(image) THEN [image EXCEPT !.state = "done"] ELSE image
    /\ UNCHANGED <<regions, file>>

HexNext == ReadLine \/ EndOfFile

HexSpec == HexInit /\ [][HexNext]_hexVars

------------------------------------------------------------------------------
\* Properties

\* The loaders' states; the image has a byte for every address below its size, and a
\* failed load leaves none.
HexTypeOK ==
    /\ {loader.state, image.state} \subseteq {"reading", "done", "failed"}
    /\ loader.base \in Nat /\ image.base \in Nat /\ image.size \in Nat
    /\ DOMAIN image.bytes = 0..(image.size - 1)
    /\ image.state = "failed" => image.size = 0

\* The base in force at line n of the file.
BaseAt(n) ==
    LET before == {k \in 1..(n - 1) : file[k].kind = "base"}
    IN  IF before = {} THEN 0
        ELSE file[CHOOSE k \in before : \A j \in before : j <= k].addr * Space

\* The bytes <<line, position>> of the file that go to address a.
BytesFor(a) ==
    {p \in (1..Len(file)) \X (1..Space) :
        /\ file[p[1]].kind = "data" /\ p[2] <= Len(file[p[1]].data)
        /\ (BaseAt(p[1]) + file[p[1]].addr + p[2] - 1) % Space = a}

\* Line and position of the last of them.
Latest(S) == CHOOSE x \in S : \A y \in S : y[1] < x[1] \/ (y[1] = x[1] /\ y[2] <= x[2])

\* A region owns an address by its bounds alone, if no earlier region does.
Owner(a) ==
    {n \in DOMAIN regions :
        /\ a - regions[n].base \in 0..(regions[n].size - 1)
        /\ \A k \in 1..(n - 1) : a - regions[k].base \notin 0..(regions[k].size - 1)}

\* At every point of the load, failed ones included, each cell of each array of the
\* host holds the last byte that the lines read so far have for an address of a
\* writable region on that array, and is Blank otherwise: nothing is written
\* twice in the wrong order, beside its region or to a region that another hides.
LoadedExactly ==
    \A b \in Arrays, a \in 0..(Space - 1) :
        LET written == BytesFor(a)
            reaches == \E n \in Owner(a) : regions[n].array = b /\ regions[n].writes
        IN  loader.arrays[b][a] =
                IF written # {} /\ reaches
                THEN file[Latest(written)[1]].data[Latest(written)[2]]
                ELSE Blank

\* Where the CPU reads what was loaded.
Backed(a) == \E n \in Owner(a) : regions[n].reads /\ regions[n].writes

Fits == \A n \in 1..Len(file) :
    file[n].kind = "data" => BaseAt(n) + file[n].addr + file[n].count <= Space

SameVerdict == loader.state = image.state /\ loader.base = image.base

\* The loaders accept and reject the same files, at the same line, and what one
\* loads is what the other returns, if the addresses of the file fit code memory:
\* beyond its end hex_load_file wraps around, and the image grows.
LoadersAgree ==
    /\ SameVerdict
    /\ (image.state # "failed" /\ Fits) =>
           \A a \in 0..(Space - 1) :
               Backed(a) =>
                   MapRead(regions, loader.arrays, a) =
                       IF a < image.size THEN image.bytes[a] ELSE Blank
=============================================================================
