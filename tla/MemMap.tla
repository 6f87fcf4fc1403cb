-------------------------------- MODULE MemMap --------------------------------
(***************************************************************************)
(* The memory map of lib/mem_map.c: a table of regions, each with the      *)
(* callbacks it has and the array of the host that they work on.           *)
(***************************************************************************)
EXTENDS Naturals, Sequences

CONSTANTS
    Space,  \* the number of addresses: 2^16
    Blank   \* what a read returns where nothing answers: 0xFF

\* A region is [base, size, reads, writes, array]; size is a uint32_t, so that a
\* region may reach the end of the address space.
EndTruncated(r) == (r.base + r.size) % Space
End(r) == r.base + r.size

Covers(r, a) == r.size # 0 /\ r.base <= a /\ a < End(r)

None == 0

\* The first region that covers a, or None.
find_region(regions, a) ==
    IF \E n \in DOMAIN regions : Covers(regions[n], a)
    THEN CHOOSE n \in DOMAIN regions :
            /\ Covers(regions[n], a)
            /\ \A k \in DOMAIN regions : k < n => ~Covers(regions[k], a)
    ELSE None

\* Reads and writes through the map; arrays are what the host has behind it.
MapRead(regions, arrays, a) ==
    LET n == find_region(regions, a)
    IN  IF n # None /\ regions[n].reads THEN arrays[regions[n].array][a] ELSE Blank

MapWrite(regions, arrays, a, v) ==
    LET n == find_region(regions, a)
    IN  IF n # None /\ regions[n].writes
        THEN [arrays EXCEPT ![regions[n].array][a] = v]
        ELSE arrays
=============================================================================
