----------------------------- MODULE MCHexLoader ------------------------------
(* Values of the constants of HexLoader for TLC. *)
EXTENDS HexLoader

Line(kind, addr, count, data) == [kind |-> kind, addr |-> addr, count |-> count, data |-> data]

\* Data at both ends of memory, over the end, cut short, empty; a second segment.
SomeLines ==
    {Line("data", 0, 2, <<1, 2>>), Line("data", 1, 2, <<3, 1>>), Line("data", 3, 1, <<2>>),
     Line("data", 4, 2, <<1, 3>>), Line("data", 1, 2, <<2>>), Line("data", 5, 2, <<2, 3>>),
     Line("data", 5, 0, <<>>),
     Line("base", 1, 0, <<>>), Line("base", 0, 0, <<>>), Line("eof", 0, 0, <<>>),
     Line("other", 0, 0, <<>>), Line("garbage", 0, 0, <<>>)}

Region(base, size, reads, writes, array) ==
    [base |-> base, size |-> size, reads |-> reads, writes |-> writes, array |-> array]

\* One flat region; an empty region, then two that overlap, the second up to the end;
\* a window without a write callback over RAM; nothing.
SomeMaps ==
    {<<Region(0, 6, TRUE, TRUE, "main")>>,
     <<Region(1, 0, TRUE, TRUE, "other"), Region(0, 3, TRUE, TRUE, "other"),
       Region(2, 4, TRUE, TRUE, "main")>>,
     <<Region(1, 2, TRUE, FALSE, "other"), Region(0, 6, TRUE, TRUE, "main")>>,
     <<>>}
=============================================================================
