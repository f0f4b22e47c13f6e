-------------------------- MODULE MCProcessMemory --------------------------
(* Three regions over pages of 2 bytes: a file of which the process changed    *)
(* pages, or memory; memory that follows it and may be hidden; after a hole,    *)
(* memory that it may be impossible to read.                                   *)
EXTENDS ProcessMemory

PageSize == 2

Memory(start, length, listed, fetchable) ==
    [start |-> start, length |-> length, listed |-> listed, fetchable |-> fetchable,
     file |-> FALSE, offset |-> 0, file_size |-> 0]
File(start, length, offset, size) ==
    [start |-> start, length |-> length, listed |-> TRUE, fetchable |-> TRUE,
     file |-> TRUE, offset |-> offset, file_size |-> size]

\* Addresses 4..9, 10..13 and 16..19.
Layouts ==
    {<<first, Memory(10, 4, second, TRUE), Memory(16, 4, TRUE, third)>> :
        first \in {Memory(4, 6, TRUE, TRUE), File(4, 6, 0, 6), File(4, 6, 2, 5)},
        second \in BOOLEAN, third \in BOOLEAN}

\* What was fetched can be fetched again, except in some of the scans.
MCProcesses ==
    {p \in [os : {"linux", "other"}, page_size : {PageSize}, regions : Layouts,
            private : {{}, {3}, {2, 4}}, chunk : {0, 2, 3, 4}, max_fetched : {3, 16},
            can_refetch : BOOLEAN] :
        p.can_refetch \/ (p.max_fetched = 16 /\ p.private = {})}

MCReads ==
    [kind : {"integer"}, start : {7, 10, 17}, end : {8, 12, 18}]
    \cup [kind : {"range"}, start : {2, 5, 12}, end : {9, 14, 19}]
MCRanges == {r \in MCReads : r.start < r.end}
============================================================================
