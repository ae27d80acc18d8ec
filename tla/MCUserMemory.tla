---------------------------- MODULE MCUserMemory ----------------------------
(* Program files and memory for model checking UserMemory: pages of 4 bytes. *)
EXTENDS UserMemory

Seg(vaddr, memsz) == [vaddr |-> vaddr, memsz |-> memsz]

File(sectors, headers) == [sectors |-> sectors, segs |-> headers]

MCFiles == {
    File(1, <<Seg(0, 3)>>),                         \* inside page 0
    File(2, <<Seg(0, 8)>>),                         \* ends on a page
    File(3, <<Seg(0, 6), Seg(2, 5), Seg(12, 5)>>),  \* overlapping, then a hole
    File(2, <<Seg(9, 4), Seg(1, 0), Seg(0, 13)>>),  \* descending, an empty one
    File(4, <<Seg(0, 1)>>)}                         \* as long as the buffer

MCBuilds == UNION {[1..n -> MCFiles] : n \in 0..3}

\* A hole in memory that blocks have to avoid.
MCFrames == (1 .. 30) \ {17, 26}
=============================================================================
