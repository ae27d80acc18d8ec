--------------------------- MODULE FrameAllocator ---------------------------
(***************************************************************************)
(* What the boot memory allocator promises, in terms of sets of addresses  *)
(* instead of sorted region arrays: a block is taken as high as possible   *)
(* in free RAM, starts on a page and never covers page 0, and allocation   *)
(* fails only when no such place exists.                                   *)
(***************************************************************************)
EXTENDS Integers, FiniteSetsExt

CONSTANTS
    PGSIZE,     \* bytes of a page
    Sizes       \* sizes in bytes that are asked for

VARIABLES
    ram,        \* the addresses of usable memory
    held,       \* the blocks callers hold
    stopped     \* an allocation failed

frameVars == <<ram, held, stopped>>

Block(base, size) == [base |-> base, size |-> size]

Bytes(b) == b.base .. (b.base + b.size - 1)

Free == ram \ UNION {Bytes(b) : b \in held}

\* The places for size bytes.
Fits(size) == {c \in Free : /\ c >= PGSIZE
                            /\ c % PGSIZE = 0
                            /\ Bytes(Block(c, size)) \subseteq Free}

Init == ram = {} /\ held = {} /\ ~stopped

\* Firmware reports more memory, before anything is allocated.
Grow == /\ held = {} /\ ~stopped
        /\ ram \subseteq ram'
        /\ UNCHANGED <<held, stopped>>

Alloc(size) == /\ ~stopped
               /\ size > 0
               /\ Fits(size) # {}
               /\ held' = held \cup {Block(Max(Fits(size)), size)}
               /\ UNCHANGED <<ram, stopped>>

\* Not even one byte, or not the size asked for, can be placed.
Fail(size) == /\ ~stopped
              /\ Fits(IF size = 0 THEN 1 ELSE size) = {}
              /\ stopped' = TRUE
              /\ UNCHANGED <<ram, held>>

Release(b) == /\ ~stopped
              /\ held' = held \ {b}
              /\ UNCHANGED <<ram, stopped>>

Next == \/ Grow
        \/ \E size \in Sizes : Alloc(size) \/ Fail(size)
        \/ \E b \in held : Release(b)

Spec == Init /\ [][Next]_frameVars
=============================================================================
