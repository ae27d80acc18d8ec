------------------------------ MODULE MemBlock ------------------------------
(***************************************************************************)
(* The physical memory allocator of the kernel, src/kernel/memblock.c: two *)
(* sorted arrays of regions, the RAM the firmware reported and the part of *)
(* it that is reserved, and a top-down search for a free block between     *)
(* them.                                                                   *)
(*                                                                         *)
(* An array is the sequence of its first cnt entries.  As in the code it   *)
(* is never empty: an array without regions holds one of size 0.           *)
(***************************************************************************)
EXTENDS Integers, Sequences, FiniteSetsExt

CONSTANTS
    PGSIZE,         \* bytes of a page, the alignment of every allocation
    ULLONG_MAX,     \* above every address
    MaxRegions,     \* entries of a regions array (128)
    E820Maps,       \* the memory maps firmware may leave at ARDSOFFSET
    AllocSizes      \* sizes asked for: pages by the kernel, any by brk()

ASSUME MemBlockAssumption ==
    /\ PGSIZE \in Nat \ {0}
    /\ MaxRegions \in Nat \ {0} /\ ULLONG_MAX \in Nat
    /\ AllocSizes \subseteq Nat
    /\ \A map \in E820Maps :
          /\ map \in Seq([addr : Nat, len : Nat, type : Nat])
          /\ \A i \in DOMAIN map : map[i].addr + map[i].len < ULLONG_MAX

VARIABLES
    memory,         \* memblock.memory
    reserved,       \* memblock.reserved
    current_limit,  \* memblock.current_limit
    ards,           \* the entries memblock_init() has not looked at
    phase,          \* init, run, panic, or wild after a write behind an array
    held            \* the nonempty blocks callers got and did not free

vars == <<memory, reserved, current_limit, ards, phase, held>>

Rgn(base, size) == [base |-> base, size |-> size]

REnd(r) == r.base + r.size

NoRegions == <<Rgn(0, 0)>>

EmptyType == [regions |-> NoRegions, total_size |-> 0]

----------------------------------------------------------------------------
(* Adding a range to an array *)

\* Mutant: adjacent regions stay apart.
memblock_merge_regions_Never(rs) == rs

\* A region joins the one before it when they touch.
join(out, r) ==
    IF out # <<>> /\ REnd(out[Len(out)]) = r.base
    THEN [out EXCEPT ![Len(out)].size = @ + r.size]
    ELSE Append(out, r)

memblock_merge_regions(rs) ==
    LET out[n \in 0..Len(rs)] == IF n = 0 THEN <<>> ELSE join(out[n - 1], rs[n])
    IN  out[Len(rs)]

\* Insert the part of the new range up to an address that no region covered.
memblock_insert_region(s, upto) ==
    IF s.base < upto
    THEN [s EXCEPT !.out = Append(@, Rgn(s.base, upto - s.base)),
                   !.total = @ + (upto - s.base)]
    ELSE s

\* The loop of memblock_add_regions: pass over the regions in order and insert
\* what they leave uncovered of [base, end).
pass(s, r, end) ==
    IF r.base >= end
    THEN [memblock_insert_region(s, end) EXCEPT !.out = Append(@, r), !.base = end]
    ELSE IF REnd(r) <= s.base
    THEN [s EXCEPT !.out = Append(@, r)]
    ELSE [memblock_insert_region(s, r.base) EXCEPT !.out = Append(@, r),
                                                   !.base = Min({REnd(r), end})]

insert_uncovered(type, base, end) ==
    LET s[n \in 0..Len(type.regions)] ==
            IF n = 0 THEN [base |-> base, out |-> <<>>, total |-> type.total_size]
            ELSE pass(s[n - 1], type.regions[n], end)
    IN  memblock_insert_region(s[Len(type.regions)], end)

\* The array after the call and the most entries it had during the call.
memblock_add_regions(type, base, size) ==
    LET s == insert_uncovered(type, base, base + size)
    IN  IF size = 0
        THEN [type |-> type, peak |-> Len(type.regions)]
        ELSE IF Head(type.regions).size = 0
        THEN [type |-> [regions |-> [type.regions EXCEPT ![1] = Rgn(base, size)],
                        total_size |-> size],
              peak |-> Len(type.regions)]
        ELSE IF s.out = type.regions
        THEN [type |-> type, peak |-> Len(type.regions)]
        ELSE [type |-> [regions |-> memblock_merge_regions(s.out), total_size |-> s.total],
              peak |-> Len(s.out)]

----------------------------------------------------------------------------
(* Finding a free block *)

round_down(x, align) == x - (x % align)

clamp(val, lo, hi) == Min({Max({val, lo}), hi})

\* Mutant: the candidate is not aligned.
candidate_Unaligned(from, to, size, align) ==
    IF to < size \/ to - size < from THEN 0 ELSE to - size

\* Mutant: a range that fits exactly is refused.
candidate_Strict(from, to, size, align) ==
    LET cand == round_down(to - size, align)
    IN  IF to < size \/ cand <= from THEN 0 ELSE cand

\* The highest aligned place for size bytes in the free range [from, to), or 0.
candidate(from, to, size, align) ==
    LET cand == round_down(to - size, align)
    IN  IF to < size \/ cand < from THEN 0 ELSE cand

\* The gap between reserved regions below entry b + 1 of the array.
r_start(b) == IF b > 0 THEN REnd(reserved.regions[b]) ELSE 0
r_end(b) == IF b < Len(reserved.regions) THEN reserved.regions[b + 1].base ELSE ULLONG_MAX

\* A step of the walk over memory regions (a) and gaps (b) from high to low: where the
\* two meet, it looks for room.
__next_mem_range_rev(w, start, end, size, align) ==
    LET m == memory.regions[w.a]
        cand == candidate(clamp(Max({m.base, r_start(w.b)}), start, end),
                          clamp(Min({REnd(m), r_end(w.b)}), start, end), size, align)
    IN  IF w.cand # 0 \/ w.a = 0 \/ w.b < 0 THEN w
        ELSE IF r_end(w.b) <= m.base THEN [w EXCEPT !.a = @ - 1]
        ELSE IF REnd(m) <= r_start(w.b) THEN [w EXCEPT !.b = @ - 1]
        ELSE IF cand # 0 THEN [w EXCEPT !.cand = cand]
        ELSE IF m.base >= r_start(w.b) THEN [w EXCEPT !.a = @ - 1]
        ELSE [w EXCEPT !.b = @ - 1]

\* What the walk finds first.  0: nothing was found.
__memblock_find_range_top_down(start, end, size, align) ==
    LET A == Len(memory.regions)
        B == Len(reserved.regions)
        w[n \in 0 .. (A + B + 1)] ==
            IF n = 0 THEN [a |-> A, b |-> B, cand |-> 0]
            ELSE __next_mem_range_rev(w[n - 1], start, end, size, align)
    IN  w[A + B + 1].cand

\* The range every caller asks for: from page 1 to current_limit.
memblock_find_in_range(size, align) ==
    __memblock_find_range_top_down(PGSIZE, Max({PGSIZE, current_limit}), size, align)

----------------------------------------------------------------------------
(* Removing a range from an array *)

\* The parts of region r outside [base, end), and the bytes inside.
outside(r, base, end) ==
    (IF r.base < base THEN <<Rgn(r.base, Min({REnd(r), base}) - r.base)>> ELSE <<>>)
    \o (IF REnd(r) > end THEN <<Rgn(Max({r.base, end}), REnd(r) - Max({r.base, end}))>>
        ELSE <<>>)

inside(r, base, end) ==
    LET from == Max({r.base, base})
        to == Min({REnd(r), end})
    IN  IF from < to THEN to - from ELSE 0

\* Mutant: the part of a region behind the removed range goes with it.
remove_LosesEnd(s, r, base, end) ==
    LET kept == IF r.base < end /\ REnd(r) > base THEN Max({r.base, base}) ELSE REnd(r)
    IN  [out |-> IF kept > r.base THEN Append(s.out, Rgn(r.base, kept - r.base)) ELSE s.out,
         total |-> s.total - (REnd(r) - kept),
         peak |-> s.peak + 1]

\* memblock_isolate_range splits a region at base and end; the piece between is
\* then removed, with memblock_remove_region.  Each piece needs an entry.
remove(s, r, base, end) ==
    [out |-> s.out \o outside(r, base, end),
     total |-> s.total - inside(r, base, end),
     peak |-> s.peak + Len(outside(r, base, end)) + (IF inside(r, base, end) > 0 THEN 1 ELSE 0)]

memblock_remove_range(type, base, size) ==
    LET s[n \in 0..Len(type.regions)] ==
            IF n = 0 THEN [out |-> <<>>, total |-> type.total_size, peak |-> 0]
            ELSE remove(s[n - 1], type.regions[n], base, base + size)
        rest == s[Len(type.regions)]
    IN  IF size = 0
        THEN [type |-> type, peak |-> Len(type.regions)]
        ELSE [type |-> [regions |-> IF rest.out = <<>> THEN NoRegions ELSE rest.out,
                        total_size |-> rest.total],
              peak |-> rest.peak]

----------------------------------------------------------------------------
(* The operations *)

Init ==
    /\ memory = EmptyType
    /\ reserved = EmptyType
    /\ current_limit = 0
    /\ ards \in E820Maps
    /\ phase = "init"
    /\ held = {}

\* The state after a call that needed peak entries of an array.
PhaseAfter(peak) == IF peak > MaxRegions THEN "wild" ELSE phase

\* One entry of the firmware's map: usable memory (type 1) is added, types 2 to 4
\* are passed over.
memblock_init_entry ==
    /\ phase = "init"
    /\ ards # <<>>
    /\ Head(ards).type \in 1..4
    /\ IF Head(ards).type = 1
       THEN LET e == Head(ards)
                r == memblock_add_regions(memory, e.addr, e.len)
            IN  /\ memory' = r.type
                /\ current_limit' = Max({current_limit, e.addr + e.len})
                /\ phase' = PhaseAfter(r.peak)
       ELSE UNCHANGED <<memory, current_limit, phase>>
    /\ ards' = Tail(ards)
    /\ UNCHANGED <<reserved, held>>

\* The map ends, with its last entry or with an entry of another type.
memblock_init_done ==
    /\ phase = "init"
    /\ ards # <<>> => Head(ards).type \notin 1..4
    /\ phase' = "run"
    /\ UNCHANGED <<memory, reserved, current_limit, ards, held>>

\* memblock_alloc and memblock_alloc_kernel, down to memblock_alloc_range.  A
\* block of size 0 is an address only: memblock_reserve returns at once.
memblock_alloc(size) ==
    /\ phase = "run"
    /\ LET found == memblock_find_in_range(size, PGSIZE)
           r == memblock_add_regions(reserved, found, size)
       IN  /\ found # 0
           /\ reserved' = r.type
           /\ phase' = PhaseAfter(r.peak)
           /\ held' = IF size = 0 THEN held ELSE held \cup {Rgn(found, size)}
    /\ UNCHANGED <<memory, current_limit, ards>>

\* memblock_alloc_base panics when nothing was found.
memblock_alloc_panic(size) ==
    /\ phase = "run"
    /\ memblock_find_in_range(size, PGSIZE) = 0
    /\ phase' = "panic"
    /\ UNCHANGED <<memory, reserved, current_limit, ards, held>>

\* A caller gives back a block it got, as memblock_test() does.
memblock_free(b) ==
    /\ phase = "run"
    /\ b \in held
    /\ LET r == memblock_remove_range(reserved, b.base, b.size)
       IN  /\ reserved' = r.type
           /\ phase' = PhaseAfter(r.peak)
    /\ held' = held \ {b}
    /\ UNCHANGED <<memory, current_limit, ards>>

\* panic() spins.
halted ==
    /\ phase \in {"panic", "wild"}
    /\ UNCHANGED vars

Next ==
    \/ memblock_init_entry
    \/ memblock_init_done
    \/ \E size \in AllocSizes : memblock_alloc(size)
    \/ \E size \in AllocSizes : memblock_alloc_panic(size)
    \/ \E b \in held : memblock_free(b)
    \/ halted

Spec == Init /\ [][Next]_vars

----------------------------------------------------------------------------
(* Properties *)

Types == [regions : Seq([base : Nat, size : Nat]), total_size : Nat]

\* Every variable keeps its type; in particular the u64 size arithmetic of the
\* code never goes below zero.
TypeOK ==
    /\ memory \in Types
    /\ reserved \in Types
    /\ current_limit \in Nat
    /\ phase \in {"init", "run", "panic", "wild"}
    /\ \A b \in held : b \in [base : Nat, size : Nat \ {0}]

Bytes(r) == r.base .. (REnd(r) - 1)

Covered(type) == UNION {Bytes(type.regions[i]) : i \in DOMAIN type.regions}

Canonical(type) ==
    /\ \/ type.regions = NoRegions
       \/ \A i \in DOMAIN type.regions :
              /\ type.regions[i].size > 0
              /\ i > 1 => REnd(type.regions[i - 1]) < type.regions[i].base
    /\ type.total_size = Cardinality(Covered(type))

\* Both arrays are sorted, their regions are not empty and neither overlap nor
\* touch, and total_size is the number of their bytes: what the search and the next insertion
\* rely on ("The entry is sorted in default"), whatever order the firmware
\* reports memory in and blocks are taken and given back.
RegionsCanonical ==
    /\ TypeOK
    /\ phase # "wild" => Canonical(memory) /\ Canonical(reserved)

\* Nothing is reserved twice or leaked: the reserved bytes are exactly those of
\* the blocks callers hold, and they are usable memory.
ReservedIsHeld ==
    phase # "wild" => /\ Covered(reserved) = UNION {Bytes(b) : b \in held}
                      /\ Covered(reserved) \subseteq Covered(memory)

Pages(r) == {a \div PGSIZE : a \in Bytes(r)}

\* alloc_uvm() maps whole pages of a block whose size is no multiple of a page,
\* and page 0 stays free for NULL: two blocks never share a page, and no block
\* has page 0.
PagesExclusive ==
    /\ \A b \in held : 0 \notin Pages(b)
    /\ \A b, c \in held : b # c => Pages(b) \cap Pages(c) = {}

Frames == INSTANCE FrameAllocator WITH
    Sizes   <- AllocSizes,
    ram     <- Covered(memory),
    stopped <- (phase = "panic")

\* The walk over two sorted arrays takes the highest place there is, and panics
\* only when there is none.
ImplementsFrames == Frames!Spec

\* No call ever needs more entries than regions[128] has: the check for it in
\* memblock_add_regions is commented out.
RegionsFit == phase # "wild"
=============================================================================
