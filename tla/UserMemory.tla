----------------------------- MODULE UserMemory -----------------------------
(***************************************************************************)
(* How load_plugin() builds the address spaces of the plugins:             *)
(* src/kernel/loadplugin.c over the page tables of src/kernel/vm.c, with   *)
(* page frames from memblock_alloc (module MemBlock; here the highest free *)
(* run of frames, since whole pages are never shared by two blocks).       *)
(*                                                                         *)
(* A page table is a function from pages to frames, 0 for an entry without *)
(* PTE_P.  Tables appear with the first page of each NPTE pages; the upper *)
(* levels never need a second table below 1 GB and are counted in LEVELS.  *)
(***************************************************************************)
EXTENDS Integers, SequencesExt

CONSTANTS
    PGSIZE,     \* bytes of a page
    NPTE,       \* entries of a page table (512)
    LEVELS,     \* tables of a fresh address space (4)
    BUFFER,     \* sectors of the loader's buffer (128)
    BUFPAGES,   \* pages of the loader's buffer (16)
    IPCPage,    \* page of the IPC buffer (2)
    Frames,     \* page frames that are free when loading starts
    pluginNum,  \* plugins the kernel loads (2)
    Pages,      \* bound on the pages of a plugin
    Builds      \* sets of program files: sequences of [sectors, segs]

ASSUME UserMemoryAssumption ==
    /\ PGSIZE \in Nat \ {0}
    /\ NPTE \in Nat \ {0}
    /\ LEVELS \in Nat
    /\ BUFFER \in Nat /\ BUFPAGES \in Nat
    /\ IPCPage = 2
    /\ Frames \subseteq Nat \ {0}
    /\ pluginNum \in Nat \ {0}
    /\ Pages \in Nat /\ Pages > 2
    /\ \A files \in Builds :
           /\ files \in Seq([sectors : Nat \ {0}, segs : Seq([vaddr : Nat, memsz : Nat])])
           /\ \A i \in DOMAIN files : \A k \in DOMAIN files[i].segs :
                  files[i].segs[k].vaddr + files[i].segs[k].memsz <= (Pages - 2) * PGSIZE

Plugin == 1 .. pluginNum

VARIABLES
    files,          \* the program files
    disk,           \* the plugins' disk
    free,           \* frames memblock has not handed out
    kernel,         \* frames the kernel keeps: buffer, stacks, page tables
    pte,            \* for each plugin its page table entries
    tables,         \* for each plugin the page tables that exist
    phase,          \* what load_plugin() does next, or why it stopped
    i,              \* plugin being loaded
    pluginSector,   \* where the search for a header goes on
    program,        \* for each plugin the file it was loaded from, 0 before
    todo,           \* tables setup_user_memory_pages() still allocates
    seg,            \* program headers done
    size,           \* bytes of the address space so far
    va,             \* next page alloc_uvm() maps
    mem,            \* frame it maps there
    tcbIPCBuffer    \* for each plugin the frame of its IPC buffer, 0 before

vars == <<files, disk, free, kernel, pte, tables, phase, i, pluginSector, program,
          todo, seg, size, va, mem, tcbIPCBuffer>>

world == <<files, disk>>
memory == <<free, kernel>>
spaces == <<pte, tables>>
scan == <<pluginSector, program>>
uvm == <<size, va, mem>>

PagesOf(bytes) == (bytes + PGSIZE - 1) \div PGSIZE

\* The places for a block of k frames.
Bases(k) == {f \in free : f .. (f + k - 1) \subseteq free}

\* The block memblock_alloc() finds, as a set with at most one base.
memblock_alloc(k) == {f \in Bases(k) : \A g \in Bases(k) : g <= f}

\* The sectors where n files start that are written one after the other, beginning
\* anew with the first when all are written, and the sector behind them.
first_sector(fs, n) ==
    LET at[k \in 0 .. n] == IF k = 0 THEN 1 ELSE at[k - 1] + fs[((k - 1) % Len(fs)) + 1].sectors
    IN  at

\* The disk these files make.  A sector is the file whose ELF header it holds, or 0.
image(fs, n) ==
    LET at == first_sector(fs, n)
    IN  [s \in 1 .. (at[n] - 1) |->
            IF \E k \in 0 .. (n - 1) : at[k] = s
            THEN ((CHOOSE k \in 0 .. (n - 1) : at[k] = s) % Len(fs)) + 1
            ELSE 0]

\* Mutant: the files are written once.
movePlugin_Once(fs) == image(fs, Len(fs))

\* The disk tools/movePlugin.py makes: the files one after the other, twice.
movePlugin(fs) == image(fs, 2 * Len(fs))

\* The first header at sector s or behind it, and 0 without one.
Header(s) == LET hs == {h \in DOMAIN disk : h >= s /\ disk[h] # 0}
             IN  IF hs = {} THEN 0 ELSE Min(hs)

\* The program headers of the plugin being loaded.
segs == files[program[i]].segs

Init == /\ files \in Builds
        /\ disk = movePlugin(files)
        /\ free = Frames
        /\ kernel = {}
        /\ pte = [p \in Plugin |-> [pg \in 0 .. (Pages - 1) |-> 0]]
        /\ tables = [p \in Plugin |-> {}]
        /\ phase = "buffer"
        /\ i = 1
        /\ pluginSector = 1
        /\ program = [p \in Plugin |-> 0]
        /\ todo = 0 /\ seg = 0 /\ size = 0 /\ va = 0 /\ mem = 0
        /\ tcbIPCBuffer = [p \in Plugin |-> 0]

----------------------------------------------------------------------------
(* Finding the program *)

\* A block of k frames for the kernel.
memblock_alloc_kernel(k) ==
    \E b \in memblock_alloc(k) : /\ free' = free \ (b .. (b + k - 1))
                                 /\ kernel' = kernel \cup (b .. (b + k - 1))

\* The loop over the plugins.
next_plugin(n) == IF n <= pluginNum THEN "alloc_proc" ELSE "run"

\* The buffer for program files.
load_plugin_init == /\ phase = "buffer"
                    /\ memblock_alloc_kernel(BUFPAGES)
                    /\ phase' = next_plugin(1)
                    /\ UNCHANGED <<world, spaces, i, scan, todo, seg, uvm, tcbIPCBuffer>>

\* The kernel stack.
alloc_proc == /\ phase = "alloc_proc"
              /\ memblock_alloc_kernel(1)
              /\ phase' = "read_seg"
              /\ UNCHANGED <<world, spaces, i, scan, todo, seg, uvm, tcbIPCBuffer>>

\* Mutant: the search goes on behind the next header.
read_elf_Skip ==
    /\ phase = "read_seg"
    /\ LET h == Header(pluginSector)
           next == Header(h + 1)
       IN  IF h = 0 \/ next = 0
           THEN phase' = "disk_end" /\ UNCHANGED <<pluginSector, program, todo>>
           ELSE IF next - h >= BUFFER
           THEN phase' = "overrun" /\ UNCHANGED <<pluginSector, program, todo>>
           ELSE /\ pluginSector' = next + 1
                /\ program' = [program EXCEPT ![i] = disk[h]]
                /\ phase' = "table"
                /\ todo' = LEVELS
    /\ UNCHANGED <<world, memory, spaces, i, seg, uvm, tcbIPCBuffer>>

\* Read sectors until one is an ELF header, then into the buffer until the next
\* one is, which is read into the buffer too.  Without a next header reading
\* goes on behind the end of the disk.
read_elf ==
    /\ phase = "read_seg"
    /\ LET h == Header(pluginSector)
           next == Header(h + 1)
       IN  IF h = 0 \/ next = 0
           THEN phase' = "disk_end" /\ UNCHANGED <<pluginSector, program, todo>>
           ELSE IF next - h >= BUFFER
           THEN phase' = "overrun" /\ UNCHANGED <<pluginSector, program, todo>>
           ELSE /\ pluginSector' = next
                /\ program' = [program EXCEPT ![i] = disk[h]]
                /\ phase' = "table"
                /\ todo' = LEVELS
    /\ UNCHANGED <<world, memory, spaces, i, seg, uvm, tcbIPCBuffer>>

----------------------------------------------------------------------------
(* Page tables *)

\* setup_user_memory_pages(): a table of each level.
setup_table == /\ phase = "table" /\ todo > 0
               /\ memblock_alloc_kernel(1)
               /\ todo' = todo - 1
               /\ UNCHANGED <<world, spaces, phase, i, scan, seg, uvm, tcbIPCBuffer>>

\* ... and page 0.
setup_user_memory_pages ==
    /\ phase = "table" /\ todo = 0
    /\ \E b \in memblock_alloc(1) : /\ free' = free \ {b}
                                   /\ pte' = [pte EXCEPT ![i][0] = b]
    /\ tables' = [tables EXCEPT ![i] = {0}]
    /\ size' = PGSIZE
    /\ seg' = 0
    /\ phase' = "alloc_uvm"
    /\ UNCHANGED <<world, kernel, i, scan, todo, va, mem, tcbIPCBuffer>>

\* The arguments of the next alloc_uvm(): up to the end of the next segment,
\* and after the last one two pages of stack.
oldSize == IF seg < Len(segs) THEN size ELSE PagesOf(size) * PGSIZE

\* Mutant: one page of stack.
newSize_SmallStack == IF seg < Len(segs) THEN segs[seg + 1].vaddr + segs[seg + 1].memsz
                      ELSE oldSize + PGSIZE

newSize == IF seg < Len(segs) THEN segs[seg + 1].vaddr + segs[seg + 1].memsz
           ELSE oldSize + 2 * PGSIZE

\* Mutant: start with the page that holds the old end.
first_page_RoundDown == oldSize \div PGSIZE

\* The first page alloc_uvm() maps.
first_page == PagesOf(oldSize)

\* Mutant: pages are not reserved beyond the first.
uvm_frames_One == 1

\* The frames it asks for.
uvm_frames == PagesOf(newSize - oldSize)

\* The segment lies in pages that exist.
alloc_uvm_inside == /\ phase = "alloc_uvm"
                    /\ newSize < oldSize
                    /\ phase' = "copy_uvm"
                    /\ UNCHANGED <<world, memory, spaces, i, scan, todo, seg, uvm, tcbIPCBuffer>>

\* Take memory for the growth.
alloc_uvm == /\ phase = "alloc_uvm"
             /\ newSize >= oldSize
             /\ \E b \in memblock_alloc(uvm_frames) :
                    /\ free' = free \ (b .. (b + uvm_frames - 1))
                    /\ mem' = b
             /\ va' = first_page
             /\ size' = newSize
             /\ phase' = "map_pages"
             /\ UNCHANGED <<world, kernel, spaces, i, scan, todo, seg, tcbIPCBuffer>>

\* Make the table of the page.
page_walk_return_pte ==
    /\ phase = "map_pages"
    /\ va * PGSIZE < size
    /\ va \div NPTE \notin tables[i]
    /\ memblock_alloc_kernel(1)
    /\ tables' = [tables EXCEPT ![i] = @ \cup {va \div NPTE}]
    /\ UNCHANGED <<world, pte, phase, i, scan, todo, seg, uvm, tcbIPCBuffer>>

\* Map one page, which must not be mapped.
map_pages == /\ phase = "map_pages"
             /\ va * PGSIZE < size
             /\ va \div NPTE \in tables[i]
             /\ IF pte[i][va] # 0
                THEN phase' = "remap" /\ UNCHANGED <<pte, va, mem>>
                ELSE /\ pte' = [pte EXCEPT ![i][va] = mem]
                     /\ va' = va + 1
                     /\ mem' = mem + 1
                     /\ UNCHANGED phase
             /\ UNCHANGED <<world, memory, tables, i, scan, todo, seg, size, tcbIPCBuffer>>

\* The loop of alloc_uvm() ends.
map_pages_done == /\ phase = "map_pages"
                  /\ va * PGSIZE >= size
                  /\ phase' = "copy_uvm"
                  /\ UNCHANGED <<world, memory, spaces, i, scan, todo, seg, uvm, tcbIPCBuffer>>

----------------------------------------------------------------------------
(* Filling the pages *)

\* The pages copy_uvm() writes: the segment's, or the top of the stack.
copy_pages ==
    IF seg < Len(segs)
    THEN {pg \in 0 .. (Pages - 1) :
             /\ segs[seg + 1].memsz > 0
             /\ pg * PGSIZE < segs[seg + 1].vaddr + segs[seg + 1].memsz
             /\ (pg + 1) * PGSIZE > segs[seg + 1].vaddr}
    ELSE {size \div PGSIZE - 1}

\* Mutant: the loop over the program headers does not advance.
next_header_Same == seg

\* The next round of the loop over the program headers.
next_header == seg + 1

\* The frame behind a page, 0 without one: nothing is allocated.
page_walk(pg) == pte[i][pg]

page_walk_for_others(pg) == pte[i][pg]

\* After the stack is filled the TCB gets its IPC buffer, and the next plugin
\* follows.
finish_plugin == /\ tcbIPCBuffer' = [tcbIPCBuffer EXCEPT ![i] = page_walk_for_others(IPCPage)]
                 /\ i' = i + 1
                 /\ phase' = next_plugin(i + 1)
                 /\ UNCHANGED seg

\* copy_uvm() writes to whatever frame page_walk() finds, also without PTE_P.
copy_uvm == /\ phase = "copy_uvm"
            /\ IF \E pg \in copy_pages : page_walk(pg) = 0
               THEN phase' = "wild" /\ UNCHANGED <<seg, i, tcbIPCBuffer>>
               ELSE \/ /\ seg < Len(segs)
                       /\ seg' = next_header
                       /\ phase' = "alloc_uvm"
                       /\ UNCHANGED <<i, tcbIPCBuffer>>
                    \/ seg = Len(segs) /\ finish_plugin
            /\ UNCHANGED <<world, memory, spaces, scan, todo, uvm>>

----------------------------------------------------------------------------

\* The frames the next step asks memblock for, -1 if it asks for none.
Wanted == CASE phase = "buffer" -> BUFPAGES
            [] phase \in {"alloc_proc", "table"} -> 1
            [] phase = "alloc_uvm" /\ newSize >= oldSize -> uvm_frames
            [] phase = "map_pages" /\ va * PGSIZE < size /\ va \div NPTE \notin tables[i] -> 1
            [] OTHER -> -1

\* memblock_alloc_base() panics.
alloc_fault == /\ Wanted >= 0
               /\ memblock_alloc(Wanted) = {}
               /\ phase' = "alloc_fault"
               /\ UNCHANGED <<world, memory, spaces, i, scan, todo, seg, uvm, tcbIPCBuffer>>

Stopped == {"alloc_fault", "remap", "wild", "overrun", "disk_end"}

\* Loading has ended, one way or the other.
ended == phase \in Stopped \cup {"run"} /\ UNCHANGED vars

Load == \/ load_plugin_init \/ alloc_proc \/ read_elf
        \/ setup_table \/ setup_user_memory_pages
        \/ alloc_uvm_inside \/ alloc_uvm \/ page_walk_return_pte \/ map_pages \/ map_pages_done
        \/ copy_uvm \/ alloc_fault

Next == Load \/ ended

Spec == Init /\ [][Next]_vars /\ WF_vars(Load)

----------------------------------------------------------------------------
(* Properties *)

TypeOK == /\ files \in Builds
          /\ free \subseteq Frames /\ kernel \subseteq Frames
          /\ pte \in [Plugin -> [0 .. (Pages - 1) -> Frames \cup {0}]]
          /\ tables \in [Plugin -> SUBSET (0 .. (Pages - 1))]
          /\ phase \in Stopped \cup {"buffer", "alloc_proc", "read_seg", "table", "alloc_uvm",
                                     "map_pages", "copy_uvm", "run"}
          /\ i \in 1 .. (pluginNum + 1)
          /\ phase \notin {"buffer", "run"} => i \in Plugin
          /\ pluginSector \in Nat
          /\ program \in [Plugin -> Nat]
          /\ todo \in 0 .. LEVELS
          /\ seg \in Nat
          /\ size \in 0 .. (Pages * PGSIZE)
          /\ va \in 0 .. Pages
          /\ mem \in Nat
          /\ tcbIPCBuffer \in [Plugin -> Frames \cup {0}]

\* Isolation: a frame mapped in a plugin is mapped there once, in no other
\* plugin, and is neither free nor a page table, a kernel stack or the buffer.
\* alloc_uvm() reserves bytes and maps pages, so the two counts must agree.
FramesExclusive ==
    /\ TypeOK
    /\ kernel \cap free = {}
    /\ \A p \in Plugin, pg \in 0 .. (Pages - 1) :
           pte[p][pg] # 0 =>
               /\ pte[p][pg] \notin free \cup kernel
               /\ \A q \in Plugin, qg \in 0 .. (Pages - 1) :
                      pte[q][qg] = pte[p][pg] => q = p /\ qg = pg

\* Whatever the order, overlap and alignment of the segments, map_pages() never
\* meets a mapped page (panic "remap") and copy_uvm() never an unmapped one.
LoaderNeverFaults == phase \notin {"remap", "wild"}

\* Plugin p runs the p-th file of the directory, starting over when there are
\* fewer files than plugins: the scan for headers neither skips nor repeats.
OwnProgram == \A p \in Plugin : program[p] # 0 => program[p] = ((p - 1) % Len(files)) + 1

\* The scan runs off the disk only if both copies of the files do not suffice,
\* and over the end of the buffer only if a file leaves no room for the header
\* behind it.
ScanStops ==
    /\ phase = "disk_end" => 2 * Len(files) <= pluginNum
    /\ phase = "overrun" => \E k \in DOMAIN files : files[k].sectors >= BUFFER

\* A loaded plugin has an IPC buffer, and it is the frame behind the address
\* at which the plugins use it, even if the program fits in one page.
IpcBufferMapped == \A p \in Plugin : p < i => /\ tcbIPCBuffer[p] # 0
                                            /\ tcbIPCBuffer[p] = pte[p][IPCPage]

\* Loading comes to an end.
LoadEnds == <>(phase \in Stopped \cup {"run"})
=============================================================================
