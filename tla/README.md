# micro_kernel in TLA+

A verification project for the micro kernel in `src/`: TLA+ modules translated
from its C sources, TLC runs that check them on small instances, and TLAPS
proofs of the main results for every instance. Paths below are relative to the
repository (`src/kernel/thread.c` is the kernel's scheduler).

## 1. The system

One processor, no preemption: plugins run with interrupts off (`eflags = 0` in
`load_plugin`), so a plugin runs until it makes a system call, and the kernel runs
each system call to its end. What interleaves are the plugins' system calls; what
makes the kernel hard is that control moves between stacks (`swtch`) and that the
same few words (`ksCurThread`, `oldThread`, `ksSchedulerAction`, `tcb->context`)
are written by different plugins' calls in an order no test fixes.

| part | source | state | operations | correct when |
|---|---|---|---|---|
| ready queue | `object/tcb.c` | `ksReadyQueues`, `tcbSchedNext/Prev`, `tcbQueued` | enqueue (front), append, dequeue | it is a doubly linked list of exactly the queued TCBs |
| scheduler, context switch | `kernel/thread.c`, `kernel/swtch.S`, loop of `kernel/main.c` | `ksCurThread`, `oldThread`, `ksSchedulerAction`, `tcb->context`, loaded page tables | `schedule`, `choose_thread`, `switch_to_thread`, `sched`, `possible_switch_to`, `reschedule_required` | `exit()` finds the loop; nobody resumes on a foreign stack; every queued thread is dispatched |
| endpoint IPC | `object/endpoint.c`, `object/tcb.c` | `state`, queue of the endpoint, `tsType`, `tcbEPNext/Prev` | `send_ipc`, `receive_ipc`, `tcb_ep_append/dequeue` | no sender is lost; a woken thread becomes ready |
| message transfer | `kernel/thread.c`, `object/tcb.c` | IPC buffers, registers | `do_ipc_transfer`, `copyMRs`, `transfer_caps` | the receiver gets what was sent |
| system calls | `kernel/trap.c`, `syscall.c`, `sysproc.c`, `proc.c` | trap frame | `trap`, `syscall`, `send`, `receive`, `exit`, `brk` | one handler per number |
| physical memory | `kernel/memblock.c` | arrays `memory` and `reserved`, `current_limit` | `memblock_init`, `add`, `reserve`, `alloc`, `free` | arrays sorted and merged; blocks disjoint; fails only when full |
| virtual memory | `kernel/vm.c` | four-level page tables | `page_walk`, `map_pages`, `alloc_uvm`, `copy_uvm`, `vm_init` | no page mapped twice; user pages exclusive |
| plugin loader | `kernel/loadplugin.c` | sector position, ELF buffer | `load_plugin` | each plugin gets its own program |
| capabilities | `kernel/cspace.c`, `object/cnode.c`, `objecttype.c`, `untyped.c` | slots as bit fields, free index of untyped memory | `lookup_slot`, `insert_new_cap`, `create_object`, `invoke_untyped_retype` | a capability leads to the object it was made for |
| notifications | `object/notification.c` | state, queue, bound TCB | `send_signal`, `receive_signal`, `complete_signal` | no signal is lost |
| file system plugin | `plugin_rust/src/file_system/` | log, buffer cache, inodes, open files | `begin_trans`, `commit_trans`, `recover`, `bread`, `iget`, ... | transactions are atomic across a crash; reference counts balance |
| IDE driver plugin | `plugin_rust/src/ide_driver/` | request queue | `iderw`, interrupt handler | each request is completed once |
| allocator plugin | `plugin_rust/src/memory_allocator/` | free list | `alloc`, `free` | blocks disjoint |
| boot, ACPI, APIC, console, strings | `kernel/` | hardware | straight-line setup, output | - |

Interactions: `main()` initialises `memblock`, allocates TCBs, page tables and the
endpoint from it, appends the plugin TCBs to the ready queue and loops over
`schedule()`. `switch_to_thread` enters a plugin; `trap` → `syscall` → `send`,
`receive` work on the endpoint; `receive_ipc` wakes a sender through
`possible_switch_to`, which writes the ready queue or `ksSchedulerAction`;
`exit()` is `sched()`, a `swtch` into `oldThread->context`. The file system, IDE
and allocator plugins are user programs and use only the system calls.

Hard behaviours: wake-ups of threads that already exited; contexts overwritten by
the loop; a blocked sender that keeps running; two senders before a receive; a
receive before any send; memory maps in any order and blocks given back in any
order; a full region array; a message fetched from its sender long after the send;
capability pointers that name no slot; addresses that lose bits on the way through a capability; a crash in the middle of a
commit, of a recovery or between two transactions of one write; a disk, a log or an
inode cache that is full; a file unlinked while open; requests that meet an interrupt;
program headers in an unusual order. Each is a hazard in `PROJECT.json` with the
properties aimed at it, or with the reason why there is none.

## 2. Modules

| module | role |
|---|---|
| `TcbQueue` | both linked lists as operators on records; what a list represents |
| `Kernel` | boot, the loop, context switch, system calls; properties; fairness |
| `Scheduler` | abstract scheduler: a sequence of ready threads |
| `KernelRefinement` | the refinement mapping from `Kernel` to `Scheduler` |
| `KernelProofs` | the proofs about `Kernel`: ready queue, invariants, refinement, messages |
| `CapLayout` | capabilities as the words they are stored in, and how each reader reads them |
| `IpcTransfer` | messages: IPC buffers, tags and capability transfer, composed with `Kernel` |
| `MCIpcTransfer` | tags and symmetry for TLC |
| `CSpace`, `MCCSpace`, `CSpaceProofs` | capability tables of boot, look-up, objects made from untyped memory; the proofs |
| `MemBlock` | the physical memory allocator; properties |
| `FrameAllocator` | abstract allocator on sets of addresses |
| `MCMemBlock`, `MemBlockProofs` | memory maps for TLC; the proofs |
| `UserMemory` | the plugin loader and the page tables it builds, over frames |
| `MCUserMemory`, `UserMemoryProofs` | program files and memory for TLC; the proofs about the loader |
| `Log` | the file system's write-ahead log, with crashes |
| `AtomicDisk` | abstract disk: a transaction happens at once or not at all |
| `LogProofs` | the proofs about the log |
| `Inode`, `MCInode`, `InodeProofs` | one file: block map, bitmap, reads and writes in transactions, with crashes; the proofs |
| `FileTable`, `MCFileTable`, `FileTableProofs` | open files, inode cache, directories and paths: who holds what; the proofs |
| `IdeDriver`, `IdeDriverProofs` | the disk driver's requests, queue and interrupt handler; the proofs |

Definitions with a suffix that a comment calls a mutant (`..._Unlinked`) are
plausible bugs; no specification uses them. Each is put in place of the original
to see that a property notices.

### Kernel

State. `rq` is the ready queue with the TCB fields only its operations write;
`epq` the endpoint queue with its TCB fields; the other variables have the names of
the code. `context[t]` is where `swtch` resumes TCB `t`: nowhere (zeroed), in
`forkret`, in `sched`, or in the loop of `main()` after its `swtch` call, together
with the stack it resumes on. `mode` says what executes: boot, the loop, a plugin,
`panic()`, or `wild` when the kernel followed a pointer it should not have.

Actions. Boot: `ipc_test(t)` appends a TCB, `load_plugin(t)` gives it a kernel
stack and first context, `enter_loop` makes the loop a thread. An iteration of the
loop is `schedule_idle` (empty queue), `schedule_user` (the head resumes in user
mode) or `schedule_return` (the head's saved context is the loop itself, so `swtch`
returns at once). `sys_exit`, `sys_send`, `sys_receive`, `sys_receive_none`, `sys_wild`
and `sys_panic` are the system calls of the running plugin. The programs name the
endpoint by capability pointer 0; with any other pointer, which `lookup_slot` adds to the
address of the table unchecked, send and receive use whatever lies there as an endpoint
(`sys_wild`). Each is atomic because
interrupts are off. A fault on a wild pointer re-enters `trap()`, which ignores it,
so `wild` and `panic` only stutter (`halted`).

Two pieces of undefined behaviour are resolved as the build resolves them. 
`tcb_ep_append` has no `return`: at `-O0` (the Makefile's `OPT`) the caller finds
the TCB in RAX and the old `queue.end` in RDX, so the endpoint's head becomes the new
sender and its end never changes from NULL. A store through that NULL end lands in
page 0 of the running plugin (plugins are linked at address 0), which is not kernel
state. A receive with no sender uses NULL as a TCB: what it then reads is program
text, so the model stops in `wild`.

Not in this model: message contents and capability transfer (they are in
`IpcTransfer`, which composes this module), the `EPState_Recv` branch
of `send_ipc` (nothing assigns that state), the notification branch of `receive_ipc`
(no TCB is ever bound), `print`, `test` and a successful `brk` (no state of this model
changes).

### IpcTransfer

Adds to the state of `Kernel` the words of each plugin's IPC buffer, the tag in `rsi`
of its latest trap frame, its message info register, the extra capabilities named by
the last message, and a history of what was sent. Every action is an action of
`Kernel` with its effect on these; `user_store` is the plugin writing its buffer and
`other_call` a system call that changes only the frame. So the theorems about `Kernel`
hold here too (`KernelStep` in the proofs).

`send()` copies nothing: tag and words are fetched by the receive. What a look-up
returns as status is never assigned, so it is a free choice; `copyMRs` has no `return`
and the build leaves its counter, the number of words, in the register. The capability
pointers a message names, and the receive root, may be any numbers: 0 is the endpoint, the
other slots are empty, and everything else leads to a word of `StrayWords`. A badge is
passed only when a 48-bit pointer equals a 64-bit address, which it never does. A receive
slot is found only if the root leads to a word that reads as a table where the universal
struct has its type, which none that boot made does; `cte_insert` then writes to an
address taken from that word, and the model ends in `wild` (`transfer_wild`). That the
uninitialised result of deriving a capability may also stop the loop is the case of no slot.
`create_object` makes every endpoint capability with `capCanGrant` set; `send_ipc`
takes the flag as a parameter, and the run looks at both values.

### CapLayout and CSpace

A word is a function from bit numbers to bits. Each kind of capability has its own
struct, and the kernel reads some through the struct of another; `CapLayout` has one
reader for each place in the code, with its mask. `CSpace` is boot (`ipc_test`) one
allocation or insertion at a time, then `invoke_untyped_retype` with any arguments. No
system call leads to it in this build: it is modelled as the interface it is. The
type of a table capability is never set, so it is a parameter. The derivation list of
`insert_new_cap` is commented out in the source. The time slice that `create_object`
clears in a new TCB is left out: nothing reads it. A retype to TCBs makes endpoint
capabilities, as the code does (section 5). `made` is the history of the objects whose
slot was not written since.

### MemBlock

State: the two arrays as sequences of regions with `total_size`, `current_limit`,
the firmware entries not yet read, and `held`, the blocks callers got and did not
free. Addresses are bytes; a page has `PGSIZE` of them. A loop over an array is a
recursive function of the round, and what one round does has a name of its own: `join`
for `memblock_merge_regions`, `pass` for `memblock_add_regions`, `remove` for
`memblock_remove_range`. The two passes of `memblock_add_regions` (count, then insert) are
one loop that inserts, since the count is only used to see whether there is anything to
insert; the most entries the array had during the call is kept, because that is what
overruns `regions[128]`. `__next_mem_range_rev` and its only caller are a walk over the
pair of indices the code packs in a 64-bit word; each step of it leaves a region or a gap
behind, so it has at most as many steps as there are of both. `memblock_isolate_range`
and the removal loop are one loop, which keeps what lies outside of the range.
`memblock_free` has no caller but `memblock_test()`; it is modelled as that function uses
it, on a block that was handed out.

### UserMemory

`load_plugin()` is straight-line code with loops; nothing interleaves with it. What
varies is its input, and that is what the run enumerates: which files are on the
disk, in which order, how long they are and what their program headers say. The
steps of the loop are the values of `phase`; the phases in `Stopped` are the ways it
ends early: memory runs out (`alloc_fault`, a panic), `map_pages` meets a mapped page
(`remap`, a panic), `copy_uvm` an unmapped one (`wild`), the scan leaves the disk
(`disk_end`) or the buffer (`overrun`).

`pte[p]` maps the pages of plugin `p` to frames, 0 where `PTE_P` is clear;
`tables[p]` says which page tables exist, because `page_walk_return_pte` allocates
the missing ones between the pages it maps. `memblock_alloc` gives the highest free
run of frames: blocks start on a page and no page is shared by two blocks, which
is `PagesExclusive` of `MemBlock`. It also clears what it hands out
(`memblock_alloc_base`), so that the callers clear only 512 bytes of a new table does
not matter. `disk` is what `tools/movePlugin.py` writes: all files, twice, so that
the end of the last one is found.

### Log

`home`, `logBlock` and `diskHead` are on disk and survive `crash`; `logHeader`,
`busy`, the position in the code (`pc`, `tail`) do not. A step contains at most one
disk write, the last thing in it that a crash can see. `clear_log` is the common end
of `recover_from_log` and `commit_trans`; `commit_trans` is the part up to
`write_head`, the commit point. The checks of `log_write`, for a full header or log area
and for a write outside of a transaction, are empty blocks with the comment `panic`: the
code goes on. A write outside of a transaction becomes part of the next one that commits;
a block for which there is no room is written behind the log, and the model ends there
(`wild`). `written` is the history of the sectors written since the last commit.

The source is a draft that no compiler has seen: the count of the header is `n`,
`nlog` and `lh.n` in turn, and `log.logHeader = 0` stands for clearing the count. The
model takes them as one. It takes the buffer cache as `bio.rs` describes it in
comments, not as it is coded (section 7).

### Inode and FileTable

Both read the same draft, in the same way: a bare last expression in a block is the value
returned, and a comment does nothing. So `// panic` does not stop anything and
`// unlock ip and put` gives nothing back. The one exception is `// lock`, without which
no inode would ever be read from disk: it is modelled as external. The plugin is one
thread, so what interleaves are calls, transactions and crashes.

`Inode` follows one file from creation to removal. `disk` is what the log made durable
(the promise of `AtomicDisk`, which `Log` is proved to keep), `cache` what the buffer
cache shows, `ip` the inode in memory. `file_write` is a loop of transactions: `write_begin`
enters one, `write_inode` writes one block, `write_end` commits; `crash` may come between
any two. Data is counted in words as long as a block address, so that a block of `BSIZE`
words is also an indirect block of `BSIZE` addresses. `file` is the history of what
was committed. A transaction of the largest size logs exactly `LOGSIZE` blocks in the
worst case, which needs an offset inside the file, so the log area must be larger than
`LOGSIZE` (`AreaFits`); its size stands in the super block and is compared with nothing.
A removal logs the inode and the bitmap
blocks of the file, and fits the log if these are few (`RemovalFits`): with the code's
`LOGSIZE` of 10 and 4096 blocks to a bitmap block, on disks of up to 36864 blocks. Nothing
in the code checks it. A transaction that does not fit ends in `wild`, and a full disk in
`full`: `block_alloc` then returns no value. `write_end` reads the malformed line
`file.rs:103` as the assignment of what was written, and `file.rs:104` as the
comparison it is. `create`, `open` and `unlink` are system calls the repository does not contain and are marked external.

`FileTable` leaves the blocks out and keeps who holds which inode: the table of files, the
in-memory inodes, the current directory and a walk along a path, one name at a time.
A walk takes a reference to every directory and gives none back, because its puts are
comments; `lost` counts them for each entry. When every entry has a reference, `inode_get`
goes on with a null pointer (`null`, where the model ends).
`name_x` reads `dirEntry.type`, which is taken as the type of the directory inode it
stands in. Opening, unlinking and duplicating are the callers' side, marked external.

### IdeDriver

`buffer_read` and `buffer_write` are the users of the driver; each contains `ide_rw` up to
its waiting loop, and `ide_rw_wait` is a round of that loop. `disk_done` is the disk: it
executes the command, or fails to, and raises the interrupt, which `ide_intr` handles. The
port writes of `ide_start` are one command. `served` is a history of the interrupts
handled. The interrupt is what the driver is written for; this kernel does not deliver it
(section 5), so no fairness is assumed and all properties are about safety. A request for
a disk that is absent goes through the empty `panic` block and is sent to it.

## 3. Runs

| run | instance | shows |
|---|---|---|
| `kernel_safety` | 4 plugins, all may send and receive, fairness | all invariants and action properties of `Kernel`, that it implements `Scheduler`, and that a queued thread gets the processor unless senders go on receiving for ever |
| `kernel_lost_sender` | violation | a second sender pushes the first out of the endpoint |
| `kernel_idle_receive` | violation | receiving without a sender does not block |
| `memblock_safety` | 3 memory maps (RAM ending inside a page and a hole; unsorted, overlapping, touching and empty entries; no RAM), sizes 0, 1, 4, 6 with 4-byte pages | arrays canonical, nothing leaks or overlaps, the search is top-down and complete |
| `memblock_overflow` | violation, 3 entries for the 128 | single-byte blocks overrun the array |
| `user_memory` | every disk with 0 to 3 of 5 files (inside page 0; ending on a page; overlapping with a hole; descending with an empty header; as long as the buffer), 2 plugins, 28 frames with two holes, 3-entry page tables | frames are exclusive, each plugin gets its program and IPC buffer, loading ends and stops early only for the reasons named |
| `log_safety` | 3 sectors, 2 contents, 2 log blocks, any disk at the start, writes outside of transactions, unboundedly many crashes | transactions are atomic and durable; the header has exactly what was written; recovery ends |
| `ipc_transfer` | 3 plugins, `a` and `b` send, `b` and `c` receive; a buffer of one word, an empty tag and one that says too much and names a capability; both values of `capCanGrant`; pointers to slot 0, to an empty slot and behind the table | a message arrives as it was sent, and once |
| `cspace` | the lowest and the highest 7 pages of the 512 MB, 3 slots, all kinds of objects, retypes into any slots of either table | both plugins share one endpoint until a retype replaces it; endpoints made later are reached |
| `inode` | blocks of 2 words, 1 direct address, 7 blocks with a bitmap block each, a log of 6 and an area of 7; a disk with room and one that fills up; any buffer of up to 3 words; unboundedly many crashes | no transaction outgrows the log; the disk is consistent at every moment and holds the file |
| `file_table` | 3 descriptors (symmetric), 2 files, an inode cache of 2 or 3 entries, `/x`, `/x/y` and all kinds of paths | every reference is counted once, but for those a walk forgets; files are removed when unused and not before |
| `ide` | 3 buffers, 2 contents, a second disk that may be absent, failing reads and writes | the disk works for the first of the queue, a served buffer equals its block, the first never waits for a command nobody gave |

Bounds. The code boots two plugins; four give the ready queue a middle, so that
dequeueing, waking and re-dispatching meet every position, and allow two sleepers
besides a sender and a receiver. No counter is bounded: the state space of `Kernel` is
finite. In `MemBlock` memory is about 25 bytes in 6 pages, enough for regions with
neighbours on both sides, exact fits, and exhaustion; `MaxRegions` is the code's 128
in the passing run (never reached) and 3 in the overflow run, because reaching 128
takes as many allocations. In `IpcTransfer` one plugin both sends and receives, so that
it can meet its own message; its stray words are one that reads as a table, one that looks
like the endpoint's capability and one with all bits set. Seven pages are what boot takes; the two sets of them have all
the address bits that differ. `MaxMade` bounds the objects before a retype: the last
one can meet, overwrite or miss the others, and the run says `CHECK_DEADLOCK FALSE` because
it ends there. In `Inode` the largest file has one direct and two indirect blocks, the
longest buffer needs two transactions, and `LOGSIZE` is the smallest with which a write
is possible at all, so that the limit is tight, and so is that of the log area (`nlog`).
In `FileTable` `MaxLink` bounds the links of a file and `MaxLost` the references to an
entry that walks may have forgotten when the next one starts: two of them are one more than
it takes to keep an entry, or a file without links, for ever. In `UserMemory` a plugin has up to 7 pages, so that it
needs up to three page tables, and some disks exhaust the frames; `Pages` bounds
the size of a program. The log has fewer blocks than there are sectors, so that it
fills up, and two of them are enough for a crash between two copies. Its state space
is finite without a bound on crashes.

Properties. `ReadyQueueWellFormed` compares links, ends and flags with a sequence.
`UserModeReady` says what `exit()` and `possible_switch_to` rely on but do not
check. `ExitIsFinal` says who can come back from `exit()`. `IdleMeansAllRan`: an
empty queue means that every plugin was started. `EndpointHoldsSender` ties endpoint
state, queue and thread state. `WakeupNotLost` and `LeavesQueueToRun` are about
steps: a woken thread is queued, and only dispatch takes a thread off the queue (the
latter follows from the refinement and is proved, not run).
`QueuedIsDispatched` is the liveness property; its exception, senders that receive for
ever, is real: wake-ups go to the front of the queue. `RegionsCanonical`,
`ReservedIsHeld` and `PagesExclusive` are the allocator's; the last one is what
`alloc_uvm` needs, which reserves bytes and maps pages. `FramesExclusive` is the
isolation of the plugins from each other and from the kernel; `LoaderNeverFaults` that
no order of segments makes the loader map a page twice or write through a missing
one; `OwnProgram` and `ScanStops` relate the scan to the disk; `IpcBufferMapped` is
what message transfer relies on. `ImplementsAtomicDisk` is crash atomicity
(`AtomicDisk` has no transaction boundaries of its own: that nothing is committed in the
middle of one is `HeadClearWhileRunning`);
`OneEntryPerSector` and `HeadClearWhileRunning` are the two facts it hangs on;
`LogHoldsTransaction` says when the log is overrun, since `log_write` does not prevent it;
`RecoveryEnds` says that what was durable when a crash hit gets home, unless crashes
never stop.

`MessageIntact` is about the time between a send and its receive, `ReceivedOnce` about
the endpoint and the history of sends. A message whose sender wrote its buffer or made
another call before it was received is exempt, because that does change it. `SameEndpoint`
follows a pointer from boot through three readers, `EndpointsReached` an endpoint that was
made later, over further retypes. `NoOverrun` is the arithmetic of
`max` in `file_write`; `DiskConsistent` and `DiskHoldsFile` are about what a crash leaves;
`ReadsBack` about every offset and length. `INodeRefs` and `FileRefs` compare counts
with holders on every path, also the failing ones, and find the forgotten references to
be those of `name_x` and no others; `CacheCoherent` and
`RemovedWhenUnused` are what the counts are for. `DiskServesFirst` connects queue and
disk, which share nothing but their order; `ServedInSync` is what the callers rely on;
`QueueMoves` that the two places which start the disk miss no request at the head.
The type invariants of `Kernel`, `Log` and `IdeDriver` are proved and not run, that of
`IpcTransfer` is proved and run; those of
`MemBlock`, `UserMemory`, `Inode` and `FileTable` are conjuncts of `RegionsCanonical`,
`FramesExclusive`, `DiskConsistent` and `INodeRefs`.

Fairness. `WF` of the boot steps, of the two dispatching iterations and of
`sys_exit`: the loop of `main()` is `for (;;)`, boot is straight-line code, and both
programs in `plugin/` end in `exit()`. Nothing is assumed about which system calls a
plugin makes. Plugins that send can starve the rest by receiving for ever: that is how
the code behaves, and `QueuedIsDispatched` names it as the only exception. `UserMemory`
and `Log` assume only that a function that was called runs on: weak fairness of the
loader's steps, and of recovery and installation; nothing is assumed about when
transactions begin or commit. `IdeDriver` assumes none: nothing in the repository
guarantees that its interrupt handler is ever called.

## 4. Proofs

`KernelProofs` first proves, for each list operation, which sequence the result
represents (`Represents(q, n, s)`: the links, ends and flags of `q` spell the
sequence `s` of length `n`), with pigeonhole lemmas on the number of queued TCBs.

Then it proves the invariants of `Kernel` for every finite set of plugins
and every choice of senders and receivers, from `PluginAssumption` and
`KernelAssumption` (the set is finite; NULL, the boot TCB and the scheduler action
are not plugins). None of the invariants is inductive alone. `KernelInv` is their
conjunction with

- `ControlInv`: which threads are current in which mode, and the contexts of boot;
- `FreshIsQueued`: a loaded plugin that never ran is in the ready queue.

`UserModeReady` needs `ExitIsFinal` (a dispatched head resumes where it should),
which needs `ControlInv`; `sys_receive` keeps the queue well formed only because
`UserModeReady` makes `possible_switch_to` queue the sender, and `EndpointHoldsSender`
makes the sender a TCB. There is one step per action and one per conjunct that it can
disturb. `WakeupCorrect` and `LeaveCorrect` prove the action properties from
the same invariant.

Next comes the refinement, `Spec => ImplementsScheduler`. The mapping chooses
the sequence the list represents, so the first lemmas show that there is only one
(two sequences that follow the same links agree up to the least index at which they
would differ), then that append, enqueue and dequeue of the head are `Append`,
`<<t>> \o s` and `Tail`. The step simulation needs one more invariant, `RanInv`: a
thread that ever sent, and the one the loop left last, has run; otherwise waking it
would make a thread that never ran ready twice.

`LogProofs` proves the invariants of `Log` and `Spec => ImplementsAtomicDisk` for any
set of sectors, any contents and any sizes of header and log area (`LogAssumption`:
they are numbers and the area has room for the header). The mapping reads the disk
through the header (`Overlay`): what is durable is the home blocks with those of the
header on disk laid over them, and the transaction sees the same through the header in
memory. The inductive invariant `LogInv` adds `InstallInv`: while blocks are copied
home the two headers are equal and everything before `tail` is home. It is needed to
see that clearing the header changes nothing durable. Distinct entries are needed
to see that copying does not, and that writing a block is a write to one sector.
`LogHolds` needs them a third time: a header without repetitions is as long as the set of
sectors written is large (`HeadCount`), so an overrun means that many sectors.

The last part of `KernelProofs` proves `ReceivedOnce` and `MessageIntact` for every finite set of
plugins, every choice of senders and receivers, every buffer length and every set of
tags, capability pointers and stray words (`IpcAssumption`: the buffer is not empty, a tag
fits its fields, and a word has 64 bits). Since each step
is a step of `Kernel` or changes nothing there, the invariants of `Kernel` carry
over; they say who runs and that the endpoint has one sender. `PendingInv` is the fact that
makes it work: as long as the sender did not touch its message, its frame and buffer
still say what they said at the send. It holds only while the kernel runs, because a call
that stops it leaves another tag in the frame. The rest is that copying the first words
of a buffer copies the sequence they form.

`IpcTypeOK` needs one more invariant, `BoundsInv`: what a receiver is told is no longer
than a buffer and names no capability, and the kernel keeps no more extra capabilities than
a message can name. The loop of `transfer_caps` never gets past the first capability,
whatever word it reads: a pointer of 48 bits with zeros above never equals an address with
ones there.

`CSpaceProofs` proves `SameEndpoint` and `EndpointsReached` for every seven pages of the
512 MB, every number of slots that fit a page and all retypes (`CSpaceAssumption`). The
inductive invariant `CSpaceInv` says which pages were given out for what and that a table
and a TCB object are never the same page (`PageInv`), what boot wrote where (`SlotInv`),
and which capability belongs to each object made (`MadeInv`). The rest is about words:
`TableOf` and `EndpointOf` say that an address survives the shifts and masks between
writer and reader, `FirstSlot` that only one slot lies at the address of a table, for
which `p2v` has to be injective: 29 bits determine a number, shown one bit at a time
because the provers know powers of two only for given exponents. The theorems have no
hypothesis on the retypes: `insert_new_cap` does not look whether a slot is in use, so
`SameEndpoint` exempts a table whose slot 0 was written.

`UserMemoryProofs` proves all safety properties of the loader for every size of pages,
tables and buffer, every set of free frames, every number of plugins and all files whose
segments fit the address space (`UserMemoryAssumption`). `MemoryInv` is about memory.
`PageInv` says that exactly the first `PagesOf(size)` pages of an address space have
a frame, and while it grows exactly those that `map_pages` has come to; so the next page
is never mapped already, and the segment that is copied lies in mapped pages.
`ReservedInv` says that the frames taken and not yet mapped are nobody else's.
`ScanInv` is about the disk: the search stands at the start of the file
that comes next. Where files start is a recursive function of their number
(`first_sector`); that it exists and increases is proved by induction on a set of numbers,
from the least number outside of it (`Induction`).

`FileTableProofs` proves the four invariants of `FileTable` for every tree of directories
and every size of the tables (`FileTableAssumption`: a directory other than the root has
one link, a file at least one). `CacheOK` is an invariant of caches rather than of states,
so that it can be followed through an operation that gets, locks and puts several
inodes: each entry in use shows its own inode, no inode has two, and what is removed is
what has neither links nor a holder. There is one lemma for each function on the cache,
and `Holders` counts the descriptors' files, the current directory, the walk and the
references that walks forgot.
`LinkInv` ties the link counts to the directories; it is needed to see that a
name that is found belongs to an inode that was not removed. Two facts turn up in the
proof that no single property states: an entry with a holder and no links is always
valid, because otherwise `inode_put` would not remove its inode; and where `inode_get` went
on with a null pointer (`null`) nothing is said.

`IdeDriverProofs` proves the invariants of the driver for every set of buffers and
contents and any choice of disks (`IdeAssumption`). `IdeInv` adds that the queue is
never longer than one (`QueueIsShort`), that its first waits and was not served
(`CallerInv`), and that the command on its way agrees with the buffer it was made from
(`DiskInv`). The last is why a write that arrives cannot change what is written: the
buffer belongs to a caller that waits. `QueueMoves` is a conjunct of it.

`InodeProofs` proves the invariants of `Inode` for every size of blocks, of the address
table, of the disk and of the log with which a write is possible at all
(`InodeAssumption`); `NoOverrun` has the hypotheses `RemovalFits` and `AreaFits`, which the
code does not check. The inductive invariant
`InodeInv` is about three views of the file. `DiskInv` is the disk at every moment, also
after a crash: `SoundMap` says that the addresses of the file are distinct blocks in use,
`Shows` that their words are `file`. `OpenInv` says where cache and inode in memory are equal
to the disk. `WriteInv` is what holds inside a transaction: cache and inode in memory show
the file with the words written so far (`Written`), the address table is the old one until
the write is past the end of the file, and what is logged is counted. The count is the
subtle part: each block written and its place in the bitmap, except that a first block
entered in the middle is not new (`DataLog`), the indirect block and its place in the
bitmap once (`IndirectLog`), and the inode; `max` in `file_write` is what makes this fit.
`GotBlock` says what `get_nthdiskBlock_for_inode` does; each of its cases (a direct or an
indirect address, old or new, the indirect block old or new) has a lemma of its own, and
others say that storing into the block found writes those words of the file and no others.

`MemBlockProofs` proves the three invariants of the allocator and `Spec =>
ImplementsFrames` for every page size, every firmware map and all sizes of requests
(`MemBlockAssumption`: entries end below the largest address). The proofs are about loops. That
the recursive functions exist is proved once (`RunExists`), by induction on a set of
numbers; then each loop has an invariant over its rounds. `Joined`, `Passing` and `Kept` say
which bytes the array built so far covers, that it is sorted and with gaps where it has
to be, and, for the last two, that `total_size` counts these bytes. `Walking` is the search:
no region and gap that were left behind have room for the block together (`Passed`).
Completeness needs a fact about the arrays: a run of free bytes lies in one region of
`memory` and one gap of `reserved`, because no two regions touch. `Good` (sorted, at least
one byte apart, counted) is the shape that each operation keeps, and `MemInv` adds that
`reserved` lies in `memory` and covers exactly the blocks held, which are disjoint and start on
pages. For the refinement the block found is the highest that fits, and 0 is
returned only when none does. That the arrays have room, `RegionsFit`, is false; the model
goes on with the arrays as they would be (`wild`), and the theorems hold there too.

Only model-checked are the liveness properties `QueuedIsDispatched`, `LoadEnds` and
`RecoveryEnds`: liveness under fairness is outside the prover's reach.

## 5. Findings

Each has a run that shows it:

- A second sender is never found again (`object/tcb.c:96`): `kernel_lost_sender`.
- A receive without sender uses NULL as a TCB (`object/endpoint.c:104`):
  `kernel_idle_receive`.
- The region arrays have no bound check (`kernel/memblock.c:104`): `memblock_overflow`.

Other places where a comment and the code beneath it disagree, modelled as coded:

- `send()` marks its caller BlockedOnSend and returns to it; the call that would switch
  away is commented out (`object/endpoint.c:32`).
- The tag of a message is that of the sender's latest system call when it is received,
  not that of the send (`kernel/thread.c:104`).
- Named capabilities are looked up when the endpoint capability does not grant and
  dropped when it does (`kernel/thread.c:107`). The badge of a capability to the endpoint
  of the message is never passed, because 48 bits are compared with 64
  (`kernel/thread.c:45`).
- `lookup_slot` adds any capability pointer to the address of the table
  (`kernel/cspace.c:57`), so a pointer behind the table makes other memory a capability; a
  stray receive root lets `cte_insert` write to an address found there
  (`object/cnode.c:61`). It adds bytes, while slots are filled by number
  (`object/objecttype.c:123`); only slot 0 agrees.
- The TCB case of `create_object` falls through to that of endpoints
  (`object/objecttype.c:58`): a retype to TCBs yields endpoint capabilities.
- Boot passes `create_object` the shifted address of a table, a retype the plain one
  (`kernel/main.c:74`, `object/objecttype.c:88`), and look-up shifts back: a table made by
  a retype is looked for at another address.
- Pointers to untyped memory and to notifications are used without restoring their upper
  bits (`object/untyped.c:14`, `object/notification.c:90`); only endpoints are read with
  a mask. `EndpointsReached` is about those.
- A retype sets the free index of untyped memory to 0 (`object/untyped.c:30`).
- The checks of `log_write` have empty bodies (`file_system/log.rs:101`, `105`): a
  transaction that is too large is written behind the log, and a write outside of a
  transaction goes to the log too. Nothing compares the size of the log area with
  `LOGSIZE`, which `file_write` relies on.
- `name_x` gives back none of the references it takes (`file_system/fs.rs:409`, `420`,
  `423` are comments): the entries are never recycled, and a file without links that a walk
  ran into is never removed. When the cache is full, `inode_get` writes through a null
  pointer (`fs.rs:97`).
- On a full disk `block_alloc` ends without a value (`file_system/fs.rs:43`).
- `file_write` compares the offset where it should move it, so the parts of a long write
  fall on each other (`file_system/file.rs:104`). `DiskHoldsFile` is about the words as
  they are written.
- `skipelem` reports the end of a path as 9, where `name_x` waits for 0
  (`file_system/fs.rs:374`): such a walk ends in `wild`.
- A request that finds the driver's queue occupied is linked through the buffer cache's
  list, and nothing finds it again (`ide_driver/ide.rs:113`); and no request returns,
  because the interrupt handler sets no flag (`ide.rs:124`). A failed write is not noticed,
  and a request for an absent disk is waited for for ever (`ide.rs:103`).
- No interrupt reaches the driver: `trap()` ignores every vector but the system call
  (`kernel/trap.c:7`), and plugins run with interrupts off (`kernel/loadplugin.c:176`).

## 6. Plan

What is left, most important first:

1. An abstract file above `Inode`, and `Inode` composed with `Log` instead of with its
   promise.
2. Notifications and the receive queue of endpoints, once something calls them.

## 7. Not modelled

- Notifications (`object/notification.c`): no system call and no code that is reached
  calls them, and no call of theirs gets past its first step: the pointers they follow are
  48 bits wide and their upper bits are not restored, or the head of an empty queue.
- The buffer cache (`file_system/bio.rs`): its initialisation takes the head of the list
  for one more buffer and leaves the list empty (line 19), and the search of `buffer_get`
  is a loop without an exit (line 36), so nothing behind it is reachable. `Log`, `Inode` and
  `IdeDriver` use what its comments promise.
- The allocator plugin (`memory_allocator/`): its initialisation asks the kernel for 32768
  bytes and builds links for as many pages (line 24), and goes on outside of its memory.
- Boot loader, ACPI, APIC, `vm_init` and `seg_init`: straight-line hardware setup that
  runs once. Two hazards of it are listed without a property: the kernel image is
  not reserved in the allocator, and the kernel's map ends at 512 MB.
- Console and string functions; the buddy allocator (not built); the user-side libraries
  (stubs; the two test programs are behaviours of the senders and receivers of `Kernel`).
