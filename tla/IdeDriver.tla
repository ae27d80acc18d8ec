----------------------------- MODULE IdeDriver -----------------------------
(***************************************************************************)
(* The IDE driver plugin, src/plugin_rust/src/ide_driver/ide.rs: requests, *)
(* the queue, the interrupt handler, and the disk as they use it.  The     *)
(* callers are the users of the buffer cache, each with a buffer of its    *)
(* own and each buffer for another block.                                  *)
(*                                                                         *)
(* Nothing sets B_VALID or clears B_DIRTY, and nothing sets qnext: the end *)
(* of the queue is looked for through qnext and next, and a request is     *)
(* appended to next, the link of the buffer cache's list.                  *)
(*                                                                         *)
(* An empty block with the comment "panic" does nothing.  No fairness is   *)
(* assumed: the kernel dispatches no interrupt but the system call.        *)
(***************************************************************************)
EXTENDS Naturals, FiniteSets

CONSTANTS
    Buf,        \* buffers of the cache
    Data,       \* contents of a block
    Disk1,      \* the buffers of blocks on the second disk
    NULL,       \* no buffer
    Head        \* the head of the cache's list

ASSUME IdeAssumption == Disk1 \subseteq Buf /\ NULL \notin Buf /\ Head \notin Buf \cup {NULL}

VARIABLES
    pc,         \* of each caller: free, wait (in ide_rw)
    flags,      \* of each buffer: B_VALID, B_DIRTY
    data,       \* of each buffer
    next, qnext,\* links of each buffer
    ideQueue,
    haveDisk1,  \* "unknown" before ide_init()
    block,      \* the block of each buffer on disk
    disk,       \* the disk: the command it executes, then the interrupt
    served      \* history: buffers whose interrupt was handled, "error" or "ok"

bufVars == <<pc, flags, data, next, qnext>>
vars == <<bufVars, ideQueue, haveDisk1, block, disk, served>>

DiskIdle == [busy |-> FALSE, irq |-> FALSE, error |-> FALSE, cmd |-> "none", buf |-> NULL,
             data |-> NULL]

\* A disk that executes a command.
DiskBusy(cmd, b, v) == [busy |-> TRUE, irq |-> FALSE, error |-> FALSE, cmd |-> cmd, buf |-> b,
                        data |-> v]

Init ==
    /\ pc = [b \in Buf |-> "free"]
    /\ flags = [b \in Buf |-> {}]
    /\ data \in [Buf -> Data]
    /\ next = [b \in Buf |-> Head]
    /\ qnext = [b \in Buf |-> NULL]
    /\ ideQueue = NULL
    /\ haveDisk1 = "unknown"
    /\ block \in [Buf -> Data]
    /\ disk = DiskIdle
    /\ served = [b \in Buf |-> "no"]

\* Look whether there is a second disk.
ide_init ==
    /\ haveDisk1 = "unknown"
    /\ haveDisk1' \in {"yes", "no"}
    /\ UNCHANGED <<bufVars, ideQueue, block, disk, served>>

\* Mutant: the command is always to read.
ide_start_Read(b) ==
    /\ ~disk.busy
    /\ disk' = DiskBusy("IDE_CMD_READ", b, NULL)

\* ide_wait(0) and the command, for a write with the data; flags and data are those
\* the caller of ide_rw() has just set.  An interrupt that was not handled yet is
\* not raised again.
ide_start(b) ==
    /\ ~disk.busy
    /\ disk' = IF "B_DIRTY" \in flags'[b]
               THEN DiskBusy("IDE_CMD_WRITE", b, data'[b])
               ELSE DiskBusy("IDE_CMD_READ", b, NULL)

\* The place the loop over the queue ends at; qnext of the first is never set.
LastOf(pp) == IF qnext[pp] = NULL THEN pp ELSE next[pp]

\* Mutant: every request starts the disk.
ide_rw_StartAlways(b) ==
    /\ pc[b] = "free" /\ haveDisk1 # "unknown"
    /\ ideQueue' = IF ideQueue = NULL THEN b ELSE ideQueue
    /\ ide_start(b)
    /\ pc' = [pc EXCEPT ![b] = "wait"]
    /\ UNCHANGED <<next, qnext, haveDisk1, block, served>>

\* ide_rw() up to its waiting loop.  A block of a disk that is not there is asked
\* for as well.
ide_rw(b) ==
    /\ pc[b] = "free" /\ haveDisk1 # "unknown"
    /\ IF ideQueue = NULL
       THEN /\ ideQueue' = b
            /\ ide_start(b)
            /\ UNCHANGED next
       ELSE /\ next' = [next EXCEPT ![LastOf(ideQueue)] = b]
            /\ UNCHANGED <<ideQueue, disk>>
    /\ pc' = [pc EXCEPT ![b] = "wait"]
    /\ UNCHANGED <<qnext, haveDisk1, block, served>>

\* buffer_read() of a buffer that is not valid.
buffer_read(b) ==
    /\ UNCHANGED <<flags, data>>
    /\ ide_rw(b)

\* buffer_write() of new contents.
buffer_write(b, v) ==
    /\ data' = [data EXCEPT ![b] = v]
    /\ flags' = [flags EXCEPT ![b] = @ \cup {"B_DIRTY"}]
    /\ ide_rw(b)

\* A round of the waiting loop of ide_rw().
ide_rw_wait(b) ==
    /\ pc[b] = "wait"
    /\ pc' = [pc EXCEPT ![b] = IF flags[b] = {"B_VALID"} THEN "free" ELSE "wait"]
    /\ UNCHANGED <<flags, data, next, qnext, ideQueue, haveDisk1, block, disk, served>>

\* Not in the source: a disk that is there executes its command, which may fail,
\* and raises the interrupt.
disk_done(error) ==
    /\ disk.busy
    /\ disk.buf \notin Disk1 \/ haveDisk1 = "yes"
    /\ disk' = [disk EXCEPT !.busy = FALSE, !.irq = TRUE, !.error = error]
    /\ block' = IF disk.cmd = "IDE_CMD_WRITE" /\ ~error
                THEN [block EXCEPT ![disk.buf] = disk.data] ELSE block
    /\ UNCHANGED <<bufVars, ideQueue, haveDisk1, served>>

\* Mutant: the request stays in the queue.
ide_intr_Keep ==
    /\ disk.irq
    /\ LET b == ideQueue
       IN  /\ data' = IF "B_DIRTY" \notin flags[b] /\ ~disk.error
                      THEN [data EXCEPT ![b] = block[disk.buf]] ELSE data
           /\ served' = [served EXCEPT ![b] = IF disk.error THEN "error" ELSE "ok"]
    /\ disk' = DiskIdle
    /\ UNCHANGED <<pc, flags, next, qnext, ideQueue, haveDisk1, block>>

\* The handler.  The data of a read is fetched unless ide_wait(1) finds an error; whether
\* a write failed is not looked at.  The next request would be started; there is never one.
ide_intr ==
    /\ disk.irq
    /\ UNCHANGED <<pc, flags, next, qnext, haveDisk1, block>>
    /\ IF ideQueue = NULL
       THEN /\ disk' = DiskIdle
            /\ UNCHANGED <<ideQueue, data, served>>
       ELSE LET b == ideQueue
            IN  /\ ideQueue' = qnext[b]
                /\ data' = IF "B_DIRTY" \notin flags[b] /\ ~disk.error
                           THEN [data EXCEPT ![b] = block[disk.buf]] ELSE data
                /\ served' = [served EXCEPT ![b] = IF disk.error THEN "error" ELSE "ok"]
                /\ IF qnext[b] = NULL THEN disk' = DiskIdle ELSE ide_start(qnext[b])

Next ==
    \/ ide_init
    \/ \E b \in Buf : \/ \E v \in Data : buffer_write(b, v)
                      \/ buffer_read(b)
                      \/ ide_rw_wait(b)
    \/ \E error \in BOOLEAN : disk_done(error)
    \/ ide_intr

Spec == Init /\ [][Next]_vars

----------------------------------------------------------------------------
(* Properties *)

\* The queue and the disk refer to buffers, never to the head of the cache's list.
TypeOK ==
    /\ pc \in [Buf -> {"free", "wait"}]
    /\ flags \in [Buf -> SUBSET {"B_VALID", "B_DIRTY"}]
    /\ data \in [Buf -> Data] /\ block \in [Buf -> Data]
    /\ next \in [Buf -> Buf \cup {Head}] /\ qnext \in [Buf -> Buf \cup {NULL}]
    /\ ideQueue \in Buf \cup {NULL} /\ disk.buf \in Buf \cup {NULL}

\* The disk works for the first of the queue: the interrupt handler takes the
\* buffer from there and the data from the disk, and nothing else connects them.
DiskServesFirst ==
    disk.busy \/ disk.irq => disk.buf = ideQueue

\* After the interrupt of a command that did not fail, a buffer and its block on disk
\* are the same, whether it was read or written, and whatever requests arrived meanwhile.
ServedInSync ==
    \A b \in Buf : served[b] = "ok" => data[b] = block[b]

\* There is never a request at the head of the queue for which the disk has no command
\* and no interrupt is due: what ide_rw() and ide_intr() start, each for the requests the
\* other one leaves to it, is enough to keep the queue moving.
QueueMoves ==
    ideQueue # NULL => disk.busy \/ disk.irq
=============================================================================
