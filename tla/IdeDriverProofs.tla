-------------------------- MODULE IdeDriverProofs --------------------------
(***************************************************************************)
(* Proofs about the IDE driver, for every set of buffers, every kind of    *)
(* block and any choice of disks: the disk works for the first of the      *)
(* queue whenever there is one, and a request that was served leaves       *)
(* buffer and block equal.                                                 *)
(***************************************************************************)
EXTENDS IdeDriver, TLAPS

\* The queue never has a second element, because nothing sets qnext.
QueueIsShort == \A b \in Buf : qnext[b] = NULL

\* Who is first in the queue waits and was not served; who does not wait was not
\* served either, since nothing sets B_VALID and so no request returns.
CallerInv ==
    \A b \in Buf : /\ "B_VALID" \notin flags[b]
                   /\ ideQueue = b => pc[b] = "wait" /\ served[b] = "no"
                   /\ pc[b] = "free" => served[b] = "no"

Commands == {"none", "IDE_CMD_READ", "IDE_CMD_WRITE"}

\* The command agrees with the buffer it was made from until its interrupt.
DiskInv ==
    /\ disk \in [busy : BOOLEAN, irq : BOOLEAN, error : BOOLEAN, cmd : Commands,
                 buf : Buf \cup {NULL}, data : Data \cup {NULL}]
    /\ disk.busy \/ disk.irq => disk.buf = ideQueue /\ ideQueue # NULL
    /\ disk.busy =>
         \/ disk.cmd = "IDE_CMD_READ" /\ "B_DIRTY" \notin flags[disk.buf]
         \/ disk.cmd = "IDE_CMD_WRITE" /\ disk.data = data[disk.buf]
    /\ disk.irq /\ ~disk.error /\ "B_DIRTY" \in flags[disk.buf] => block[disk.buf] = data[disk.buf]

\* served is a function, which TypeOK leaves out.
ServedType == served \in [Buf -> {"no", "ok", "error"}]

IdeInv == TypeOK /\ ServedType /\ QueueIsShort /\ CallerInv /\ DiskInv /\ ServedInSync
          /\ QueueMoves

----------------------------------------------------------------------------
(* The invariant *)

LEMMA IdeInvInit == Init => IdeInv
BY IdeAssumption
DEF Init, DiskIdle, IdeInv, TypeOK, ServedType, QueueIsShort, CallerInv, DiskInv,
    Commands, ServedInSync, QueueMoves

\* A request: a new first of the queue starts the idle disk, any other one only
\* changes a link of the cache's list.  The contents it brings are those the
\* disk gets.
LEMMA RequestKeeps ==
    ASSUME IdeInv, NEW b \in Buf, ide_rw(b),
           \/ UNCHANGED <<flags, data>>
           \/ \E v \in Data : /\ data' = [data EXCEPT ![b] = v]
                              /\ flags' = [flags EXCEPT ![b] = @ \cup {"B_DIRTY"}]
    PROVE  IdeInv'
<1> USE DEF IdeInv
<1>1. /\ data' \in [Buf -> Data] /\ flags' \in [Buf -> SUBSET {"B_VALID", "B_DIRTY"}]
      /\ \A c \in Buf : "B_VALID" \notin flags'[c]
      /\ \A c \in Buf \ {b} : data'[c] = data[c] /\ flags'[c] = flags[c]
  BY DEF TypeOK, CallerInv
<1>2. /\ pc[b] = "free" /\ served[b] = "no" /\ ideQueue # b
      /\ pc' = [pc EXCEPT ![b] = "wait"]
      /\ UNCHANGED <<qnext, block, served>>
  BY DEF ide_rw, CallerInv
<1>3. ServedType' /\ QueueIsShort' /\ ServedInSync'
  BY <1>1, <1>2 DEF ServedType, QueueIsShort, ServedInSync
<1>4. CASE ideQueue = NULL
  <2>1. ~disk.busy /\ ~disk.irq
    BY <1>4 DEF DiskInv
  <2>2. ideQueue' = b /\ next' = next /\ ide_start(b)
    BY <1>4 DEF ide_rw
  <2>3. CASE "B_DIRTY" \in flags'[b]
    <3>1. disk' = [busy |-> TRUE, irq |-> FALSE, error |-> FALSE, cmd |-> "IDE_CMD_WRITE",
                   buf |-> b, data |-> data'[b]]
      BY <2>2, <2>3 DEF ide_start, DiskBusy
    <3>2. data'[b] \in Data
      BY <1>1
    <3>3. DiskInv'
      BY <2>2, <3>1, <3>2, IdeAssumption DEF DiskInv, Commands
    <3>4. TypeOK'
      BY <1>1, <1>2, <2>2, <3>1 DEF TypeOK
    <3> QED BY <1>1, <1>2, <1>3, <2>2, <3>1, <3>3, <3>4 DEF CallerInv, TypeOK, QueueMoves
  <2>4. CASE "B_DIRTY" \notin flags'[b]
    <3>1. disk' = [busy |-> TRUE, irq |-> FALSE, error |-> FALSE, cmd |-> "IDE_CMD_READ",
                   buf |-> b, data |-> NULL]
      BY <2>2, <2>4 DEF ide_start, DiskBusy
    <3>2. DiskInv'
      BY <2>2, <2>4, <3>1, IdeAssumption DEF DiskInv, Commands
    <3>3. TypeOK'
      BY <1>1, <1>2, <2>2, <3>1 DEF TypeOK
    <3> QED BY <1>1, <1>2, <1>3, <2>2, <3>1, <3>2, <3>3 DEF CallerInv, TypeOK, QueueMoves
  <2> QED BY <2>3, <2>4
<1>5. CASE ideQueue # NULL
  <2>1. /\ next' = [next EXCEPT ![LastOf(ideQueue)] = b]
        /\ UNCHANGED <<ideQueue, disk>>
    BY <1>5 DEF ide_rw
  <2>2. next' \in [Buf -> Buf \cup {Head}]
    BY <2>1 DEF TypeOK
  <2>3. TypeOK'
    BY <1>1, <1>2, <2>1, <2>2 DEF TypeOK
  <2>4. DiskInv'
    BY <1>1, <1>2, <1>5, <2>1 DEF DiskInv, TypeOK
  <2> QED BY <1>1, <1>2, <1>3, <2>1, <2>3, <2>4 DEF CallerInv, TypeOK, QueueMoves
<1> QED BY <1>4, <1>5

\* The disk writes what the first of the queue contains, to its block, or fails.
LEMMA DiskKeeps ==
    ASSUME IdeInv, NEW error \in BOOLEAN, disk_done(error)
    PROVE  IdeInv'
<1> USE DEF IdeInv
<1>1. disk.busy /\ disk.buf \in Buf /\ disk.buf = ideQueue /\ served[disk.buf] = "no"
  BY DEF disk_done, DiskInv, TypeOK, CallerInv
<1>2. /\ disk' = [disk EXCEPT !.busy = FALSE, !.irq = TRUE, !.error = error]
      /\ UNCHANGED <<bufVars, ideQueue, served>>
  BY DEF disk_done
<1>3. /\ disk' \in [busy : BOOLEAN, irq : BOOLEAN, error : BOOLEAN, cmd : Commands,
                    buf : Buf \cup {NULL}, data : Data \cup {NULL}]
      /\ ~disk'.busy /\ disk'.irq /\ disk'.error = error /\ disk'.buf = disk.buf
  BY <1>2 DEF DiskInv
<1>4. /\ block' \in [Buf -> Data]
      /\ \A c \in Buf : c # disk.buf => block'[c] = block[c]
      /\ ~error /\ "B_DIRTY" \in flags[disk.buf] => block'[disk.buf] = data[disk.buf]
  <2>1. CASE disk.cmd = "IDE_CMD_WRITE" /\ ~error
    <3>1. disk.data = data[disk.buf] /\ data[disk.buf] \in Data
      BY <1>1, <2>1 DEF DiskInv, TypeOK
    <3>2. block' = [block EXCEPT ![disk.buf] = disk.data]
      BY <2>1 DEF disk_done
    <3> QED BY <1>1, <3>1, <3>2 DEF TypeOK
  <2>2. CASE disk.cmd # "IDE_CMD_WRITE" \/ error
    <3>1. block' = block
      BY <2>2 DEF disk_done
    <3> QED BY <1>1, <2>2, <3>1 DEF DiskInv, TypeOK
  <2> QED BY <2>1, <2>2
<1>5. TypeOK'
  BY <1>2, <1>3, <1>4 DEF TypeOK, bufVars
<1>6. DiskInv'
  BY <1>1, <1>2, <1>3, <1>4, IdeAssumption DEF DiskInv, bufVars
<1>7. ServedInSync'
  BY <1>1, <1>2, <1>4 DEF ServedInSync, bufVars
<1> QED BY <1>2, <1>3, <1>5, <1>6, <1>7
        DEF ServedType, QueueIsShort, CallerInv, QueueMoves, bufVars

\* The interrupt handler: a buffer that was to be read gets its block, a dirty one
\* is on disk already.
LEMMA InterruptKeeps ==
    ASSUME IdeInv, ide_intr
    PROVE  IdeInv'
<1> USE DEF IdeInv
<1>1. PICK b \in Buf : b = ideQueue /\ disk.buf = b /\ disk.irq
  BY DEF ide_intr, DiskInv, TypeOK
<1>2. UNCHANGED <<pc, flags, next, qnext, block>>
  BY DEF ide_intr
<1>3. ideQueue # NULL /\ pc[b] = "wait" /\ qnext[b] = NULL
  BY <1>1, IdeAssumption DEF CallerInv, QueueIsShort
<1>4. /\ ideQueue' = NULL /\ disk' = DiskIdle
      /\ data' = IF "B_DIRTY" \notin flags[b] /\ ~disk.error
                 THEN [data EXCEPT ![b] = block[b]] ELSE data
      /\ served' = [served EXCEPT ![b] = IF disk.error THEN "error" ELSE "ok"]
  BY <1>1, <1>3 DEF ide_intr
<1>5. data' \in [Buf -> Data] /\ \A c \in Buf : c # b => data'[c] = data[c]
  BY <1>4 DEF TypeOK
<1>6. /\ ServedType'
      /\ \A c \in Buf : c # b => served'[c] = served[c]
  BY <1>4 DEF ServedType
<1>7. served'[b] = "ok" => data'[b] = block[b]
  <2>1. CASE "B_DIRTY" \in flags[b]
    BY <1>1, <1>4, <2>1 DEF DiskInv, ServedType
  <2>2. CASE "B_DIRTY" \notin flags[b]
    BY <1>4, <2>2 DEF TypeOK, ServedType
  <2> QED BY <2>1, <2>2
<1>8. TypeOK'
  BY <1>2, <1>4, <1>5 DEF TypeOK, DiskIdle
<1>9. ServedInSync'
  BY <1>2, <1>5, <1>6, <1>7 DEF ServedInSync
<1>10. DiskInv'
  BY <1>4, IdeAssumption DEF DiskInv, DiskIdle, Commands
<1>11. CallerInv'
  BY <1>2, <1>3, <1>4, <1>6, IdeAssumption DEF CallerInv
<1> QED BY <1>2, <1>4, <1>6, <1>8, <1>9, <1>10, <1>11 DEF QueueIsShort, QueueMoves

\* The waiting loop never ends.
LEMMA WaitKeeps ==
    ASSUME IdeInv, NEW b \in Buf, ide_rw_wait(b)
    PROVE  IdeInv'
<1>1. pc' = pc
  BY DEF IdeInv, CallerInv, TypeOK, ide_rw_wait
<1> QED BY <1>1
        DEF IdeInv, TypeOK, ServedType, QueueIsShort, CallerInv, DiskInv, ServedInSync,
            QueueMoves, ide_rw_wait

LEMMA IdeInvNext == IdeInv /\ [Next]_vars => IdeInv'
<1> SUFFICES ASSUME IdeInv, [Next]_vars PROVE IdeInv'
  OBVIOUS
<1> USE DEF IdeInv, TypeOK, ServedType, QueueIsShort, CallerInv, DiskInv, ServedInSync,
            QueueMoves
<1>1. CASE ide_init
  BY <1>1 DEF ide_init, bufVars
<1>2. ASSUME NEW b \in Buf, NEW v \in Data, buffer_write(b, v) PROVE IdeInv'
  BY <1>2, RequestKeeps DEF buffer_write
<1>3. ASSUME NEW b \in Buf, buffer_read(b) PROVE IdeInv'
  BY <1>3, RequestKeeps DEF buffer_read
<1>4. ASSUME NEW b \in Buf, ide_rw_wait(b) PROVE IdeInv'
  BY <1>4, WaitKeeps
<1>5. ASSUME NEW error \in BOOLEAN, disk_done(error) PROVE IdeInv'
  BY <1>5, DiskKeeps
<1>6. CASE ide_intr
  BY <1>6, InterruptKeeps
<1>7. CASE UNCHANGED vars
  BY <1>7 DEF vars, bufVars
<1> QED BY <1>1, <1>2, <1>3, <1>4, <1>5, <1>6, <1>7 DEF Next

LEMMA IdeInvCorrect == Spec => []IdeInv
BY IdeInvInit, IdeInvNext, PTL DEF Spec

----------------------------------------------------------------------------
(* The results *)

\* Queue and disk refer to buffers only: ide_intr() and ide_start() never follow
\* the head of the cache's list, to whose links ide_rw() writes.
THEOREM IdeTypeCorrect == Spec => []TypeOK
BY IdeInvCorrect, PTL DEF IdeInv

\* What ide_intr() takes from the head of the queue is what ide_start() gave to the disk.
THEOREM IdeServesFirst == Spec => []DiskServesFirst
<1>1. IdeInv => DiskServesFirst
  BY DEF IdeInv, DiskInv, DiskServesFirst
<1> QED BY <1>1, IdeInvCorrect, PTL

\* A buffer whose command did not fail equals its block once ide_intr() was there.
THEOREM IdeInSync == Spec => []ServedInSync
BY IdeInvCorrect, PTL DEF IdeInv

\* The first of the queue never waits for a command that nobody gave: ide_rw() starts the
\* disk when it finds the queue empty, and ide_intr() leaves it empty.
THEOREM IdeQueueMoves == Spec => []QueueMoves
BY IdeInvCorrect, PTL DEF IdeInv
=============================================================================
