-------------------------------- MODULE Log --------------------------------
(***************************************************************************)
(* The write-ahead log of the file system plugin,                          *)
(* src/plugin_rust/src/file_system/log.rs.  A transaction collects its     *)
(* blocks in the log area; writing the header commits it; the blocks are   *)
(* then copied home and the header is cleared.  The machine may stop       *)
(* between any two disk writes, and init_log() repeats the copying.        *)
(*                                                                         *)
(* The buffer cache below is taken at its word: buffer_read returns the    *)
(* block, buffer_write returns when the block is on disk, and a block is   *)
(* written whole or not at all.  A step has at most one disk write.        *)
(*                                                                         *)
(* The blocks with the comment "panic" in log_write() are empty, so it     *)
(* goes on, outside of a transaction and in a full log too.  Where it      *)
(* leaves the header or the log area the model ends (pc is "wild").        *)
(***************************************************************************)
EXTENDS Integers, Sequences, Functions, FiniteSets

CONSTANTS
    Sector,     \* blocks of the file system outside the log area
    Data,       \* contents of a block
    LOGSIZE,    \* entries a header has room for
    nlog        \* blocks of the log area, the header included

ASSUME LogAssumption == LOGSIZE \in Nat /\ nlog \in Nat \ {0}

VARIABLES
    home,       \* on disk: the blocks at their home location
    logBlock,   \* on disk: block log.start + i of the log area
    diskHead,   \* on disk: the sectors in the header
    logHeader,  \* in memory: log.logHeader, its first n sectors
    busy,       \* in memory: log.busy
    pc,         \* boot, run (no log function executes), install, wild
    tail,       \* the entry install_trans() copies next
    written     \* history: sectors given to log_write() since the last commit or crash

disk == <<home, logBlock, diskHead>>
vars == <<home, logBlock, diskHead, logHeader, busy, pc, tail, written>>

n == Len(logHeader)

\* Entry i lies in the header and its block in the log area.
HasRoom(i) == i <= LOGSIZE /\ i <= nlog - 1

Init == /\ home \in [Sector -> Data]
        /\ logBlock \in [1 .. (nlog - 1) -> Data]
        /\ diskHead = <<>>
        /\ logHeader = <<>>
        /\ busy = FALSE
        /\ pc = "boot"
        /\ tail = 1
        /\ written = {}

----------------------------------------------------------------------------
(* Recovery *)

\* init_log() calls recover_from_log(), which reads the header first.
read_head == /\ pc = "boot"
             /\ logHeader' = diskHead
             /\ pc' = "install"
             /\ tail' = 1
             /\ UNCHANGED <<disk, busy, written>>

\* Mutant: the loop does not advance.
install_trans_Stuck == /\ pc = "install"
                       /\ tail <= n
                       /\ home' = [home EXCEPT ![logHeader[tail]] = logBlock[tail]]
                       /\ UNCHANGED <<logBlock, diskHead, logHeader, busy, pc, tail, written>>

\* One round of the loop of install_trans().
install_trans == /\ pc = "install"
                 /\ tail <= n
                 /\ home' = [home EXCEPT ![logHeader[tail]] = logBlock[tail]]
                 /\ tail' = tail + 1
                 /\ UNCHANGED <<logBlock, diskHead, logHeader, busy, pc, written>>

\* Mutant: n is set to 0 in memory, the header stays on disk.
clear_log_KeepHead == /\ pc = "install"
                      /\ tail > n
                      /\ logHeader' = <<>>
                      /\ busy' = FALSE
                      /\ pc' = "run"
                      /\ written' = {}
                      /\ UNCHANGED <<disk, tail>>

\* The end of recover_from_log() and of commit_trans(): set n to 0 and write
\* the header.  Then commit_trans() gives the log free; recovery never took it.
clear_log == /\ pc = "install"
             /\ tail > n
             /\ logHeader' = <<>>
             /\ diskHead' = <<>>
             /\ busy' = FALSE
             /\ pc' = "run"
             /\ written' = {}
             /\ UNCHANGED <<home, logBlock, tail>>

----------------------------------------------------------------------------
(* Transactions *)

\* Wait until no transaction runs, then start one.
begin_trans == /\ pc = "run"
               /\ ~busy
               /\ busy' = TRUE
               /\ UNCHANGED <<disk, logHeader, pc, tail, written>>

\* Mutant: a sector that is in the log is not looked for.
LogIndex_Last(s) == n + 1

\* The entry of sector s, or the first unused one.
LogIndex(s) == IF \E i \in 1..n : logHeader[i] = s
               THEN CHOOSE i \in 1..n : logHeader[i] = s
               ELSE n + 1

\* Write block s to the log, whether or not a transaction runs.
log_write(s, v) ==
    /\ pc = "run"
    /\ written' = written \cup {s}
    /\ IF HasRoom(LogIndex(s))
       THEN /\ logHeader' = IF LogIndex(s) = n + 1 THEN Append(logHeader, s) ELSE logHeader
            /\ logBlock' = [logBlock EXCEPT ![LogIndex(s)] = v]
            /\ UNCHANGED pc
       ELSE /\ pc' = "wild"
            /\ UNCHANGED <<logBlock, logHeader>>
    /\ UNCHANGED <<home, diskHead, busy, tail>>

\* commit_trans() with nothing to commit.
commit_empty == /\ pc = "run" /\ busy
                /\ n = 0
                /\ busy' = FALSE
                /\ UNCHANGED <<disk, logHeader, pc, tail, written>>

\* Mutant: the header is not written before the blocks are copied home.
commit_trans_NoHead == /\ pc = "run" /\ busy
                       /\ n > 0
                       /\ pc' = "install"
                       /\ tail' = 1
                       /\ UNCHANGED <<disk, logHeader, busy, written>>

\* commit_trans() up to the real commit, write_head().
commit_trans == /\ pc = "run" /\ busy
                /\ n > 0
                /\ diskHead' = logHeader
                /\ pc' = "install"
                /\ tail' = 1
                /\ UNCHANGED <<home, logBlock, logHeader, busy, written>>

\* The machine stops and starts again: memory is lost.
crash == /\ pc # "wild"
         /\ pc' = "boot"
         /\ logHeader' = <<>>
         /\ busy' = FALSE
         /\ tail' = 1
         /\ written' = {}
         /\ UNCHANGED disk

Next == \/ read_head
        \/ install_trans
        \/ clear_log
        \/ begin_trans
        \/ \E s \in Sector, v \in Data : log_write(s, v)
        \/ commit_empty
        \/ commit_trans
        \/ crash
        \/ pc = "wild" /\ UNCHANGED vars

\* A log function that was called runs on: nothing in it waits.
Fairness == WF_vars(read_head \/ install_trans \/ clear_log)

Spec == Init /\ [][Next]_vars /\ Fairness

----------------------------------------------------------------------------
(* Properties *)

\* The headers name sectors, and what they name lies in the log area.
TypeOK == /\ home \in [Sector -> Data]
          /\ logBlock \in [1 .. (nlog - 1) -> Data]
          /\ diskHead \in Seq(Sector) /\ Len(diskHead) <= nlog - 1
          /\ logHeader \in Seq(Sector) /\ n <= nlog - 1 /\ n <= LOGSIZE
          /\ busy \in BOOLEAN
          /\ pc \in {"boot", "run", "install", "wild"}
          /\ tail \in 1 .. nlog

\* A sector written twice in a transaction has one entry in the header, in
\* memory and on disk, so the blocks may be copied home in any order, any
\* number of times: what log_write() searches for.
OneEntryPerSector == IsInjective(logHeader) /\ IsInjective(diskHead)

\* The header in memory has exactly the sectors written since the last commit, those
\* written outside of a transaction too: none is forgotten and none is left over from
\* an earlier one.  So log_write() leaves the header or the log area only when that many
\* different sectors have no room in it, never because of sectors written again; that
\* its callers write so few is up to them, since its own check does nothing.
LogHoldsTransaction ==
    /\ pc = "run" => Range(logHeader) = written
    /\ pc = "wild" => ~HasRoom(Cardinality(written))

\* Between transactions and while one collects its blocks, the header on disk
\* is empty: a crash then must not replay half a transaction, and the code
\* reads blocks at their home location.
HeadClearWhileRunning == pc \in {"run", "wild"} => diskHead = <<>>

\* The disk with the home locations h and log area l, once the entries of a
\* header are copied.
Overlay(h, l, head) ==
    [s \in Sector |-> IF \E i \in DOMAIN head : head[i] = s
                      THEN l[CHOOSE i \in DOMAIN head : head[i] = s]
                      ELSE h[s]]

\* What recovery would restore.
Durable == Overlay(home, logBlock, diskHead)

\* What the transaction that collects its blocks has made of it.
View == IF pc \in {"run", "wild"} THEN Overlay(home, logBlock, logHeader) ELSE Durable

Atomic == INSTANCE AtomicDisk WITH durable <- Durable, view <- View

\* Crash atomicity: whatever the point at which the machine stops, also during
\* recovery, the disk holds all writes of a transaction or none, and a
\* transaction whose header was written is never lost.
ImplementsAtomicDisk == Atomic!Spec

\* Unless the machine crashes for ever, recovery and every commit bring what was
\* durable when they started to its home location, whatever crashes and new
\* recoveries lie between.
RecoveryEnds ==
    \/ []<><<crash>>_vars
    \/ \A d \in [Sector -> Data] :
           (pc \in {"boot", "install"} /\ Durable = d) ~> (pc = "run" /\ home = d)
=============================================================================
