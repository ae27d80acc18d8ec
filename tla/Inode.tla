------------------------------- MODULE Inode -------------------------------
(***************************************************************************)
(* One file of the file system plugin: the block map of its inode, the     *)
(* bitmap of free blocks and the transactions around them                  *)
(* (src/plugin_rust/src/file_system/fs.rs and file.rs).                    *)
(*                                                                         *)
(* The plugin is one thread, so operations do not overlap.  file_write()   *)
(* writes a long buffer in several transactions, and the machine may stop  *)
(* at any point of them; what the log promises (module Log, refinement of  *)
(* AtomicDisk) is used here: a transaction becomes durable as a whole when *)
(* it commits, and a crash takes the buffer cache and the inode with it.   *)
(*                                                                         *)
(* The source is a draft.  Its blocks with the comment "panic" are empty,  *)
(* so the code goes on after them; where that leaves the log, the map of   *)
(* the inode or a function without a value, the model ends.  The lock is a *)
(* comment too: open, below, stands for it.                                *)
(* Data is counted in words of the size of an address.                     *)
(***************************************************************************)
EXTENDS Integers, Sequences, FiniteSets, FiniteSetsExt

CONSTANTS
    BSIZE,      \* words in a block
    NDIRECT,    \* addresses in the inode, before the one of the indirect block
    BPB,        \* blocks that one block of the bitmap describes
    NBLOCK,     \* superBlock.size
    LOGSIZE,    \* entries the header of the log has room for
    nlog,       \* log.size: blocks of the log area, the header included
    UsedSets,   \* the blocks in use by others: what a disk may start from
    Buffers     \* what a caller may write

NINDIRECT == BSIZE
MAXFILE == NDIRECT + NINDIRECT
Block == 0 .. (NBLOCK - 1)

ASSUME InodeAssumption ==
    /\ BSIZE \in Nat \ {0} /\ NDIRECT \in Nat \ {0} /\ BPB \in Nat \ {0}
    /\ NBLOCK \in Nat /\ LOGSIZE \in Nat /\ LOGSIZE >= 6 /\ nlog \in Nat
    /\ \A u \in UsedSets : u \subseteq Block /\ 0 \in u
    /\ \A b \in Buffers : b \in Seq(Nat) /\ b # <<>>

\* A removal fits the log.  It logs the inode and the blocks of the bitmap that have
\* the blocks of the file; those are not more than the blocks of the file, nor than
\* the blocks of the bitmap.  Nothing in the code checks this.
RemovalFits == \/ MAXFILE + 2 <= LOGSIZE
               \/ (NBLOCK - 1) \div BPB + 2 <= LOGSIZE

\* The log area has a block for every entry of the header.  file_write() computes
\* with LOGSIZE alone, and nothing in the code compares it with log.size.
AreaFits == LOGSIZE < nlog

VARIABLES
    used,       \* the blocks in use by others
    disk,       \* what is durable: bitmap, contents of the blocks, the inode
    cache,      \* the same as the buffer cache shows it
    logged,     \* the blocks in the log, log.logHeader
    ip,         \* the in-memory inode
    off,        \* f.off
    pc,         \* closed, open, loop and write (in file_write); wild, full: the model ends
    addr,       \* file_write: the buffer,
    i,          \*     the words of it that are written,
    tot,        \*     and those of the current transaction
    file        \* history: the words that committed transactions wrote

opVars == <<addr, i, tot>>
vars == <<used, disk, cache, logged, ip, off, pc, addr, i, tot, file>>

T_FREE == 0
T_FILE == 2
NoAddrs == [k \in 0..NDIRECT |-> 0]
NewINode == [type |-> T_FILE, nlink |-> 1, size |-> 0, addrs |-> NoAddrs]
ZeroBlock == [k \in 0 .. (BSIZE - 1) |-> 0]

----------------------------------------------------------------------------
(* Blocks *)

\* The block of the bitmap that describes block b, and the one of the inode.
BBLOCK(b) == <<"bitmap", b \div BPB>>
INodeBlock == <<"inode", 0>>
DataBlock(b) == <<"data", b>>

\* log_write: the call for block b, and before it those for some others.  A block the
\* log holds keeps its entry, so the entries are the set of the blocks; the check for
\* a full log does nothing, and ok says that all entries lie in the header and in the
\* log area.
log_write(others, b) ==
    LET l == logged \cup others \cup {b}
    IN  [ok |-> Cardinality(l) <= LOGSIZE /\ Cardinality(l) <= nlog - 1, blocks |-> l]

\* The first free block, marked and zeroed; address 0 stands for the end of the
\* function, without a value.
block_alloc(c) ==
    IF c.bitmap = Block
    THEN [cache |-> c, addr |-> 0, log |-> {}]
    ELSE LET b == Min(Block \ c.bitmap)
         IN  [cache |-> [c EXCEPT !.bitmap = @ \cup {b}, !.content[b] = ZeroBlock],
              addr |-> b, log |-> {BBLOCK(b), DataBlock(b)}]

\* The block at an address of the map, allocated if there is none.
present(c, a) == IF a = 0 THEN block_alloc(c) ELSE [cache |-> c, addr |-> a, log |-> {}]

\* Block blockNum of the inode with these addresses, and what getting it changed.
\* Only the caller's inode keeps a new direct address; nothing logs it here.
get_nthdiskBlock_for_inode(c, addrs, blockNum) ==
    IF blockNum < NDIRECT
    THEN LET b == present(c, addrs[blockNum])
         IN  [cache |-> b.cache, addrs |-> [addrs EXCEPT ![blockNum] = b.addr],
              addr |-> b.addr, log |-> b.log]
    ELSE LET j == blockNum - NDIRECT
             ind == present(c, addrs[NDIRECT])
             b == present(ind.cache, ind.cache.content[ind.addr][j])
         IN  [cache |-> [b.cache EXCEPT !.content[ind.addr][j] = b.addr],
              addrs |-> [addrs EXCEPT ![NDIRECT] = ind.addr],
              addr |-> IF ind.addr = 0 THEN 0 ELSE b.addr,
              log |-> ind.log \cup b.log
                      \cup (IF b.log # {} THEN {DataBlock(ind.addr)} ELSE {})]

\* The addresses of an inode whose blocks hold this content, in the order of the map:
\* the direct ones, the indirect block and the addresses in it.
Addresses(addrs, content) ==
    [k \in 0..MAXFILE |->
        IF k <= NDIRECT THEN addrs[k]
        ELSE IF addrs[NDIRECT] = 0 THEN 0
        ELSE content[addrs[NDIRECT]][k - NDIRECT - 1]]

AllocatedTo(addrs, content) == Range(Addresses(addrs, content)) \ {0}

\* Where block n of a file is in that order, and the address of word o.
Position(n) == IF n < NDIRECT THEN n ELSE n + 1

AddressOf(ino, content, o) == Addresses(ino.addrs, content)[Position(o \div BSIZE)]

\* Mutant: the first block is read from its start.
read_inode_Aligned(ino, content, o, n) ==
    [k \in 1 .. Min({n, ino.size - o}) |->
        content[AddressOf(ino, content, o + k - 1)][(k - 1) % BSIZE]]

\* read_inode: the words from o on, at most n of them.
read_inode(ino, content, o, n) ==
    [k \in 1 .. Min({n, ino.size - o}) |->
        content[AddressOf(ino, content, o + k - 1)][(o + k - 1) % BSIZE]]

----------------------------------------------------------------------------
(* Operations *)

Init ==
    /\ used \in UsedSets
    /\ disk = [bitmap |-> used, content |-> [b \in Block |-> ZeroBlock], inode |-> NewINode]
    /\ cache = disk
    /\ logged = {}
    /\ ip = NewINode
    /\ off = 0
    /\ pc = "closed"
    /\ addr = <<>> /\ i = 0 /\ tot = 0
    /\ file = <<>>

\* Not in the source: creating the file, in the inode that a removal left free.
create ==
    /\ pc = "closed" /\ disk.inode.type = T_FREE
    /\ disk' = [disk EXCEPT !.inode.type = T_FILE, !.inode.nlink = 1]
    /\ cache' = disk'
    /\ UNCHANGED <<used, logged, ip, off, pc, opVars, file>>

\* Not in the source: opening it.  The lock reads the inode from disk.
open ==
    /\ pc = "closed" /\ disk.inode.nlink > 0
    /\ ip' = disk.inode
    /\ off' = 0
    /\ pc' = "open"
    /\ UNCHANGED <<used, disk, cache, logged, opVars, file>>

\* Not in the source: removing the only link to it.
unlink ==
    /\ pc = "open" /\ ip.nlink > 0
    /\ ip' = [ip EXCEPT !.nlink = 0]
    /\ disk' = [disk EXCEPT !.inode.nlink = 0]
    /\ cache' = disk'
    /\ UNCHANGED <<used, logged, off, pc, opVars, file>>

\* Reading past a hole would allocate a block outside of a transaction.
file_read(n) ==
    /\ pc = "open"
    /\ IF off > ip.size
       THEN UNCHANGED <<off, pc>>
       ELSE LET r == Min({n, ip.size - off})
            IN  /\ off' = off + r
                /\ pc' = IF \A k \in off .. (off + r - 1) : AddressOf(ip, cache.content, k) # 0
                         THEN pc ELSE "wild"
    /\ UNCHANGED <<used, disk, cache, logged, ip, opVars, file>>

file_write(buf) ==
    /\ pc = "open"
    /\ pc' = "loop"
    /\ addr' = buf /\ i' = 0 /\ tot' = 0
    /\ UNCHANGED <<used, disk, cache, logged, ip, off, file>>

\* Mutant: no blocks of slop.
max_NoSlop == ((LOGSIZE - 1 - 1) \div 2) * BSIZE

\* The words of one transaction.
max == ((LOGSIZE - 1 - 1 - 2) \div 2) * BSIZE
n1 == Min({Len(addr) - i, max})

\* The conditions under which write_inode() returns -1 at once.
write_inode_refuses == \/ off > ip.size
                       \/ off + n1 > MAXFILE * BSIZE

\* A round of the loop of file_write(): begin_trans() and the start of
\* write_inode().  When that fails, the transaction is empty and the loop ends.
write_begin ==
    /\ pc = "loop"
    /\ IF write_inode_refuses
       THEN pc' = "open" /\ addr' = <<>> /\ i' = 0
       ELSE pc' = "write" /\ UNCHANGED <<addr, i>>
    /\ tot' = 0
    /\ UNCHANGED <<used, disk, cache, logged, ip, off, file>>

\* A round of the loop of write_inode(): the words that fall into one block.
write_inode ==
    /\ pc = "write" /\ tot < n1
    /\ LET o == off + tot
           p == o % BSIZE
           groupSize == Min({n1 - tot, BSIZE - p})
           b == get_nthdiskBlock_for_inode(cache, ip.addrs, o \div BSIZE)
           l == log_write(b.log, DataBlock(b.addr))
       IN  IF o \div BSIZE >= MAXFILE \/ b.addr = 0 \/ ~l.ok
           THEN /\ pc' = IF o \div BSIZE < MAXFILE /\ b.addr = 0 THEN "full" ELSE "wild"
                /\ UNCHANGED <<cache, logged, ip, tot>>
           ELSE /\ cache' = [b.cache EXCEPT !.content[b.addr] =
                                [k \in DOMAIN @ |->
                                    IF k \in p .. (p + groupSize - 1)
                                    THEN addr[i + tot + 1 + k - p]
                                    ELSE @[k]]]
                /\ ip' = [ip EXCEPT !.addrs = b.addrs]
                /\ logged' = l.blocks
                /\ tot' = tot + groupSize
                /\ UNCHANGED pc
    /\ UNCHANGED <<used, disk, off, addr, i, file>>

\* Word k of a file of which words from o on are replaced by ws.
Overwrite(f, o, ws) ==
    [k \in 1 .. Max({Len(f), o + Len(ws)}) |->
        IF k \in (o + 1) .. (o + Len(ws)) THEN ws[k - o] ELSE f[k]]

\* Mutant: the inode is not written when its size fits the blocks it has.
grown_ByBlock == (off + tot - 1) \div BSIZE > (ip.size - 1) \div BSIZE

\* The file has become longer.
grown == off + tot > ip.size

\* The end of write_inode(), with inode_update(), and commit_trans().  The line
\* `f.off == r` compares and leaves the offset alone, for the next round as well.
write_end ==
    /\ pc = "write" /\ tot = n1
    /\ LET ino == IF grown THEN [ip EXCEPT !.size = off + tot] ELSE ip
           c == IF grown THEN [cache EXCEPT !.inode = ino] ELSE cache
           l == log_write({}, INodeBlock)
       IN  IF grown /\ ~l.ok
           THEN /\ pc' = "wild"
                /\ UNCHANGED <<disk, cache, ip, logged, addr, i, tot, file>>
           ELSE /\ ip' = ino
                /\ cache' = c
                /\ disk' = c
                /\ logged' = {}
                /\ file' = Overwrite(file, off, SubSeq(addr, i + 1, i + n1))
                /\ tot' = 0
                /\ IF i + n1 = Len(addr)
                   THEN pc' = "open" /\ addr' = <<>> /\ i' = 0
                   ELSE pc' = "loop" /\ i' = i + n1 /\ UNCHANGED addr
    /\ UNCHANGED <<used, off>>

\* Mutant: the indirect block itself is not freed.
inode_truncate_KeepIndirect(c) ==
    [c EXCEPT !.bitmap = @ \ (AllocatedTo(ip.addrs, c.content) \ {ip.addrs[NDIRECT]}),
              !.inode = [ip EXCEPT !.size = 0, !.addrs = NoAddrs]]

\* Free the blocks of the inode.
inode_truncate(c) ==
    [c EXCEPT !.bitmap = @ \ AllocatedTo(ip.addrs, c.content),
              !.inode = [ip EXCEPT !.size = 0, !.addrs = NoAddrs]]

\* What inode_truncate() logs: the bitmap for every block, and the inode.
truncate_log == {BBLOCK(a) : a \in AllocatedTo(ip.addrs, cache.content)} \cup {INodeBlock}

\* Closing the last reference: inode_put() in a transaction of its own.  A file
\* without links is removed and the inode logged again.
file_close ==
    /\ pc = "open"
    /\ LET c == IF ip.nlink = 0 THEN [inode_truncate(cache) EXCEPT !.inode.type = T_FREE]
                ELSE cache
           bad == ip.nlink = 0 /\ ~log_write(truncate_log, INodeBlock).ok
       IN  IF bad
           THEN /\ pc' = "wild"
                /\ UNCHANGED <<disk, cache, file>>
           ELSE /\ pc' = "closed"
                /\ cache' = c
                /\ disk' = c
                /\ file' = IF ip.nlink = 0 THEN <<>> ELSE file
    /\ ip' = NewINode
    /\ off' = 0
    /\ UNCHANGED <<used, logged, opVars>>

\* The machine stops, starts again and recovers from the log.
crash ==
    /\ pc \notin {"wild", "full"}
    /\ pc' = "closed"
    /\ cache' = disk
    /\ logged' = {}
    /\ ip' = NewINode
    /\ off' = 0
    /\ addr' = <<>> /\ i' = 0 /\ tot' = 0
    /\ UNCHANGED <<used, disk, file>>

\* Memory or disk is overwritten, or an undefined address used: nothing is said about
\* what follows.
ended == pc \in {"wild", "full"} /\ UNCHANGED vars

Next ==
    \/ create \/ open \/ unlink
    \/ \E n \in 1 .. (MAXFILE * BSIZE) : file_read(n)
    \/ \E buf \in Buffers : file_write(buf)
    \/ write_begin
    \/ write_inode
    \/ write_end
    \/ file_close
    \/ crash
    \/ ended

Spec == Init /\ [][Next]_vars

----------------------------------------------------------------------------
(* Properties *)

INode == [type : {T_FREE, T_FILE}, nlink : {0, 1}, size : 0 .. (MAXFILE * BSIZE),
          addrs : [0..NDIRECT -> Block]]

\* The cached and the durable state have their types; no file is larger than the
\* map of its inode, and a transaction has at most LOGSIZE blocks.
TypeOK ==
    /\ \A d \in {disk, cache} : /\ d.bitmap \subseteq Block
                                /\ d.content \in [Block -> [0 .. (BSIZE - 1) -> Nat]]
                                /\ d.inode \in INode
    /\ ip \in INode
    /\ Cardinality(logged) <= LOGSIZE
    /\ off \in Nat /\ i \in Nat /\ tot \in Nat
    /\ pc \in {"closed", "open", "loop", "write", "wild", "full"}
    /\ Len(file) <= MAXFILE * BSIZE

\* No transaction outgrows the log, which is what the computation of max in
\* file_write() is for and what log_write() does not check: however the offset lies
\* in its block, and with every block of the file in a bitmap block of its own, the
\* data, the indirect block, the bitmap and the inode have entries in the header and
\* blocks in the log area, and so have those of the removal of a file.  Nor is a
\* block looked for past the map, or allocated by a read.
NoOverrun == pc # "wild"

\* Whenever the machine stops, what recovery finds is consistent: the bitmap has
\* exactly the blocks of others and the blocks the inode refers to, each of those
\* once, and a removed inode refers to none.
DiskConsistent ==
    LET a == Addresses(disk.inode.addrs, disk.content)
        mine == AllocatedTo(disk.inode.addrs, disk.content)
    IN  /\ TypeOK
        /\ \A j, k \in DOMAIN a : a[j] = a[k] /\ a[j] # 0 => j = k
        /\ mine \cap used = {}
        /\ disk.bitmap = used \cup mine
        /\ disk.inode.type = T_FREE => mine = {}

\* What is durable is the file as the committed transactions wrote it, word for
\* word, through the direct and the indirect part of the map.
DiskHoldsFile ==
    read_inode(disk.inode, disk.content, 0, MAXFILE * BSIZE) = file

\* The offset of a file never lies beyond its end, so that no write leaves a hole
\* and no read meets one; and between transactions a read through the in-memory
\* inode finds the words last written, from every offset and for every length.
ReadsBack ==
    /\ pc \in {"open", "loop", "write"} => off <= ip.size
    /\ pc \in {"open", "loop"} =>
          \A o \in 0 .. ip.size, n \in 0 .. (MAXFILE * BSIZE) :
              read_inode(ip, cache.content, o, n)
                  = SubSeq(file, o + 1, Min({o + n, Len(file)}))
=============================================================================
