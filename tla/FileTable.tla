----------------------------- MODULE FileTable -----------------------------
(***************************************************************************)
(* Who holds what in the file system plugin: the table of open files       *)
(* (file.rs), the cache of in-memory inodes, directories and the walk along*)
(* a path (fs.rs).  A cache entry is recycled, and a file without links is*)
(* removed from disk, when its count says that nobody holds it.            *)
(*                                                                         *)
(* The plugin is one thread.  A comment in place of a call is no call: the *)
(* walk gives no directory back, and a full cache makes inode_get() write  *)
(* through a null pointer.  Only the lock, which is what would read an     *)
(* inode, is taken as a function of the other file system code (lock).     *)
(* What the blocks of an inode hold is in module Inode; here a directory   *)
(* is a function.                                                          *)
(***************************************************************************)
EXTENDS Integers, Sequences, FiniteSets, FiniteSetsExt

CONSTANTS
    NINODEs,        \* sizes of the inode cache to look at: NINODE is one of them
    NFILE,          \* entries of the table of files
    FD,             \* descriptors of the callers
    Dirs, Files,    \* inode numbers; ROOTINO is the directory 1
    Name,           \* names in a directory
    Tree,           \* Tree[d][name]: the directories at the start, 0 for no entry
    Cwd,            \* directories a caller may work in
    Paths,          \* sequences of names a caller may pass
    MaxLink,        \* bound on the links of a file
    MaxLost         \* bound on the lost references to an entry before a walk

INum == Dirs \cup Files
ROOTINO == 1
NLinks(t, inum) == Cardinality({e \in Dirs \X Name : t[e[1]][e[2]] = inum})

ASSUME FileTableAssumption ==
    /\ NINODEs \subseteq Nat \ {0} /\ NFILE \in Nat \ {0} /\ MaxLink \in Nat /\ MaxLost \in Nat
    /\ INum \subseteq Nat \ {0} /\ Dirs \cap Files = {} /\ ROOTINO \in Dirs /\ Cwd \subseteq Dirs
    /\ IsFiniteSet(Dirs) /\ IsFiniteSet(Name) /\ IsFiniteSet(FD)
    /\ Tree \in [Dirs -> [Name -> INum \cup {0}]]
    /\ \A d \in Dirs \ {ROOTINO} : NLinks(Tree, d) = 1
    /\ \A f \in Files : NLinks(Tree, f) > 0
    /\ \A p \in Paths : p \in Seq(Name)

VARIABLES
    iCache,     \* the in-memory inodes
    freed,      \* inodes that inode_put() removed from disk
    file,       \* fTable.file
    fds,        \* the file of each descriptor of a caller, 0 for none
    dir,        \* the directories
    nlink,      \* links of each inode
    cwd,        \* cache entry of the caller's current directory
    op,         \* the operation that walks a path
    lost        \* history: references to each entry that walks took and forgot

vars == <<iCache, freed, file, fds, dir, nlink, cwd, op, lost>>

Entry == DOMAIN iCache
Slot == 1..NFILE
NoEntry == [refCount |-> 0, inum |-> 0, valid |-> FALSE, contents |-> 0]
NoFile == [refCount |-> 0, type |-> "FD_NONE", ip |-> 0]
Idle == [pc |-> "idle", call |-> "none", ip |-> 0, path |-> <<>>, name |-> 0, old |-> 0]

----------------------------------------------------------------------------
(* The inode cache *)

\* Mutant: the flags of a recycled entry stay.
inode_get_KeepFlags(c, inum) ==
    LET cached == {e \in Entry : c[e].refCount > 0 /\ c[e].inum = inum}
        empty == {e \in Entry : c[e].refCount = 0}
    IN  IF cached # {}
        THEN [c |-> [c EXCEPT ![Min(cached)].refCount = @ + 1], ip |-> Min(cached)]
        ELSE IF empty = {}
        THEN [c |-> c, ip |-> 0]
        ELSE [c |-> [c EXCEPT ![Min(empty)].refCount = 1, ![Min(empty)].inum = inum],
              ip |-> Min(empty)]

\* The entry of an inode, a new one if it has none; 0 for the null pointer.
inode_get(c, inum) ==
    LET cached == {e \in Entry : c[e].refCount > 0 /\ c[e].inum = inum}
        empty == {e \in Entry : c[e].refCount = 0}
    IN  IF cached # {}
        THEN [c |-> [c EXCEPT ![Min(cached)].refCount = @ + 1], ip |-> Min(cached)]
        ELSE IF empty = {}
        THEN [c |-> c, ip |-> 0]
        ELSE [c |-> [c EXCEPT ![Min(empty)] = [refCount |-> 1, inum |-> inum, valid |-> FALSE,
                                               contents |-> @.contents]],
              ip |-> Min(empty)]

inode_dup(c, e) == [c EXCEPT ![e].refCount = @ + 1]

\* Not in the source: locking an inode reads it from disk unless it is valid.
lock(c, e) == IF c[e].valid THEN c
              ELSE [c EXCEPT ![e] = [refCount |-> @.refCount, inum |-> @.inum, valid |-> TRUE,
                                     contents |-> @.inum]]

\* Mutant: the file is removed although others hold the inode.
inode_put_Any(s, e) ==
    LET last == s.c[e].valid /\ s.nlink[s.c[e].inum] = 0
    IN  [c |-> [s.c EXCEPT ![e] = [refCount |-> @.refCount - 1,
                                   inum |-> IF @.refCount = 1 THEN 0 ELSE @.inum,
                                   valid |-> @.valid /\ ~last,
                                   contents |-> @.contents]],
         freed |-> IF last THEN s.freed \cup {s.c[e].inum} ELSE s.freed,
         nlink |-> s.nlink]

\* Drop a reference; with the last one an inode without links is removed.  The
\* number that stays in an unused entry is not looked at any more.
inode_put(s, e) ==
    LET last == s.c[e].refCount = 1 /\ s.c[e].valid /\ s.nlink[s.c[e].inum] = 0
    IN  [c |-> [s.c EXCEPT ![e] = [refCount |-> @.refCount - 1,
                                   inum |-> IF @.refCount = 1 THEN 0 ELSE @.inum,
                                   valid |-> @.valid /\ ~last,
                                   contents |-> @.contents]],
         freed |-> IF last THEN s.freed \cup {s.c[e].inum} ELSE s.freed,
         nlink |-> s.nlink]

\* The entry of the inode that the directory in entry dp calls name.
dir_lookup(c, dp, name) ==
    LET inum == dir[c[dp].contents][name]
    IN  IF inum = 0 THEN [c |-> c, ip |-> 0, found |-> FALSE]
        ELSE [c |-> inode_get(c, inum).c, ip |-> inode_get(c, inum).ip, found |-> TRUE]

----------------------------------------------------------------------------
(* Walking a path *)

Init ==
    /\ dir = Tree
    /\ nlink = [n \in INum |-> IF n = ROOTINO THEN 1 ELSE NLinks(Tree, n)]
    /\ \E NINODE \in NINODEs, d \in Cwd :
           iCache = [e \in 1..NINODE |-> IF e = 1
                                         THEN [NoEntry EXCEPT !.refCount = 1, !.inum = d]
                                         ELSE NoEntry]
    /\ cwd = 1
    /\ freed = {}
    /\ file = [f \in Slot |-> NoFile]
    /\ fds = [d \in FD |-> 0]
    /\ op = Idle
    /\ lost = [e \in Entry |-> 0]

\* Walks go on until the bound on what they lose is reached.
CanWalk == \A e \in Entry : lost[e] < MaxLost

\* The start of name_x() for a system call: from the root or from the current
\* directory.  `old` is the file that a link shall be made to.
name_x(call, path, absolute, old) ==
    /\ op.pc = "idle" /\ CanWalk
    /\ LET r == IF absolute THEN inode_get(iCache, ROOTINO)
                ELSE [c |-> inode_dup(iCache, cwd), ip |-> cwd]
       IN  /\ iCache' = r.c
           /\ op' = [pc |-> IF r.ip = 0 THEN "null" ELSE "walk", call |-> call,
                     ip |-> r.ip, path |-> path, name |-> 0, old |-> old]
    /\ UNCHANGED <<freed, file, fds, dir, nlink, cwd, lost>>

\* What giving an entry back does to this cache and the disk.
put(c, e) == inode_put([c |-> c, freed |-> freed, nlink |-> nlink], e)

\* A round of the loop.  skipelem() has taken the first name off the path.  Where the
\* walk fails or goes on to the next inode it forgets the one it holds: the put is a comment.
name_x_step ==
    /\ op.pc = "walk" /\ op.path # <<>>
    /\ LET c == lock(iCache, op.ip)
           isDir == c[op.ip].contents \in Dirs
           last == op.call # "name_i" /\ Len(op.path) = 1
           name == Head(op.path)
           next == dir_lookup(c, op.ip, name)
       IN  \/ /\ ~isDir
              /\ iCache' = c
              /\ lost' = [lost EXCEPT ![op.ip] = @ + 1]
              /\ op' = Idle
           \/ /\ isDir /\ last
              /\ iCache' = c
              /\ op' = [op EXCEPT !.pc = "parent", !.name = name, !.path = <<>>]
              /\ UNCHANGED lost
           \/ /\ isDir /\ ~last
              /\ IF next.found /\ next.ip = 0
                 THEN /\ iCache' = c
                      /\ op' = [op EXCEPT !.pc = "null"]
                      /\ UNCHANGED lost
                 ELSE /\ iCache' = next.c
                      /\ lost' = [lost EXCEPT ![op.ip] = @ + 1]
                      /\ op' = IF next.found
                               THEN [op EXCEPT !.ip = next.ip, !.name = name, !.path = Tail(@)]
                               ELSE Idle
    /\ UNCHANGED <<freed, file, fds, dir, nlink, cwd>>

\* Nothing is left of the path: skipelem() returns 9, not 0, and the loop goes on
\* with 9 for a path.
name_x_wild ==
    /\ op.pc = "walk" /\ op.path = <<>>
    /\ op' = [op EXCEPT !.pc = "wild"]
    /\ UNCHANGED <<iCache, freed, file, fds, dir, nlink, cwd, lost>>

----------------------------------------------------------------------------
(* System calls that go on from name_iparent(); the callers are not in the   *)
(* source, the functions they call are.                                      *)

\* file_alloc: a file that nobody uses, 0 if there is none.
file_alloc == IF \E f \in Slot : file[f].refCount = 0
              THEN Min({f \in Slot : file[f].refCount = 0}) ELSE 0

open(fd) ==
    /\ op.pc = "parent" /\ op.call = "open" /\ fds[fd] = 0
    /\ LET r == dir_lookup(iCache, op.ip, op.name)
           f == file_alloc
           s == IF r.found /\ f = 0 THEN inode_put(put(r.c, op.ip), r.ip) ELSE put(r.c, op.ip)
       IN  IF r.found /\ r.ip = 0
           THEN /\ op' = [op EXCEPT !.pc = "null"]
                /\ UNCHANGED <<iCache, freed, file, fds>>
           ELSE /\ iCache' = s.c /\ freed' = s.freed
                /\ op' = Idle
                /\ IF r.found /\ f # 0
                   THEN /\ file' = [file EXCEPT ![f] = [refCount |-> 1, type |-> "FD_INODE",
                                                        ip |-> r.ip]]
                        /\ fds' = [fds EXCEPT ![fd] = f]
                   ELSE UNCHANGED <<file, fds>>
    /\ UNCHANGED <<dir, nlink, cwd, lost>>

\* Mutant: dir_link() does not give the inode it finds back.
link_NoPut ==
    /\ op.pc = "parent" /\ op.call = "link"
    /\ LET r == dir_lookup(iCache, op.ip, op.name)
           inum == iCache[file[op.old].ip].inum
           s == put(r.c, op.ip)
       IN  IF r.found /\ r.ip = 0
           THEN /\ op' = [op EXCEPT !.pc = "null"]
                /\ UNCHANGED <<iCache, freed, dir, nlink>>
           ELSE /\ iCache' = s.c /\ freed' = s.freed
                /\ op' = Idle
                /\ IF r.found \/ nlink[inum] \in {0, MaxLink}
                   THEN UNCHANGED <<dir, nlink>>
                   ELSE /\ dir' = [dir EXCEPT ![iCache[op.ip].contents][op.name] = inum]
                        /\ nlink' = [nlink EXCEPT ![inum] = @ + 1]
    /\ UNCHANGED <<file, fds, cwd, lost>>

\* link: dir_link() looks the name up first and gives the inode it finds back.
link ==
    /\ op.pc = "parent" /\ op.call = "link"
    /\ LET r == dir_lookup(iCache, op.ip, op.name)
           inum == iCache[file[op.old].ip].inum
           s == IF r.found THEN inode_put(put(r.c, r.ip), op.ip) ELSE put(r.c, op.ip)
       IN  IF r.found /\ r.ip = 0
           THEN /\ op' = [op EXCEPT !.pc = "null"]
                /\ UNCHANGED <<iCache, freed, dir, nlink>>
           ELSE /\ iCache' = s.c /\ freed' = s.freed
                /\ op' = Idle
                /\ IF r.found \/ nlink[inum] \in {0, MaxLink}
                   THEN UNCHANGED <<dir, nlink>>
                   ELSE /\ dir' = [dir EXCEPT ![iCache[op.ip].contents][op.name] = inum]
                        /\ nlink' = [nlink EXCEPT ![inum] = @ + 1]
    /\ UNCHANGED <<file, fds, cwd, lost>>

unlink ==
    /\ op.pc = "parent" /\ op.call = "unlink"
    /\ LET r == dir_lookup(iCache, op.ip, op.name)
           inum == dir[iCache[op.ip].contents][op.name]
       IN  IF r.found /\ r.ip = 0
           THEN /\ op' = [op EXCEPT !.pc = "null"]
                /\ UNCHANGED <<iCache, freed, dir, nlink>>
           ELSE /\ op' = Idle
                /\ IF inum \notin Files
                   THEN LET s == IF r.found THEN inode_put(put(r.c, r.ip), op.ip)
                                 ELSE put(r.c, op.ip)
                        IN  /\ iCache' = s.c /\ freed' = s.freed
                            /\ UNCHANGED <<dir, nlink>>
                   ELSE LET links == [nlink EXCEPT ![inum] = @ - 1]
                            s == inode_put([c |-> lock(r.c, r.ip), freed |-> freed,
                                            nlink |-> links], r.ip)
                        IN  /\ nlink' = links
                            /\ dir' = [dir EXCEPT ![iCache[op.ip].contents][op.name] = 0]
                            /\ iCache' = inode_put(s, op.ip).c
                            /\ freed' = inode_put(s, op.ip).freed
    /\ UNCHANGED <<file, fds, cwd, lost>>

----------------------------------------------------------------------------
(* Files *)

file_dup(d, fd) ==
    /\ op.pc = "idle" /\ fds[d] # 0 /\ fds[fd] = 0
    /\ file' = [file EXCEPT ![fds[d]].refCount = @ + 1]
    /\ fds' = [fds EXCEPT ![fd] = fds[d]]
    /\ UNCHANGED <<iCache, freed, dir, nlink, cwd, op, lost>>

\* Mutant: a file that was duplicated is closed with its first descriptor.
file_close_First(d) ==
    /\ op.pc = "idle" /\ fds[d] # 0
    /\ LET f == file[fds[d]]
           s == put(iCache, f.ip)
       IN  /\ file' = [file EXCEPT ![fds[d]] = NoFile]
           /\ iCache' = s.c /\ freed' = s.freed
    /\ fds' = [fds EXCEPT ![d] = 0]
    /\ UNCHANGED <<dir, nlink, cwd, op, lost>>

\* Close a descriptor; with the last one the file gives its inode back.  The
\* pointer that stays in the table is not looked at any more.
file_close(d) ==
    /\ op.pc = "idle" /\ fds[d] # 0
    /\ LET f == file[fds[d]]
       IN  IF f.refCount > 1
           THEN /\ file' = [file EXCEPT ![fds[d]].refCount = @ - 1]
                /\ UNCHANGED <<iCache, freed>>
           ELSE /\ file' = [file EXCEPT ![fds[d]] = NoFile]
                /\ iCache' = put(iCache, f.ip).c /\ freed' = put(iCache, f.ip).freed
    /\ fds' = [fds EXCEPT ![d] = 0]
    /\ UNCHANGED <<dir, nlink, cwd, op, lost>>

\* After a write through the null pointer and with a wild path nothing is known any
\* more; and the model ends where its bound does.
stopped == (op.pc \in {"null", "wild"} \/ ~CanWalk) /\ UNCHANGED vars

Next ==
    \/ \E path \in Paths, absolute \in BOOLEAN :
           \/ \E call \in {"name_i", "unlink"} : name_x(call, path, absolute, 0)
           \/ (\E fd \in FD : fds[fd] = 0) /\ name_x("open", path, absolute, 0)
           \/ \E d \in FD : fds[d] # 0 /\ name_x("link", path, absolute, fds[d])
    \/ name_x_step
    \/ name_x_wild
    \/ \E fd \in FD : open(fd)
    \/ link
    \/ unlink
    \/ \E d, fd \in FD : file_dup(d, fd)
    \/ \E d \in FD : file_close(d)
    \/ stopped

Spec == Init /\ [][Next]_vars

----------------------------------------------------------------------------
(* Properties *)

\* Entries and files refer to each other within their tables, and no count is
\* negative.
TypeOK ==
    /\ iCache \in [Entry -> [refCount : Nat, inum : INum \cup {0}, valid : BOOLEAN,
                             contents : INum \cup {0}]]
    /\ freed \subseteq INum
    /\ file \in [Slot -> [refCount : Nat, type : {"FD_NONE", "FD_INODE"}, ip : Entry \cup {0}]]
    /\ fds \in [FD -> Slot \cup {0}]
    /\ op.pc \in {"idle", "walk", "parent", "wild", "null"}
    /\ lost \in [Entry -> Nat]

\* Every reference to an inode is counted once: a file that is open, the current
\* directory and the walk along a path hold one each, on every path through name_x(),
\* dir_link() and file_close(), the failing ones too.  The rest are those that name_x()
\* forgot: every directory that a walk went through or failed in has one, for ever, and
\* nothing else in the code loses one or gives one back twice.
INodeRefs ==
    /\ TypeOK
    /\ op.pc # "null" =>
        \A e \in Entry :
            iCache[e].refCount = Cardinality({f \in Slot : file[f].type = "FD_INODE"
                                                           /\ file[f].ip = e})
                                 + (IF cwd = e THEN 1 ELSE 0)
                                 + (IF op.ip = e THEN 1 ELSE 0)
                                 + lost[e]

\* A file is in use as long as a descriptor refers to it, and its inode is held.
FileRefs ==
    \A f \in Slot :
        /\ file[f].refCount = Cardinality({d \in FD : fds[d] = f})
        /\ file[f].refCount > 0 <=> file[f].type = "FD_INODE"

\* No inode has two entries, which would be changed apart from each other, and a
\* recycled entry never shows what it held for another inode.
CacheCoherent ==
    \A e \in Entry : iCache[e].refCount > 0 =>
        /\ iCache[e].valid => iCache[e].contents = iCache[e].inum
        /\ \A g \in Entry : iCache[g].refCount > 0 /\ iCache[g].inum = iCache[e].inum => g = e

\* A file is removed from disk when its last link and its last reference are gone,
\* whichever goes last, and not before.  A file that a walk took for a directory has
\* a reference that does not go.
RemovedWhenUnused ==
    op.pc # "null" =>
        freed = {n \in INum : /\ nlink[n] = 0
                              /\ \A e \in Entry : iCache[e].refCount > 0 => iCache[e].inum # n}
=============================================================================
