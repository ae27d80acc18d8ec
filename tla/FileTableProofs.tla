-------------------------- MODULE FileTableProofs --------------------------
(***************************************************************************)
(* Proofs about the references of the file system plugin, for every tree,  *)
(* every size of the inode cache and of the table of files, and any number *)
(* of descriptors: every reference is counted once, those that walks lose  *)
(* included, no inode has two entries, and a file is removed exactly when  *)
(* it has neither links nor references.                                    *)
(***************************************************************************)
EXTENDS FileTable, FiniteSetTheorems, TLAPS

INodeEntry == [refCount : Nat, inum : INum \cup {0}, valid : BOOLEAN, contents : INum \cup {0}]

Cache == [Entry -> INodeEntry]

\* An entry in use is for an inode, shows this inode if it was read, and is the
\* only one for it.
Coherent(c) ==
    \A e \in Entry : c[e].refCount > 0 =>
        /\ c[e].inum # 0
        /\ c[e].valid => c[e].contents = c[e].inum
        /\ \A g \in Entry : c[g].refCount > 0 /\ c[g].inum = c[e].inum => g = e

Unused(c, n) == \A e \in Entry : c[e].refCount > 0 => c[e].inum # n

\* The disk has lost the inodes without links and holders; one without links that
\* is still held was read, so that inode_put() will see that it is to be removed.
Removed(c, gone, links) ==
    /\ gone = {n \in INum : links[n] = 0 /\ Unused(c, n)}
    /\ \A e \in Entry : c[e].refCount > 0 /\ links[c[e].inum] = 0 => c[e].valid

\* The references to an entry that files, the current directory and a walk hold, and
\* those that walks forgot.
FilesOf(e) == {f \in Slot : file[f].type = "FD_INODE" /\ file[f].ip = e}
Holders(e) == Cardinality(FilesOf(e)) + (IF cwd = e THEN 1 ELSE 0) + (IF op.ip = e THEN 1 ELSE 0)
              + lost[e]

\* The entries of directories that name an inode.
LinksTo(t, inum) == {e \in Dirs \X Name : t[e[1]][e[2]] = inum}

\* The links of a file are counted, and a directory is never without one.
LinkInv ==
    /\ dir \in [Dirs -> [Name -> INum \cup {0}]]
    /\ nlink \in [INum -> Nat]
    /\ \A f \in Files : nlink[f] = NLinks(dir, f)
    /\ \A d \in Dirs : nlink[d] > 0

\* The operation in progress: where its walk is, and that a file shall be linked
\* that is open.
OpInv ==
    /\ op \in [pc : {"idle", "walk", "parent", "wild", "null"},
               call : {"none", "name_i", "open", "link", "unlink"}, ip : Entry \cup {0},
               path : Seq(Name), name : Name \cup {0}, old : Slot \cup {0}]
    /\ op.pc = "idle" => op.ip = 0 /\ op.call = "none"
    /\ op.pc \in {"walk", "parent", "wild"} => op.ip # 0
    /\ op.pc = "parent" => /\ iCache[op.ip].valid
                           /\ iCache[op.ip].contents \in Dirs
                           /\ op.name \in Name
    /\ op.call = "link" => op.old # 0 /\ file[op.old].refCount > 0

CacheInv == Entry \subseteq Nat \ {0} /\ cwd \in Entry /\ Coherent(iCache)

FileInv == \A f \in Slot : file[f].type = "FD_INODE" => file[f].ip # 0

FileTableInv ==
    /\ TypeOK /\ CacheInv /\ FileInv /\ OpInv /\ LinkInv
    /\ FileRefs
    /\ op.pc # "null" => /\ \A e \in Entry : iCache[e].refCount = Holders(e)
                         /\ Removed(iCache, freed, nlink)

----------------------------------------------------------------------------
(* The inode cache *)

\* What holds of a cache c next to the disk: an invariant of the caches that an
\* operation makes on its way as well.
CacheOK(c, gone, links) == c \in Cache /\ Coherent(c) /\ Removed(c, gone, links)

LEMMA MinOf ==
    ASSUME NEW S, S \subseteq Nat, S # {}
    PROVE  Min(S) \in S
<1>1. PICK m \in S : \A y \in S : m <= y
  <2> DEFINE R == OpToRel(<, Nat)
  <2>1. IsWellFoundedOn(R, Nat)
    BY NatLessThanWellFounded
  <2>2. \A x, y \in Nat : <<x, y>> \in R <=> x < y
    BY DEF OpToRel
  <2> HIDE DEF R
  <2>3. PICK m \in S : \A y \in S : ~(<<y, m>> \in R)
    BY <2>1, WFMin
  <2>4. m \in Nat /\ \A y \in S : y \in Nat /\ ~(y < m)
    BY <2>2, <2>3
  <2> QED BY <2>4
<1> QED BY <1>1 DEF Min

\* inode_get(): a reference more to the one entry that the inode has now, nothing
\* else in use is touched.
LEMMA GetEntry ==
    ASSUME Entry \subseteq Nat \ {0}, NEW c \in Cache, Coherent(c), NEW inum \in INum,
           inode_get(c, inum).ip # 0
    PROVE  LET r == inode_get(c, inum)
           IN  /\ r.ip \in Entry
               /\ r.c \in Cache
               /\ r.c[r.ip].inum = inum
               /\ \A e \in Entry :
                      /\ r.c[e].refCount = c[e].refCount + (IF e = r.ip THEN 1 ELSE 0)
                      /\ c[e].refCount > 0 => /\ r.c[e].inum = c[e].inum
                                              /\ r.c[e].valid = c[e].valid
                                              /\ r.c[e].contents = c[e].contents
               /\ Coherent(r.c)
<1> DEFINE cached == {e \in Entry : c[e].refCount > 0 /\ c[e].inum = inum}
           empty == {e \in Entry : c[e].refCount = 0}
           m == Min(cached)
           z == Min(empty)
           r == inode_get(c, inum)
<1>0. inum # 0 /\ 0 \notin INum /\ \A e \in Entry : c[e] \in INodeEntry
  BY FileTableAssumption DEF Cache
<1>1. CASE cached # {}
  <2>1. m \in cached
    BY <1>1, MinOf
  <2>2. r = [c |-> [c EXCEPT ![m].refCount = @ + 1], ip |-> m]
    BY <1>1 DEF inode_get
  <2> HIDE DEF m, r
  <2>3. /\ r.ip = m /\ m \in Entry
        /\ r.c \in Cache
        /\ \A e \in Entry : /\ r.c[e].inum = c[e].inum
                            /\ r.c[e].valid = c[e].valid
                            /\ r.c[e].contents = c[e].contents
                            /\ r.c[e].refCount = c[e].refCount + (IF e = m THEN 1 ELSE 0)
    BY <2>1, <2>2 DEF Cache, INodeEntry
  <2>4. Coherent(r.c)
    BY <1>0, <2>1, <2>3 DEF Coherent, INodeEntry
  <2> QED BY <2>1, <2>3, <2>4 DEF r
<1>2. CASE cached = {}
  <2>1. empty # {}
    BY <1>2 DEF inode_get
  <2>2. z \in empty
    BY <2>1, MinOf
  <2>3. r = [c |-> [c EXCEPT ![z] = [refCount |-> 1, inum |-> inum, valid |-> FALSE,
                                     contents |-> @.contents]], ip |-> z]
    BY <1>2, <2>1 DEF inode_get
  <2> HIDE DEF z, r
  <2>4. /\ r.ip = z /\ z \in Entry /\ r.c \in Cache
        /\ r.c[z] = [refCount |-> 1, inum |-> inum, valid |-> FALSE, contents |-> c[z].contents]
        /\ \A e \in Entry : e # z => r.c[e] = c[e]
    BY <1>0, <2>2, <2>3 DEF Cache, INodeEntry
  <2>5. Coherent(r.c)
    BY <1>0, <1>2, <2>4 DEF Coherent, INodeEntry
  <2>6. \A e \in Entry : r.c[e].refCount = c[e].refCount + (IF e = r.ip THEN 1 ELSE 0)
    BY <1>0, <2>2, <2>4 DEF INodeEntry
  <2> QED BY <2>2, <2>4, <2>5, <2>6 DEF r
<1> QED BY <1>1, <1>2

\* A cache that get made: the inode it got has links, so nothing is to be removed
\* that was not, or is not any more.
LEMMA GetKeeps ==
    ASSUME Entry \subseteq Nat \ {0}, NEW c, NEW gone, NEW links \in [INum -> Nat],
           CacheOK(c, gone, links), NEW inum \in INum, links[inum] > 0,
           inode_get(c, inum).ip # 0
    PROVE  CacheOK(inode_get(c, inum).c, gone, links)
<1> DEFINE r == inode_get(c, inum)
<1>1. c \in Cache /\ Coherent(c) /\ Removed(c, gone, links)
  BY DEF CacheOK
<1>2. /\ r.ip \in Entry /\ r.c \in Cache /\ r.c[r.ip].inum = inum
      /\ \A e \in Entry :
             /\ r.c[e].refCount = c[e].refCount + (IF e = r.ip THEN 1 ELSE 0)
             /\ c[e].refCount > 0 => /\ r.c[e].inum = c[e].inum
                                     /\ r.c[e].valid = c[e].valid
      /\ Coherent(r.c)
  BY <1>1, GetEntry
<1>3. \A e \in Entry : c[e].refCount \in Nat
  BY <1>1 DEF Cache, INodeEntry
<1> HIDE DEF r
<1>4. \A n \in INum : links[n] = 0 => (Unused(c, n) <=> Unused(r.c, n))
  BY <1>2, <1>3 DEF Unused
<1>5. \A e \in Entry : r.c[e].refCount > 0 /\ links[r.c[e].inum] = 0 => c[e].refCount > 0
  BY <1>2, <1>3
<1>6. Removed(r.c, gone, links)
  BY <1>1, <1>2, <1>4, <1>5 DEF Removed
<1> QED BY <1>2, <1>6 DEF CacheOK, r

\* inode_dup()
LEMMA DupKeeps ==
    ASSUME NEW c, NEW gone, NEW links, CacheOK(c, gone, links), NEW e \in Entry,
           c[e].refCount > 0
    PROVE  /\ CacheOK(inode_dup(c, e), gone, links)
           /\ \A g \in Entry : inode_dup(c, e)[g].refCount
                                   = c[g].refCount + (IF g = e THEN 1 ELSE 0)
<1> DEFINE d == inode_dup(c, e)
<1>1. c \in Cache /\ Coherent(c) /\ Removed(c, gone, links)
  BY DEF CacheOK
<1>2. /\ d \in Cache
      /\ \A g \in Entry : /\ d[g].refCount = c[g].refCount + (IF g = e THEN 1 ELSE 0)
                          /\ d[g].inum = c[g].inum
                          /\ d[g].valid = c[g].valid
                          /\ d[g].contents = c[g].contents
      /\ \A g \in Entry : c[g].refCount \in Nat
  BY <1>1 DEF inode_dup, Cache, INodeEntry
<1> HIDE DEF d
<1>3. \A g \in Entry : d[g].refCount > 0 <=> c[g].refCount > 0
  BY <1>2
<1>4. Coherent(d) /\ Removed(d, gone, links)
  BY <1>1, <1>2, <1>3 DEF Coherent, Removed, Unused
<1> QED BY <1>2, <1>4 DEF CacheOK, d

\* lock(): the entry shows its inode afterwards.
LEMMA LockKeeps ==
    ASSUME NEW c \in Cache, Coherent(c), NEW e \in Entry, c[e].refCount > 0
    PROVE  /\ lock(c, e) \in Cache /\ Coherent(lock(c, e))
           /\ \A g \in Entry : /\ lock(c, e)[g].refCount = c[g].refCount
                               /\ lock(c, e)[g].inum = c[g].inum
                               /\ g # e => lock(c, e)[g] = c[g]
           /\ lock(c, e)[e].valid /\ lock(c, e)[e].contents = c[e].inum
           /\ \A gone, links : Removed(c, gone, links) => Removed(lock(c, e), gone, links)
<1> DEFINE d == lock(c, e)
<1>1. /\ d \in Cache
      /\ \A g \in Entry : /\ d[g].refCount = c[g].refCount
                          /\ d[g].inum = c[g].inum
                          /\ g # e => d[g] = c[g]
      /\ d[e].valid /\ d[e].contents = c[e].inum
  BY DEF lock, Cache, INodeEntry, Coherent
<1> HIDE DEF d
<1>2. Coherent(d)
  BY <1>1 DEF Coherent
<1>3. \A gone, links : Removed(c, gone, links) => Removed(d, gone, links)
  BY <1>1 DEF Removed, Unused
<1> QED BY <1>1, <1>2, <1>3 DEF d

\* inode_put(): a reference less, and with the last one the entry is free and the
\* inode removed if it has no links.
LEMMA PutKeeps ==
    ASSUME NEW c, NEW gone, NEW links \in [INum -> Nat], CacheOK(c, gone, links),
           NEW e \in Entry, c[e].refCount > 0
    PROVE  LET s == inode_put([c |-> c, freed |-> gone, nlink |-> links], e)
           IN  /\ s = [c |-> s.c, freed |-> s.freed, nlink |-> links]
               /\ CacheOK(s.c, s.freed, links)
               /\ \A g \in Entry : s.c[g].refCount = c[g].refCount - (IF g = e THEN 1 ELSE 0)
<1> DEFINE s == inode_put([c |-> c, freed |-> gone, nlink |-> links], e)
           last == c[e].refCount = 1 /\ c[e].valid /\ links[c[e].inum] = 0
<1>1. c \in Cache /\ Coherent(c) /\ Removed(c, gone, links)
  BY DEF CacheOK
<1>2. /\ c[e] \in INodeEntry /\ \A g \in Entry : c[g].refCount \in Nat
      /\ c[e].inum \in INum
  BY <1>1 DEF Cache, INodeEntry, Coherent
<1>3. /\ s = [c |-> s.c, freed |-> s.freed, nlink |-> links]
      /\ s.c = [c EXCEPT ![e] = [refCount |-> c[e].refCount - 1,
                                 inum |-> IF c[e].refCount = 1 THEN 0 ELSE c[e].inum,
                                 valid |-> c[e].valid /\ ~last,
                                 contents |-> c[e].contents]]
      /\ s.freed = IF last THEN gone \cup {c[e].inum} ELSE gone
  BY DEF inode_put
<1> HIDE DEF s
<1>4. /\ \A g \in Entry : g # e => s.c[g] = c[g]
      /\ s.c[e].refCount = c[e].refCount - 1
      /\ c[e].refCount > 1 => /\ s.c[e].inum = c[e].inum
                              /\ s.c[e].valid = c[e].valid
                              /\ s.c[e].contents = c[e].contents
  BY <1>1, <1>2, <1>3 DEF Cache, INodeEntry
<1>5. s.c \in Cache
  BY <1>1, <1>2, <1>3 DEF Cache, INodeEntry
<1>6. \A g \in Entry : s.c[g].refCount > 0 <=> c[g].refCount > 0 /\ (g = e => c[e].refCount > 1)
  BY <1>2, <1>4
<1>7. Coherent(s.c)
  BY <1>1, <1>4, <1>6 DEF Coherent
<1>8. \A g \in Entry : s.c[g].refCount > 0 => s.c[g].inum = c[g].inum /\ s.c[g].valid = c[g].valid
  BY <1>4, <1>6
<1>9. s.freed = {n \in INum : links[n] = 0 /\ Unused(s.c, n)}
  <2>1. gone = {n \in INum : links[n] = 0 /\ Unused(c, n)}
    BY <1>1 DEF Removed
  <2>2. CASE c[e].refCount > 1
    <3>1. s.freed = gone
      BY <1>2, <1>3, <2>2
    <3>2. \A n \in INum : Unused(s.c, n) <=> Unused(c, n)
      BY <1>6, <1>8, <2>2 DEF Unused
    <3> QED BY <2>1, <3>1, <3>2
  <2>3. CASE c[e].refCount = 1
    <3>1. \A n \in INum : Unused(s.c, n) <=> Unused(c, n) \/ n = c[e].inum
      BY <1>1, <1>2, <1>6, <1>8, <2>3 DEF Unused, Coherent
    <3>2. last <=> links[c[e].inum] = 0
      BY <1>1, <2>3 DEF Removed
    <3> QED BY <1>2, <1>3, <2>1, <3>1, <3>2
  <2> QED BY <1>2, <2>2, <2>3
<1>10. Removed(s.c, s.freed, links)
  BY <1>1, <1>6, <1>8, <1>9 DEF Removed
<1>11. \A g \in Entry : s.c[g].refCount = c[g].refCount - (IF g = e THEN 1 ELSE 0)
  BY <1>2, <1>4
<1> QED BY <1>3, <1>5, <1>7, <1>10, <1>11 DEF CacheOK, s

----------------------------------------------------------------------------
(* Links *)

LEMMA LinkSets ==
    ASSUME NEW t \in [Dirs -> [Name -> INum \cup {0}]], NEW f
    PROVE  /\ IsFiniteSet(LinksTo(t, f))
           /\ NLinks(t, f) = Cardinality(LinksTo(t, f))
           /\ NLinks(t, f) \in Nat
           /\ \A d \in Dirs, n \in Name : t[d][n] = f => NLinks(t, f) > 0
<1>1. IsFiniteSet(Dirs \X Name)
  BY FileTableAssumption, FS_Product
<1>2. IsFiniteSet(LinksTo(t, f))
  BY <1>1, FS_Subset DEF LinksTo
<1>3. NLinks(t, f) = Cardinality(LinksTo(t, f))
  BY DEF NLinks, LinksTo
<1>4. NLinks(t, f) \in Nat
  BY <1>2, <1>3, FS_CardinalityType
<1>5. ASSUME NEW d \in Dirs, NEW n \in Name, t[d][n] = f PROVE NLinks(t, f) > 0
  <2>1. <<d, n>> \in LinksTo(t, f)
    BY <1>5 DEF LinksTo
  <2>2. Cardinality(LinksTo(t, f)) # 0
    BY <1>2, <2>1, FS_EmptySet
  <2> QED BY <1>3, <1>4, <2>2
<1> QED BY <1>2, <1>3, <1>4, <1>5

\* u is t with an entry of a directory written.
Written(t, d, n, v, u) ==
    /\ t \in [Dirs -> [Name -> INum \cup {0}]] /\ u \in [Dirs -> [Name -> INum \cup {0}]]
    /\ d \in Dirs /\ n \in Name
    /\ \A a \in Dirs, b \in Name : u[a][b] = IF a = d /\ b = n THEN v ELSE t[a][b]

\* Writing an entry of a directory changes the count of the inode it named and of
\* the one it names now.
LEMMA LinkChange ==
    ASSUME NEW t, NEW d, NEW n, NEW v, NEW f, NEW u, Written(t, d, n, v, u)
    PROVE  /\ t[d][n] # f /\ v = f => NLinks(u, f) = NLinks(t, f) + 1
           /\ t[d][n] = f /\ v # f => NLinks(u, f) = NLinks(t, f) - 1
           /\ t[d][n] # f /\ v # f => NLinks(u, f) = NLinks(t, f)
<1> DEFINE x == <<d, n>>
<1>3. /\ LinksTo(u, f) \ {x} = LinksTo(t, f) \ {x}
      /\ x \in LinksTo(u, f) <=> v = f
      /\ x \in LinksTo(t, f) <=> t[d][n] = f
  BY DEF LinksTo, Written
<1>4. /\ IsFiniteSet(LinksTo(t, f)) /\ NLinks(t, f) = Cardinality(LinksTo(t, f))
      /\ IsFiniteSet(LinksTo(u, f)) /\ NLinks(u, f) = Cardinality(LinksTo(u, f))
      /\ NLinks(t, f) \in Nat /\ NLinks(u, f) \in Nat
  BY LinkSets DEF Written
<1> DEFINE A == LinksTo(t, f)
           B == LinksTo(u, f)
<1> HIDE DEF x, A, B
<1>5. Cardinality(A \ {x}) = IF x \in A THEN Cardinality(A) - 1 ELSE Cardinality(A)
  BY <1>4, FS_RemoveElement DEF A
<1>6. Cardinality(B \ {x}) = IF x \in B THEN Cardinality(B) - 1 ELSE Cardinality(B)
  BY <1>4, FS_RemoveElement DEF B
<1>7. /\ t[d][n] # f /\ v = f => NLinks(u, f) = NLinks(t, f) + 1
      /\ t[d][n] = f /\ v # f => NLinks(u, f) = NLinks(t, f) - 1
      /\ t[d][n] # f /\ v # f => NLinks(u, f) = NLinks(t, f)
  <2>1. /\ A \ {x} = B \ {x} /\ (x \in B <=> v = f) /\ (x \in A <=> t[d][n] = f)
    BY <1>3 DEF A, B
  <2>2. /\ NLinks(t, f) = Cardinality(A) /\ NLinks(u, f) = Cardinality(B)
        /\ NLinks(t, f) \in Nat /\ NLinks(u, f) \in Nat
    BY <1>4 DEF A, B
  <2>3. Cardinality(A \ {x}) = Cardinality(B \ {x})
    BY <2>1
  <2>4. (IF t[d][n] = f THEN NLinks(t, f) - 1 ELSE NLinks(t, f))
            = IF v = f THEN NLinks(u, f) - 1 ELSE NLinks(u, f)
    BY <1>5, <1>6, <2>1, <2>2, <2>3
  <2> QED BY <2>2, <2>4
<1> QED BY <1>7

----------------------------------------------------------------------------
(* What the invariant says to an operation *)

LEMMA SlotsFinite == IsFiniteSet(Slot)
<1>1. NFILE \in Int /\ 1 \in Int
  BY FileTableAssumption
<1>2. IsFiniteSet(1..NFILE)
  BY <1>1, FS_Interval
<1> QED BY <1>2 DEF Slot

LEMMA FilesCounted ==
    ASSUME NEW e
    PROVE  /\ IsFiniteSet(FilesOf(e)) /\ Cardinality(FilesOf(e)) \in Nat
           /\ \A f \in Slot : file[f].type = "FD_INODE" /\ file[f].ip = e =>
                  Cardinality(FilesOf(e)) > 0
<1>1. IsFiniteSet(Slot)
  BY SlotsFinite
<1>2. IsFiniteSet(FilesOf(e))
  BY <1>1, FS_Subset DEF FilesOf
<1>3. Cardinality(FilesOf(e)) \in Nat
  BY <1>2, FS_CardinalityType
<1>4. FilesOf(e) # {} => Cardinality(FilesOf(e)) # 0
  BY <1>2, FS_EmptySet
<1>5. \A f \in Slot : file[f].type = "FD_INODE" /\ file[f].ip = e => FilesOf(e) # {}
  BY DEF FilesOf
<1> QED BY <1>2, <1>3, <1>4, <1>5

\* Before an operation: the cache and the disk agree, and what the plugin refers to
\* is held.
LEMMA Before ==
    ASSUME FileTableInv, op.pc # "null"
    PROVE  /\ CacheOK(iCache, freed, nlink) /\ Entry \subseteq Nat \ {0}
           /\ \A e \in Entry : iCache[e].refCount \in Nat /\ iCache[e].refCount = Holders(e)
           /\ cwd \in Entry /\ iCache[cwd].refCount > 0
           /\ op.pc \in {"walk", "parent", "wild"} =>
                  op.ip \in Entry /\ iCache[op.ip].refCount > 0
           /\ \A f \in Slot : file[f].refCount > 0 =>
                  file[f].ip \in Entry /\ iCache[file[f].ip].refCount > 0
<1>1. CacheOK(iCache, freed, nlink) /\ Entry \subseteq Nat \ {0} /\ cwd \in Entry
  BY DEF FileTableInv, CacheInv, CacheOK, TypeOK, Cache, INodeEntry
<1>2. \A e \in Entry : iCache[e].refCount \in Nat /\ iCache[e].refCount = Holders(e)
  BY DEF FileTableInv, TypeOK
<1>3. \A e \in Entry : e = cwd \/ e = op.ip => Holders(e) > 0
  BY FilesCounted DEF Holders, FileTableInv, TypeOK
<1>4. ASSUME NEW f \in Slot, file[f].refCount > 0
      PROVE  file[f].ip \in Entry /\ iCache[file[f].ip].refCount > 0
  <2>1. file[f].type = "FD_INODE" /\ file[f].ip \in Entry
    BY <1>4 DEF FileTableInv, FileRefs, FileInv, TypeOK
  <2>2. Cardinality(FilesOf(file[f].ip)) > 0 /\ Cardinality(FilesOf(file[f].ip)) \in Nat
    BY <2>1, FilesCounted
  <2>3. Holders(file[f].ip) > 0
    BY <2>1, <2>2 DEF Holders, FileTableInv, TypeOK
  <2> QED BY <1>2, <2>1, <2>3
<1>5. op.pc \in {"walk", "parent", "wild"} => op.ip \in Entry
  BY DEF FileTableInv, OpInv
<1> QED BY <1>1, <1>2, <1>3, <1>4, <1>5

\* A name that is found is that of an inode with links, of which a reference is
\* taken.
LookedUp(c, dp, name) ==
    LET r == dir_lookup(c, dp, name)
        inum == dir[c[dp].contents][name]
    IN  /\ r.found \in BOOLEAN /\ (r.found <=> inum # 0)
        /\ ~r.found => r.c = c
        /\ r.found => inum \in INum /\ nlink[inum] > 0
        /\ r.found /\ r.ip # 0 =>
              /\ r.ip \in Entry /\ r.c[r.ip].inum = inum
              /\ CacheOK(r.c, freed, nlink)
              /\ \A e \in Entry :
                     /\ r.c[e].refCount = c[e].refCount + (IF e = r.ip THEN 1 ELSE 0)
                     /\ c[e].refCount > 0 => r.c[e].inum = c[e].inum

LEMMA Lookup ==
    ASSUME Entry \subseteq Nat \ {0}, LinkInv, NEW c, CacheOK(c, freed, nlink), NEW dp \in Entry,
           c[dp].contents \in Dirs, NEW name \in Name
    PROVE  LookedUp(c, dp, name)
<1> DEFINE r == dir_lookup(c, dp, name)
           inum == dir[c[dp].contents][name]
           g == inode_get(c, inum)
<1>1. r = IF inum = 0 THEN [c |-> c, ip |-> 0, found |-> FALSE]
          ELSE [c |-> g.c, ip |-> g.ip, found |-> TRUE]
  BY DEF dir_lookup
<1>2. inum \in INum \cup {0} /\ nlink \in [INum -> Nat]
  BY DEF LinkInv
<1>3. inum \in INum => nlink[inum] > 0
  BY LinkSets DEF LinkInv, INum
<1>4. ASSUME inum # 0, g.ip # 0
      PROVE  /\ g.ip \in Entry /\ g.c[g.ip].inum = inum
             /\ CacheOK(g.c, freed, nlink)
             /\ \A e \in Entry :
                    /\ g.c[e].refCount = c[e].refCount + (IF e = g.ip THEN 1 ELSE 0)
                    /\ c[e].refCount > 0 => g.c[e].inum = c[e].inum
  <2>1. c \in Cache /\ Coherent(c)
    BY DEF CacheOK
  <2>2. CacheOK(g.c, freed, nlink)
    BY <1>2, <1>3, <1>4, GetKeeps
  <2>3. inum \in INum
    BY <1>2, <1>4
  <2> HIDE DEF inum
  <2> QED BY <1>4, <2>1, <2>2, <2>3, GetEntry
<1> HIDE DEF r, g, inum
<1>5. /\ r.found \in BOOLEAN /\ (r.found <=> inum # 0)
      /\ ~r.found => r.c = c
      /\ r.found => r.c = g.c /\ r.ip = g.ip
  BY <1>1
<1> QED BY <1>2, <1>3, <1>4, <1>5 DEF LookedUp, r, inum

LEMMA EntriesStay ==
    ASSUME iCache' \in Cache
    PROVE  Entry' = Entry
BY DEF Entry, Cache

\* After an operation that leaves files and descriptors alone, only the walk holds
\* or has forgotten something else than before.
LEMMA AfterStep ==
    ASSUME FileTableInv, UNCHANGED <<file, fds, cwd>>, iCache' \in Cache, Coherent(iCache'),
           freed' \subseteq INum, LinkInv', OpInv', lost' \in [Entry -> Nat],
           op'.pc # "null" =>
               /\ op.pc # "null"
               /\ Removed(iCache', freed', nlink')
               /\ \A e \in Entry : iCache'[e].refCount
                      = ((iCache[e].refCount + (IF op'.ip = e THEN 1 ELSE 0))
                                             - (IF op.ip = e THEN 1 ELSE 0))
                        + (lost'[e] - lost[e])
    PROVE  FileTableInv'
<1>1. Entry' = Entry
  BY EntriesStay
<1>2. TypeOK'
  BY <1>1 DEF FileTableInv, TypeOK, Cache, INodeEntry, OpInv
<1>3. CacheInv'
  BY <1>1 DEF FileTableInv, CacheInv, Coherent
<1>4. FileInv' /\ FileRefs'
  BY DEF FileTableInv, FileInv, FileRefs
<1>5. ASSUME op'.pc # "null"
      PROVE  /\ \A e \in Entry : iCache'[e].refCount = Holders(e)'
             /\ Removed(iCache', freed', nlink')
  <2>1. \A e \in Entry : iCache[e].refCount = Holders(e)
    BY <1>5 DEF FileTableInv
  <2>2. \A e \in Entry : Cardinality(FilesOf(e))' = Cardinality(FilesOf(e))
    BY DEF FilesOf
  <2>3. \A e \in Entry : Cardinality(FilesOf(e)) \in Nat /\ lost[e] \in Nat /\ lost'[e] \in Nat
    BY FilesCounted DEF FileTableInv, TypeOK
  <2>4. \A e \in Entry : Holders(e)' = ((Holders(e) + (IF op'.ip = e THEN 1 ELSE 0))
                                                    - (IF op.ip = e THEN 1 ELSE 0))
                                       + (lost'[e] - lost[e])
    BY <2>2, <2>3 DEF Holders
  <2> QED BY <1>5, <2>1, <2>4
<1>6. op'.pc # "null" => Removed(iCache, freed, nlink)'
  BY <1>1, <1>5 DEF Removed, Unused
<1> QED BY <1>1, <1>2, <1>3, <1>4, <1>5, <1>6 DEF FileTableInv

\* The same where nothing is forgotten.
LEMMA AfterWalk ==
    ASSUME FileTableInv, UNCHANGED <<file, fds, cwd, lost>>, iCache' \in Cache, Coherent(iCache'),
           freed' \subseteq INum, LinkInv', OpInv',
           op'.pc # "null" =>
               /\ op.pc # "null"
               /\ Removed(iCache', freed', nlink')
               /\ \A e \in Entry : iCache'[e].refCount
                      = (iCache[e].refCount + (IF op'.ip = e THEN 1 ELSE 0))
                                            - (IF op.ip = e THEN 1 ELSE 0)
    PROVE  FileTableInv'
<1>1. lost' \in [Entry -> Nat] /\ \A e \in Entry : iCache[e].refCount \in Nat /\ lost[e] \in Nat
  BY DEF FileTableInv, TypeOK
<1>2. op'.pc # "null" =>
          \A e \in Entry : iCache'[e].refCount
              = ((iCache[e].refCount + (IF op'.ip = e THEN 1 ELSE 0))
                                     - (IF op.ip = e THEN 1 ELSE 0))
                + (lost'[e] - lost[e])
  BY <1>1
<1> QED BY <1>1, <1>2, AfterStep

----------------------------------------------------------------------------
(* Init and the operations *)

LEMMA FileTableInit == Init => FileTableInv
<1> SUFFICES ASSUME Init PROVE FileTableInv
  OBVIOUS
<1> USE FileTableAssumption
<1>1. PICK NINODE \in NINODEs, d \in Cwd :
          iCache = [e \in 1..NINODE |-> IF e = 1
                                        THEN [NoEntry EXCEPT !.refCount = 1, !.inum = d]
                                        ELSE NoEntry]
  BY DEF Init
<1>2. NINODE \in Nat \ {0} /\ d \in Dirs /\ d \in INum /\ d # 0
  BY DEF INum
<1>3. /\ Entry = 1..NINODE /\ 1 \in Entry /\ Entry \subseteq Nat \ {0}
      /\ iCache[1] = [refCount |-> 1, inum |-> d, valid |-> FALSE, contents |-> 0]
      /\ \A e \in Entry : e # 1 => iCache[e] = NoEntry
  <2>1. Entry = 1..NINODE
    BY <1>1 DEF Entry
  <2>2. 1 \in Entry /\ Entry \subseteq Nat \ {0}
    BY <1>2, <2>1
  <2>3. iCache[1] = [NoEntry EXCEPT !.refCount = 1, !.inum = d]
    BY <1>1, <2>1, <2>2
  <2>4. \A e \in Entry : e # 1 => iCache[e] = NoEntry
    BY <1>1, <2>1
  <2> QED BY <2>1, <2>2, <2>3, <2>4 DEF NoEntry
<1>4. iCache \in Cache
  BY <1>1, <1>2, <1>3 DEF Cache, INodeEntry, NoEntry
<1>5. \A e \in Entry : /\ iCache[e].refCount = IF e = 1 THEN 1 ELSE 0
                       /\ iCache[e].valid = FALSE
                       /\ e = 1 => iCache[e].inum = d
  BY <1>3 DEF NoEntry
<1>6. op = Idle /\ file = [f \in Slot |-> NoFile] /\ fds = [x \in FD |-> 0] /\ cwd = 1
      /\ freed = {} /\ dir = Tree /\ lost = [e \in Entry |-> 0]
  BY DEF Init
<1>7. TypeOK
  BY <1>4, <1>6 DEF TypeOK, Cache, INodeEntry, NoFile, Idle
<1>8. CacheInv
  BY <1>2, <1>3, <1>5, <1>6 DEF CacheInv, Coherent
<1>9. FileInv /\ OpInv
  BY <1>6 DEF FileInv, OpInv, Idle, NoFile
<1>10. LinkInv
  <2>1. \A n \in INum : NLinks(Tree, n) \in Nat
    BY LinkSets
  <2>2. nlink = [n \in INum |-> IF n = ROOTINO THEN 1 ELSE NLinks(Tree, n)]
    BY DEF Init
  <2>3. nlink \in [INum -> Nat]
    BY <2>1, <2>2
  <2>4. \A f \in Files : f # ROOTINO /\ f \in INum
    BY DEF INum
  <2>5. \A x \in Dirs : x \in INum /\ (x # ROOTINO => NLinks(Tree, x) = 1)
    BY DEF INum
  <2> QED BY <1>6, <2>2, <2>3, <2>4, <2>5 DEF LinkInv
<1>11. FileRefs
  <2>1. ASSUME NEW f \in Slot PROVE {x \in FD : fds[x] = f} = {}
    BY <1>6 DEF Slot
  <2>2. ASSUME NEW f \in Slot PROVE Cardinality({x \in FD : fds[x] = f}) = 0
    BY <2>1, FS_EmptySet
  <2> QED BY <1>6, <2>2 DEF FileRefs, NoFile
<1>12. \A e \in Entry : iCache[e].refCount = Holders(e)
  <2>1. \A e \in Entry : FilesOf(e) = {}
    BY <1>6 DEF FilesOf, NoFile
  <2>2. \A e \in Entry : Cardinality(FilesOf(e)) = 0
    BY <2>1, FS_EmptySet
  <2>3. op.ip = 0
    BY <1>6 DEF Idle
  <2> QED BY <1>3, <1>5, <1>6, <2>2, <2>3 DEF Holders
<1>13. Removed(iCache, freed, nlink)
  <2>1. \A n \in INum : nlink[n] > 0
    <3>1. nlink = [n \in INum |-> IF n = ROOTINO THEN 1 ELSE NLinks(Tree, n)]
      BY DEF Init
    <3>2. \A n \in INum : n # ROOTINO => NLinks(Tree, n) > 0
      BY DEF INum
    <3>3. \A n \in INum : nlink[n] = IF n = ROOTINO THEN 1 ELSE NLinks(Tree, n)
      BY <3>1
    <3>4. 1 > 0
      OBVIOUS
    <3> QED BY <3>2, <3>3, <3>4
  <2>2. \A n \in INum : nlink[n] # 0
    BY <2>1, <1>10 DEF LinkInv
  <2>3. \A e \in Entry : iCache[e].refCount > 0 => nlink[iCache[e].inum] # 0
    BY <1>2, <1>5, <2>2
  <2> QED BY <1>6, <2>2, <2>3 DEF Removed
<1> QED BY <1>7, <1>8, <1>9, <1>10, <1>11, <1>12, <1>13 DEF FileTableInv

\* The start of a walk takes a reference to the root or the current directory.
LEMMA NameKeeps ==
    ASSUME FileTableInv, NEW call \in {"name_i", "open", "link", "unlink"}, NEW path \in Paths,
           NEW absolute \in BOOLEAN, NEW old \in Slot \cup {0},
           call = "link" => old # 0 /\ file[old].refCount > 0,
           name_x(call, path, absolute, old)
    PROVE  FileTableInv'
<1> DEFINE r == IF absolute THEN inode_get(iCache, ROOTINO)
                ELSE [c |-> inode_dup(iCache, cwd), ip |-> cwd]
<1>1. /\ op.pc = "idle" /\ iCache' = r.c
      /\ op' = [pc |-> IF r.ip = 0 THEN "null" ELSE "walk", call |-> call,
                ip |-> r.ip, path |-> path, name |-> 0, old |-> old]
      /\ UNCHANGED <<freed, file, fds, dir, nlink, cwd, lost>>
  BY DEF name_x
<1>2. /\ CacheOK(iCache, freed, nlink) /\ Entry \subseteq Nat \ {0}
      /\ \A e \in Entry : iCache[e].refCount \in Nat
      /\ cwd \in Entry /\ iCache[cwd].refCount > 0
  BY <1>1, Before
<1>3. iCache \in Cache /\ Coherent(iCache)
  BY <1>2 DEF CacheOK
<1>4. ROOTINO \in INum /\ nlink[ROOTINO] > 0 /\ nlink \in [INum -> Nat]
  BY FileTableAssumption DEF FileTableInv, LinkInv, INum
<1>5. /\ r.ip \in Entry \cup {0}
      /\ r.ip = 0 => r.c = iCache
      /\ r.ip # 0 => /\ CacheOK(r.c, freed, nlink)
                     /\ \A e \in Entry : r.c[e].refCount
                            = iCache[e].refCount + (IF e = r.ip THEN 1 ELSE 0)
  <2>1. CASE absolute
    <3>1. r = inode_get(iCache, ROOTINO)
      BY <2>1
    <3>2. r.ip = 0 => r.c = iCache
      <4>1. \A e \in Entry : e # 0
        BY <1>2
      <4>2. ASSUME NEW S, S \subseteq Entry, S # {} PROVE Min(S) # 0
        BY <1>2, <4>1, <4>2, MinOf
      <4> DEFINE cached == {e \in Entry : iCache[e].refCount > 0 /\ iCache[e].inum = ROOTINO}
                 empty == {e \in Entry : iCache[e].refCount = 0}
      <4>3. (cached # {} => Min(cached) # 0) /\ (empty # {} => Min(empty) # 0)
        BY <4>2
      <4> QED BY <3>1, <4>3 DEF inode_get
    <3>3. r.ip # 0 => CacheOK(r.c, freed, nlink)
      BY <1>2, <1>4, <3>1, GetKeeps
    <3> HIDE DEF r
    <3>4. ASSUME r.ip # 0
          PROVE  /\ r.ip \in Entry
                 /\ \A e \in Entry : r.c[e].refCount
                        = iCache[e].refCount + (IF e = r.ip THEN 1 ELSE 0)
      <4>1. inode_get(iCache, ROOTINO).ip # 0
        BY <3>1, <3>4
      <4> QED BY <1>2, <1>3, <1>4, <3>1, <4>1, GetEntry
    <3> QED BY <3>2, <3>3, <3>4
  <2>2. CASE ~absolute
    <3>1. r.c = inode_dup(iCache, cwd) /\ r.ip = cwd
      BY <2>2
    <3> HIDE DEF r
    <3> QED BY <1>2, <3>1, DupKeeps
  <2> QED BY <2>1, <2>2
<1> HIDE DEF r
<1>6. iCache' \in Cache /\ Coherent(iCache')
  BY <1>1, <1>3, <1>5 DEF CacheOK
<1>7. Entry' = Entry
  BY <1>6, EntriesStay
<1>8. OpInv'
  <2>1. path \in Seq(Name)
    BY FileTableAssumption
  <2> QED BY <1>1, <1>5, <1>7, <2>1 DEF OpInv
<1>9. LinkInv' /\ freed' \subseteq INum
  BY <1>1 DEF FileTableInv, LinkInv, TypeOK
<1>10. op.ip = 0
  BY <1>1 DEF FileTableInv, OpInv
<1>11. op'.pc # "null" => /\ op.pc # "null"
                          /\ Removed(iCache', freed', nlink')
                          /\ \A e \in Entry : iCache'[e].refCount
                                 = (iCache[e].refCount + (IF op'.ip = e THEN 1 ELSE 0))
                                                       - (IF op.ip = e THEN 1 ELSE 0)
  BY <1>1, <1>2, <1>5, <1>10 DEF CacheOK
<1> QED BY <1>1, <1>6, <1>8, <1>9, <1>11, AfterWalk

LEMMA PutOne ==
    ASSUME LinkInv, NEW c, CacheOK(c, freed, nlink), NEW e \in Entry, c[e].refCount > 0
    PROVE  /\ CacheOK(put(c, e).c, put(c, e).freed, nlink)
           /\ \A g \in Entry : put(c, e).c[g].refCount
                                   = c[g].refCount - (IF g = e THEN 1 ELSE 0)
<1>1. nlink \in [INum -> Nat]
  BY DEF LinkInv
<1> DEFINE s == inode_put([c |-> c, freed |-> freed, nlink |-> nlink], e)
<1>2. /\ s = [c |-> s.c, freed |-> s.freed, nlink |-> nlink]
      /\ CacheOK(s.c, s.freed, nlink)
      /\ \A g \in Entry : s.c[g].refCount = c[g].refCount - (IF g = e THEN 1 ELSE 0)
  BY <1>1, PutKeeps
<1>3. put(c, e) = s
  BY DEF put
<1> HIDE DEF s
<1> QED BY <1>2, <1>3

\* Two references given back one after the other.
LEMMA PutTwice ==
    ASSUME NEW c, NEW gone, NEW links \in [INum -> Nat], CacheOK(c, gone, links),
           NEW d \in Entry, NEW e \in Entry, c[d].refCount > 0,
           c[e].refCount > 0, d = e => c[e].refCount > 1
    PROVE  LET s == inode_put(inode_put([c |-> c, freed |-> gone, nlink |-> links], d), e)
           IN  /\ CacheOK(s.c, s.freed, links)
               /\ \A g \in Entry : s.c[g].refCount
                      = (c[g].refCount - (IF g = d THEN 1 ELSE 0)) - (IF g = e THEN 1 ELSE 0)
<1> DEFINE s1 == inode_put([c |-> c, freed |-> gone, nlink |-> links], d)
           s2 == inode_put(s1, e)
<1>1. /\ s1 = [c |-> s1.c, freed |-> s1.freed, nlink |-> links]
      /\ CacheOK(s1.c, s1.freed, links)
      /\ \A g \in Entry : s1.c[g].refCount = c[g].refCount - (IF g = d THEN 1 ELSE 0)
  BY PutKeeps
<1>2. \A g \in Entry : c[g].refCount \in Nat
  BY DEF CacheOK, Cache, INodeEntry
<1>3. s1.c[e].refCount > 0
  BY <1>1, <1>2
<1> HIDE DEF s1
<1>4. s2 = inode_put([c |-> s1.c, freed |-> s1.freed, nlink |-> links], e)
  BY <1>1
<1> DEFINE c1 == s1.c
           g1 == s1.freed
           t == inode_put([c |-> c1, freed |-> g1, nlink |-> links], e)
<1>5. /\ CacheOK(c1, g1, links) /\ c1[e].refCount > 0
      /\ \A g \in Entry : c1[g].refCount = c[g].refCount - (IF g = d THEN 1 ELSE 0)
      /\ s2 = t
  BY <1>1, <1>3, <1>4
<1> HIDE DEF c1, g1
<1>6. /\ t = [c |-> t.c, freed |-> t.freed, nlink |-> links]
      /\ CacheOK(t.c, t.freed, links)
      /\ \A g \in Entry : t.c[g].refCount = c1[g].refCount - (IF g = e THEN 1 ELSE 0)
  BY <1>5, PutKeeps
<1> HIDE DEF s2, t
<1>7. /\ CacheOK(s2.c, s2.freed, links)
      /\ \A g \in Entry : s2.c[g].refCount
             = (c[g].refCount - (IF g = d THEN 1 ELSE 0)) - (IF g = e THEN 1 ELSE 0)
  BY <1>2, <1>5, <1>6
<1> QED BY <1>7 DEF s1, s2

\* An operation that ends without touching files gives the directory back.
LEMMA AfterEnd ==
    ASSUME FileTableInv, op.pc # "null", UNCHANGED <<file, fds, cwd, lost>>, op' = Idle,
           CacheOK(iCache', freed', nlink'), LinkInv',
           \A e \in Entry : iCache'[e].refCount
               = iCache[e].refCount - (IF op.ip = e THEN 1 ELSE 0)
    PROVE  FileTableInv'
<1>1. iCache' \in Cache /\ Coherent(iCache') /\ Removed(iCache', freed', nlink')
  BY DEF CacheOK
<1>2. freed' \subseteq INum
  BY <1>1 DEF Removed
<1>3. Entry' = Entry
  BY <1>1, EntriesStay
<1>4. OpInv'
  BY <1>3 DEF OpInv, Idle
<1>5. op'.ip = 0 /\ Entry \subseteq Nat \ {0} /\ \A e \in Entry : iCache[e].refCount \in Nat
  BY Before DEF Idle
<1>6. \A e \in Entry : iCache'[e].refCount
          = (iCache[e].refCount + (IF op'.ip = e THEN 1 ELSE 0)) - (IF op.ip = e THEN 1 ELSE 0)
  BY <1>5
<1> QED BY <1>1, <1>2, <1>4, <1>6, AfterWalk

\* A null pointer leaves what is known of the tables.
LEMMA AfterNull ==
    ASSUME FileTableInv, op.pc # "null", UNCHANGED <<file, fds, cwd, freed, dir, nlink, lost>>,
           op' = [op EXCEPT !.pc = "null"], iCache' \in Cache, Coherent(iCache')
    PROVE  FileTableInv'
<1>1. Entry' = Entry
  BY EntriesStay
<1>2. OpInv'
  BY <1>1 DEF FileTableInv, OpInv
<1>3. op'.pc = "null"
  BY DEF FileTableInv, OpInv
<1>4. freed' \subseteq INum /\ LinkInv'
  BY DEF FileTableInv, TypeOK, LinkInv
<1> QED BY <1>2, <1>3, <1>4, AfterWalk

\* A walk that fails forgets the reference it holds.
LEMMA AfterFailure ==
    ASSUME FileTableInv, op.pc = "walk", UNCHANGED <<freed, file, fds, dir, nlink, cwd>>, op' = Idle,
           CacheOK(iCache', freed, nlink), lost' = [lost EXCEPT ![op.ip] = @ + 1],
           \A e \in Entry : iCache'[e].refCount = iCache[e].refCount
    PROVE  FileTableInv'
<1>1. /\ iCache' \in Cache /\ Coherent(iCache') /\ Removed(iCache', freed', nlink')
      /\ freed' \subseteq INum /\ LinkInv'
  BY DEF CacheOK, FileTableInv, LinkInv, Removed
<1>2. /\ Entry \subseteq Nat \ {0} /\ \A e \in Entry : iCache[e].refCount \in Nat
      /\ op.ip \in Entry /\ lost \in [Entry -> Nat] /\ op'.ip = 0 /\ op'.pc = "idle"
  BY Before DEF Idle, FileTableInv, TypeOK
<1>3. Entry' = Entry
  BY <1>1, EntriesStay
<1>4. OpInv'
  BY <1>3 DEF OpInv, Idle
<1>5. lost' \in [Entry -> Nat] /\ \A e \in Entry : lost'[e] = lost[e] + (IF op.ip = e THEN 1 ELSE 0)
  <2>1. lost' = [lost EXCEPT ![op.ip] = lost[op.ip] + 1]
    OBVIOUS
  <2>2. lost \in [Entry -> Nat] /\ op.ip \in Entry
    BY <1>2
  <2> QED BY <2>1, <2>2
<1>6. \A e \in Entry : iCache'[e].refCount
          = ((iCache[e].refCount + (IF op'.ip = e THEN 1 ELSE 0)) - (IF op.ip = e THEN 1 ELSE 0))
            + (lost'[e] - lost[e])
  BY <1>2, <1>5
<1> QED BY <1>1, <1>4, <1>5, <1>6, AfterStep

\* A round of the walk: the reference to a directory is forgotten, whether or not one
\* to the inode that was found in it takes its place.
LEMMA StepKeeps ==
    ASSUME FileTableInv, name_x_step
    PROVE  FileTableInv'
<1> DEFINE c == lock(iCache, op.ip)
           name == Head(op.path)
           next == dir_lookup(c, op.ip, name)
<1>1. /\ op.pc = "walk" /\ op.path # <<>> /\ UNCHANGED <<freed, file, fds, dir, nlink, cwd>>
      /\ \/ /\ c[op.ip].contents \notin Dirs
            /\ iCache' = c /\ lost' = [lost EXCEPT ![op.ip] = @ + 1]
            /\ op' = Idle
         \/ /\ c[op.ip].contents \in Dirs
            /\ iCache' = c /\ UNCHANGED lost
            /\ op' = [op EXCEPT !.pc = "parent", !.name = name, !.path = <<>>]
         \/ /\ c[op.ip].contents \in Dirs
            /\ IF next.found /\ next.ip = 0
               THEN /\ iCache' = c /\ UNCHANGED lost
                    /\ op' = [op EXCEPT !.pc = "null"]
               ELSE /\ iCache' = next.c /\ lost' = [lost EXCEPT ![op.ip] = @ + 1]
                    /\ op' = IF next.found
                             THEN [op EXCEPT !.ip = next.ip, !.name = name, !.path = Tail(@)]
                             ELSE Idle
  BY DEF name_x_step
<1>2. /\ CacheOK(iCache, freed, nlink) /\ Entry \subseteq Nat \ {0}
      /\ \A e \in Entry : iCache[e].refCount \in Nat
      /\ op.ip \in Entry /\ iCache[op.ip].refCount > 0
  BY <1>1, Before
<1>3. /\ CacheOK(c, freed, nlink) /\ c[op.ip].valid
      /\ \A e \in Entry : c[e].refCount = iCache[e].refCount
  BY <1>2, LockKeeps DEF CacheOK
<1>4. LinkInv /\ LinkInv' /\ nlink \in [INum -> Nat] /\ lost \in [Entry -> Nat]
  BY <1>1 DEF FileTableInv, LinkInv, TypeOK
<1>5. /\ op.path \in Seq(Name) /\ name \in Name /\ Tail(op.path) \in Seq(Name)
  <2>1. op.path \in Seq(Name)
    BY DEF FileTableInv, OpInv
  <2> QED BY <1>1, <2>1
<1> HIDE DEF c, name, next
<1>6. CASE /\ c[op.ip].contents \notin Dirs
           /\ iCache' = c /\ lost' = [lost EXCEPT ![op.ip] = @ + 1]
           /\ op' = Idle
  BY <1>1, <1>3, <1>6, AfterFailure
<1>7. CASE /\ c[op.ip].contents \in Dirs
           /\ iCache' = c /\ UNCHANGED lost
           /\ op' = [op EXCEPT !.pc = "parent", !.name = name, !.path = <<>>]
  <2>1. /\ iCache' \in Cache /\ Coherent(iCache') /\ Removed(iCache', freed', nlink')
        /\ freed' \subseteq INum
    BY <1>1, <1>3, <1>7 DEF CacheOK, Removed
  <2>2. Entry' = Entry
    BY <2>1, EntriesStay
  <2>3. op'.pc = "parent" /\ op'.ip = op.ip
    BY <1>7 DEF FileTableInv, OpInv
  <2>4. OpInv'
    <3>1. OpInv
      BY DEF FileTableInv
    <3>2. /\ op' \in [pc : {"idle", "walk", "parent", "wild", "null"},
                      call : {"none", "name_i", "open", "link", "unlink"}, ip : Entry \cup {0},
                      path : Seq(Name), name : Name \cup {0}, old : Slot \cup {0}]
          /\ op'.pc = "parent" /\ op'.ip = op.ip /\ op'.name = name /\ op'.call = op.call
          /\ op'.old = op.old
      <4>1. <<>> \in Seq(Name)
        OBVIOUS
      <4> QED BY <1>5, <1>7, <3>1, <4>1 DEF OpInv
    <3>3. op.ip # 0 /\ iCache'[op.ip].valid /\ iCache'[op.ip].contents \in Dirs
      BY <1>2, <1>3, <1>7
    <3> QED BY <1>1, <1>5, <2>2, <3>1, <3>2, <3>3 DEF OpInv
  <2>5. \A e \in Entry : iCache'[e].refCount
            = (iCache[e].refCount + (IF op'.ip = e THEN 1 ELSE 0)) - (IF op.ip = e THEN 1 ELSE 0)
    BY <1>2, <1>3, <1>7, <2>3
  <2> QED BY <1>1, <1>4, <1>7, <2>1, <2>4, <2>5, AfterWalk
<1>8. CASE /\ c[op.ip].contents \in Dirs
           /\ IF next.found /\ next.ip = 0
              THEN /\ iCache' = c /\ UNCHANGED lost
                   /\ op' = [op EXCEPT !.pc = "null"]
              ELSE /\ iCache' = next.c /\ lost' = [lost EXCEPT ![op.ip] = @ + 1]
                   /\ op' = IF next.found
                            THEN [op EXCEPT !.ip = next.ip, !.name = name, !.path = Tail(@)]
                            ELSE Idle
  <2>1. /\ next.found \in BOOLEAN /\ (~next.found => next.c = c)
        /\ next.found /\ next.ip # 0 =>
               /\ next.ip \in Entry /\ CacheOK(next.c, freed, nlink)
               /\ \A e \in Entry : next.c[e].refCount
                      = c[e].refCount + (IF e = next.ip THEN 1 ELSE 0)
    <3>1. LookedUp(c, op.ip, name)
      BY <1>2, <1>3, <1>4, <1>5, <1>8, Lookup
    <3> QED BY <3>1 DEF next, LookedUp
  <2>2. CASE next.found /\ next.ip = 0
    <3>1. /\ iCache' \in Cache /\ Coherent(iCache')
          /\ UNCHANGED <<file, fds, cwd, freed, dir, nlink, lost>>
      BY <1>1, <1>3, <1>8, <2>2 DEF CacheOK
    <3>2. op' = [op EXCEPT !.pc = "null"] /\ op.pc # "null"
      BY <1>1, <1>8, <2>2
    <3> QED BY <3>1, <3>2, AfterNull
  <2>3. CASE ~next.found
    BY <1>1, <1>3, <1>8, <2>1, <2>3, AfterFailure
  <2>4. CASE next.found /\ next.ip # 0
    <3>1. /\ iCache' = next.c /\ lost' = [lost EXCEPT ![op.ip] = @ + 1]
          /\ op' = [op EXCEPT !.ip = next.ip, !.name = name, !.path = Tail(op.path)]
      BY <1>8, <2>4
    <3>2. /\ iCache' \in Cache /\ Coherent(iCache') /\ Removed(iCache', freed', nlink')
          /\ freed' \subseteq INum
      BY <1>1, <2>1, <2>4, <3>1 DEF CacheOK, Removed
    <3>3. Entry' = Entry
      BY <3>2, EntriesStay
    <3>4. op'.pc = "walk" /\ op'.ip = next.ip
      BY <1>1, <3>1 DEF FileTableInv, OpInv
    <3>5. OpInv'
      BY <1>1, <1>5, <2>1, <2>4, <3>1, <3>3 DEF FileTableInv, OpInv
    <3>6. /\ lost' \in [Entry -> Nat]
          /\ \A e \in Entry : lost'[e] = lost[e] + (IF op.ip = e THEN 1 ELSE 0)
      BY <1>2, <1>4, <3>1
    <3>7. \A e \in Entry : iCache'[e].refCount
                               = iCache[e].refCount + (IF op'.ip = e THEN 1 ELSE 0)
      BY <1>2, <1>3, <2>1, <2>4, <3>1, <3>4
    <3>8. \A e \in Entry : iCache'[e].refCount
              = ((iCache[e].refCount + (IF op'.ip = e THEN 1 ELSE 0))
                                     - (IF op.ip = e THEN 1 ELSE 0))
                + (lost'[e] - lost[e])
      BY <1>2, <1>4, <3>6, <3>7
    <3> QED BY <1>1, <1>4, <3>2, <3>5, <3>6, <3>8, AfterStep
  <2> QED BY <2>1, <2>2, <2>3, <2>4
<1> QED BY <1>1, <1>6, <1>7, <1>8

\* The walk that loses its path.
LEMMA WildKeeps ==
    ASSUME FileTableInv, name_x_wild
    PROVE  FileTableInv'
<1>1. /\ op.pc = "walk" /\ op' = [op EXCEPT !.pc = "wild"]
      /\ UNCHANGED <<iCache, freed, file, fds, dir, nlink, cwd, lost>>
  BY DEF name_x_wild
<1>2. /\ CacheOK(iCache, freed, nlink) /\ \A e \in Entry : iCache[e].refCount \in Nat
  BY <1>1, Before
<1>3. /\ iCache' \in Cache /\ Coherent(iCache') /\ Removed(iCache', freed', nlink')
      /\ freed' \subseteq INum
  BY <1>1, <1>2 DEF CacheOK, Removed
<1>4. Entry' = Entry
  BY <1>3, EntriesStay
<1>5. op'.ip = op.ip
  BY <1>1 DEF FileTableInv, OpInv
<1>6. OpInv' /\ LinkInv'
  BY <1>1, <1>4 DEF FileTableInv, OpInv, LinkInv
<1>7. \A e \in Entry : iCache'[e].refCount
          = (iCache[e].refCount + (IF op'.ip = e THEN 1 ELSE 0)) - (IF op.ip = e THEN 1 ELSE 0)
  BY <1>1, <1>2, <1>5
<1> QED BY <1>1, <1>3, <1>6, <1>7, AfterWalk

\* The last name of a path: whatever it was found to be, the directory is given
\* back, and the inode too where it is not kept.
LEMMA LastName ==
    ASSUME FileTableInv, op.pc = "parent"
    PROVE  LET r == dir_lookup(iCache, op.ip, op.name)
               inum == dir[iCache[op.ip].contents][op.name]
               one == put(r.c, op.ip)
               two == inode_put(put(r.c, r.ip), op.ip)
               rev == inode_put(put(r.c, op.ip), r.ip)
           IN  /\ r.found \in BOOLEAN /\ (r.found <=> inum # 0)
               /\ r.found => inum \in INum /\ nlink[inum] > 0
               /\ ~r.found =>
                     /\ CacheOK(one.c, one.freed, nlink)
                     /\ \A e \in Entry : one.c[e].refCount
                            = iCache[e].refCount - (IF op.ip = e THEN 1 ELSE 0)
               /\ r.found /\ r.ip # 0 =>
                     /\ r.ip \in Entry /\ r.c[r.ip].inum = inum
                     /\ CacheOK(r.c, freed, nlink)
                     /\ \A e \in Entry : r.c[e].refCount
                            = iCache[e].refCount + (IF e = r.ip THEN 1 ELSE 0)
                     /\ CacheOK(one.c, one.freed, nlink)
                     /\ \A e \in Entry : one.c[e].refCount
                            = (iCache[e].refCount + (IF e = r.ip THEN 1 ELSE 0))
                                                  - (IF op.ip = e THEN 1 ELSE 0)
                     /\ CacheOK(two.c, two.freed, nlink)
                     /\ \A e \in Entry : two.c[e].refCount
                            = iCache[e].refCount - (IF op.ip = e THEN 1 ELSE 0)
                     /\ CacheOK(rev.c, rev.freed, nlink)
                     /\ \A e \in Entry : rev.c[e].refCount
                            = iCache[e].refCount - (IF op.ip = e THEN 1 ELSE 0)
<1> DEFINE r == dir_lookup(iCache, op.ip, op.name)
           inum == dir[iCache[op.ip].contents][op.name]
           one == put(r.c, op.ip)
           two == inode_put(put(r.c, r.ip), op.ip)
           rev == inode_put(put(r.c, op.ip), r.ip)
<1>1. /\ CacheOK(iCache, freed, nlink) /\ Entry \subseteq Nat \ {0}
      /\ \A e \in Entry : iCache[e].refCount \in Nat
      /\ op.ip \in Entry /\ iCache[op.ip].refCount > 0
  BY Before
<1>2. iCache[op.ip].contents \in Dirs /\ op.name \in Name /\ LinkInv /\ nlink \in [INum -> Nat]
  BY DEF FileTableInv, OpInv, LinkInv
<1>3. /\ r.found \in BOOLEAN /\ (r.found <=> inum # 0)
      /\ ~r.found => r.c = iCache
      /\ r.found => inum \in INum /\ nlink[inum] > 0
      /\ r.found /\ r.ip # 0 =>
            /\ r.ip \in Entry /\ r.c[r.ip].inum = inum
            /\ CacheOK(r.c, freed, nlink)
            /\ \A e \in Entry : r.c[e].refCount
                   = iCache[e].refCount + (IF e = r.ip THEN 1 ELSE 0)
  <2>1. LookedUp(iCache, op.ip, op.name)
    BY <1>1, <1>2, Lookup
  <2> QED BY <2>1 DEF LookedUp
<1> HIDE DEF r, inum
<1>4. ASSUME ~r.found
      PROVE  /\ CacheOK(one.c, one.freed, nlink)
             /\ \A e \in Entry : one.c[e].refCount
                    = iCache[e].refCount - (IF op.ip = e THEN 1 ELSE 0)
  <2> DEFINE s == put(iCache, op.ip)
  <2>1. /\ CacheOK(s.c, s.freed, nlink)
        /\ \A e \in Entry : s.c[e].refCount = iCache[e].refCount - (IF e = op.ip THEN 1 ELSE 0)
    BY <1>1, <1>2, PutOne
  <2>2. one = s
    BY <1>3, <1>4
  <2> HIDE DEF one, s
  <2> QED BY <2>1, <2>2
<1>5. ASSUME r.found, r.ip # 0
      PROVE  /\ CacheOK(one.c, one.freed, nlink)
             /\ \A e \in Entry : one.c[e].refCount
                    = (iCache[e].refCount + (IF e = r.ip THEN 1 ELSE 0))
                                          - (IF op.ip = e THEN 1 ELSE 0)
             /\ CacheOK(two.c, two.freed, nlink)
             /\ \A e \in Entry : two.c[e].refCount
                    = iCache[e].refCount - (IF op.ip = e THEN 1 ELSE 0)
             /\ CacheOK(rev.c, rev.freed, nlink)
             /\ \A e \in Entry : rev.c[e].refCount
                    = iCache[e].refCount - (IF op.ip = e THEN 1 ELSE 0)
  <2> DEFINE c == r.c
             d == r.ip
  <2>1. /\ d \in Entry /\ CacheOK(c, freed, nlink)
        /\ \A e \in Entry : c[e].refCount = iCache[e].refCount + (IF e = d THEN 1 ELSE 0)
    BY <1>3, <1>5
  <2> HIDE DEF c, d
  <2>2. c[op.ip].refCount = iCache[op.ip].refCount + (IF op.ip = d THEN 1 ELSE 0)
    BY <1>1, <2>1
  <2>3. c[d].refCount = iCache[d].refCount + 1 /\ iCache[d].refCount \in Nat
    BY <1>1, <2>1
  <2>4. /\ c[op.ip].refCount > 0 /\ c[d].refCount > 0
        /\ d = op.ip => c[op.ip].refCount > 1 /\ c[d].refCount > 1
    <3>1. iCache[op.ip].refCount \in Nat /\ iCache[op.ip].refCount > 0
      BY <1>1
    <3>2. CASE d = op.ip
      BY <2>2, <3>1, <3>2
    <3>3. CASE d # op.ip
      BY <2>2, <2>3, <3>1, <3>3
    <3> QED BY <3>2, <3>3
  <2>5. d \in Entry /\ op.ip \in Entry /\ CacheOK(c, freed, nlink) /\ nlink \in [INum -> Nat]
    BY <1>1, <1>2, <2>1
  <2> DEFINE x == [c |-> c, freed |-> freed, nlink |-> nlink]
             s == put(c, op.ip)
             t == inode_put(inode_put(x, d), op.ip)
             u == inode_put(inode_put(x, op.ip), d)
  <2>6. /\ CacheOK(s.c, s.freed, nlink)
        /\ \A e \in Entry : s.c[e].refCount = c[e].refCount - (IF e = op.ip THEN 1 ELSE 0)
    BY <1>1, <1>2, <2>1, <2>4, PutOne
  <2>7. /\ CacheOK(t.c, t.freed, nlink)
        /\ \A e \in Entry : t.c[e].refCount
               = (c[e].refCount - (IF e = d THEN 1 ELSE 0)) - (IF e = op.ip THEN 1 ELSE 0)
    BY <2>4, <2>5, PutTwice
  <2>8. /\ CacheOK(u.c, u.freed, nlink)
        /\ \A e \in Entry : u.c[e].refCount
               = (c[e].refCount - (IF e = op.ip THEN 1 ELSE 0)) - (IF e = d THEN 1 ELSE 0)
    BY <2>4, <2>5, PutTwice
  <2> HIDE DEF s, t, u
  <2>9. \A e \in Entry :
            /\ s.c[e].refCount = (iCache[e].refCount + (IF e = d THEN 1 ELSE 0))
                                                     - (IF op.ip = e THEN 1 ELSE 0)
            /\ t.c[e].refCount = iCache[e].refCount - (IF op.ip = e THEN 1 ELSE 0)
            /\ u.c[e].refCount = iCache[e].refCount - (IF op.ip = e THEN 1 ELSE 0)
    <3> TAKE e \in Entry
    <3>1. /\ c[e].refCount = iCache[e].refCount + (IF e = d THEN 1 ELSE 0)
          /\ iCache[e].refCount \in Nat
      BY <1>1, <2>1
    <3>2. /\ s.c[e].refCount = c[e].refCount - (IF e = op.ip THEN 1 ELSE 0)
          /\ t.c[e].refCount
                 = (c[e].refCount - (IF e = d THEN 1 ELSE 0)) - (IF e = op.ip THEN 1 ELSE 0)
          /\ u.c[e].refCount
                 = (c[e].refCount - (IF e = op.ip THEN 1 ELSE 0)) - (IF e = d THEN 1 ELSE 0)
      BY <2>6, <2>7, <2>8
    <3> HIDE DEF x
    <3> QED BY <3>1, <3>2
  <2>10. s = one /\ t = two /\ u = rev
    BY DEF s, t, u, c, d, put
  <2> HIDE DEF one, two, rev
  <2> QED BY <2>6, <2>7, <2>8, <2>9, <2>10 DEF d
<1> HIDE DEF one, two, rev
<1> QED BY <1>3, <1>4, <1>5 DEF r, inum, one, two, rev

\* Counts of links that are zero for the same inodes make no difference.
LEMMA SameZeros ==
    ASSUME NEW c, NEW gone, NEW links, NEW more, CacheOK(c, gone, links),
           \A n \in INum : links[n] = 0 <=> more[n] = 0
    PROVE  CacheOK(c, gone, more)
<1>1. c \in Cache /\ Coherent(c) /\ Removed(c, gone, links)
  BY DEF CacheOK
<1>2. \A e \in Entry : c[e].refCount > 0 => c[e].inum \in INum
  BY <1>1 DEF Coherent, Cache, INodeEntry
<1>3. Removed(c, gone, more)
  BY <1>1, <1>2 DEF Removed
<1> QED BY <1>1, <1>3 DEF CacheOK

LEMMA LinkKeeps ==
    ASSUME FileTableInv, link
    PROVE  FileTableInv'
<1> DEFINE r == dir_lookup(iCache, op.ip, op.name)
           inum == iCache[file[op.old].ip].inum
           s == IF r.found THEN inode_put(put(r.c, r.ip), op.ip) ELSE put(r.c, op.ip)
           at == iCache[op.ip].contents
<1>1. /\ op.pc = "parent" /\ op.call = "link" /\ UNCHANGED <<file, fds, cwd, lost>>
      /\ IF r.found /\ r.ip = 0
         THEN /\ op' = [op EXCEPT !.pc = "null"]
              /\ UNCHANGED <<iCache, freed, dir, nlink>>
         ELSE /\ iCache' = s.c /\ freed' = s.freed
              /\ op' = Idle
              /\ IF r.found \/ nlink[inum] \in {0, MaxLink}
                 THEN UNCHANGED <<dir, nlink>>
                 ELSE /\ dir' = [dir EXCEPT ![at][op.name] = inum]
                      /\ nlink' = [nlink EXCEPT ![inum] = @ + 1]
  BY DEF link
<1>2. /\ iCache \in Cache /\ Coherent(iCache)
      /\ \A e \in Entry : iCache[e].refCount > 0 => iCache[e].inum \in INum
  <2>1. CacheOK(iCache, freed, nlink)
    BY <1>1, Before
  <2>2. iCache \in Cache /\ Coherent(iCache)
    BY <2>1 DEF CacheOK
  <2> QED BY <2>2 DEF Coherent, Cache, INodeEntry
<1>3. inum \in INum
  <2>1. op.old \in Slot /\ file[op.old].refCount > 0
    BY <1>1 DEF FileTableInv, OpInv
  <2>2. file[op.old].ip \in Entry /\ iCache[file[op.old].ip].refCount > 0
    BY <1>1, <2>1, Before
  <2> QED BY <1>2, <2>2
<1>4. at \in Dirs /\ op.name \in Name /\ LinkInv
  BY <1>1 DEF FileTableInv, OpInv
<1>5. CASE r.found /\ r.ip = 0
  BY <1>1, <1>2, <1>5, AfterNull
<1>6. CASE ~(r.found /\ r.ip = 0)
  <2>1. /\ r.found \in BOOLEAN /\ (~r.found => dir[at][op.name] = 0)
        /\ CacheOK(s.c, s.freed, nlink)
        /\ \A e \in Entry : s.c[e].refCount
               = iCache[e].refCount - (IF op.ip = e THEN 1 ELSE 0)
    BY <1>1, <1>6, LastName
  <2> HIDE DEF r, s, inum, at
  <2>2. CASE r.found \/ nlink[inum] \in {0, MaxLink}
    <3>1. /\ CacheOK(iCache', freed', nlink')
          /\ \A e \in Entry : iCache'[e].refCount
                 = iCache[e].refCount - (IF op.ip = e THEN 1 ELSE 0)
          /\ UNCHANGED <<dir, nlink>> /\ op' = Idle
      BY <1>1, <1>6, <2>1, <2>2
    <3>2. LinkInv'
      BY <1>4, <3>1 DEF LinkInv
    <3> QED BY <1>1, <3>1, <3>2, AfterEnd
  <2>3. CASE ~(r.found \/ nlink[inum] \in {0, MaxLink})
    <3>1. /\ dir' = [dir EXCEPT ![at][op.name] = inum]
          /\ nlink' = [nlink EXCEPT ![inum] = @ + 1]
          /\ iCache' = s.c /\ freed' = s.freed /\ op' = Idle
          /\ nlink[inum] # 0 /\ dir[at][op.name] = 0
      BY <1>1, <1>6, <2>1, <2>3
    <3>2. /\ nlink' \in [INum -> Nat]
          /\ \A n \in INum : nlink'[n] = IF n = inum THEN nlink[n] + 1 ELSE nlink[n]
      BY <1>3, <1>4, <3>1 DEF LinkInv
    <3>3. \A n \in INum : nlink[n] = 0 <=> nlink'[n] = 0
      BY <1>4, <3>1, <3>2 DEF LinkInv
    <3>4. CacheOK(iCache', freed', nlink')
      <4> DEFINE more == nlink'
      <4>1. \A n \in INum : nlink[n] = 0 <=> more[n] = 0
        BY <3>3
      <4> HIDE DEF more
      <4>2. CacheOK(s.c, s.freed, more)
        BY <2>1, <4>1, SameZeros
      <4> QED BY <3>1, <4>2 DEF more
    <3>5. /\ dir \in [Dirs -> [Name -> INum \cup {0}]]
          /\ inum \in INum \cup {0} /\ 0 \notin INum
      BY <1>3, <1>4, FileTableAssumption DEF LinkInv
    <3>6. dir' \in [Dirs -> [Name -> INum \cup {0}]]
      BY <1>4, <3>1, <3>5
    <3>7. ASSUME NEW n \in INum
          PROVE  NLinks(dir', n) = IF n = inum THEN NLinks(dir, n) + 1 ELSE NLinks(dir, n)
      <4>1. Written(dir, at, op.name, inum, dir')
        BY <1>4, <3>1, <3>5, <3>6 DEF Written
      <4>2. /\ dir[at][op.name] # n /\ inum = n => NLinks(dir', n) = NLinks(dir, n) + 1
            /\ dir[at][op.name] # n /\ inum # n => NLinks(dir', n) = NLinks(dir, n)
        BY <4>1, LinkChange
      <4> QED BY <3>1, <3>5, <4>2
    <3>8. LinkInv'
      <4>1. \A f \in Files : f \in INum /\ nlink'[f] = NLinks(dir', f)
        BY <1>4, <3>2, <3>7 DEF LinkInv, INum
      <4>2. \A d \in Dirs : d \in INum /\ nlink[d] \in Nat /\ nlink[d] > 0
        BY <1>4 DEF LinkInv, INum
      <4>3. \A d \in Dirs : nlink'[d] > 0
        BY <3>2, <4>2
      <4> QED BY <3>2, <3>6, <4>1, <4>3 DEF LinkInv
    <3> QED BY <1>1, <2>1, <3>1, <3>4, <3>8, AfterEnd
  <2> QED BY <2>2, <2>3
<1> QED BY <1>5, <1>6

\* Two counts of links that differ for one inode at most.
OnlyAt(n, links, less) ==
    links \in [INum -> Nat] /\ less \in [INum -> Nat] /\ \A m \in INum \ {n} : less[m] = links[m]

\* A file loses a link while somebody, at least the caller, holds it and has read
\* it: nothing is removed yet.
LEMMA LinkLost ==
    ASSUME NEW c, NEW gone, NEW links, CacheOK(c, gone, links),
           NEW e \in Entry, c[e].refCount > 0, links[c[e].inum] > 0,
           NEW less, OnlyAt(c[e].inum, links, less)
    PROVE  /\ CacheOK(lock(c, e), gone, less)
           /\ \A g \in Entry : lock(c, e)[g].refCount = c[g].refCount
<1> DEFINE d == lock(c, e)
           inum == c[e].inum
<1>1. c \in Cache /\ Coherent(c) /\ Removed(c, gone, links)
  BY DEF CacheOK
<1>2. /\ inum \in INum /\ \A g \in Entry : c[g].refCount > 0 => c[g].inum \in INum
      /\ \A g \in Entry : c[g].refCount > 0 /\ c[g].inum = inum => g = e
  BY <1>1 DEF Coherent, Cache, INodeEntry
<1>3. /\ d \in Cache /\ Coherent(d)
      /\ \A g \in Entry : d[g].refCount = c[g].refCount /\ d[g].inum = c[g].inum
      /\ d[e].valid
      /\ Removed(d, gone, links)
  BY <1>1, LockKeeps
<1> HIDE DEF d, inum
<1>4. /\ less \in [INum -> Nat]
      /\ \A n \in INum : n # inum => less[n] = links[n]
  BY <1>2 DEF OnlyAt, inum
<1>5. \A n \in INum : (links[n] = 0 /\ Unused(d, n)) <=> (less[n] = 0 /\ Unused(d, n))
  <2>1. ~Unused(d, inum)
    BY <1>3 DEF Unused, inum
  <2> QED BY <1>4, <2>1
<1>6. \A g \in Entry : d[g].refCount > 0 /\ less[d[g].inum] = 0 => d[g].valid
  <2>1. \A g \in Entry : d[g].refCount > 0 /\ d[g].inum = inum => d[g].valid
    BY <1>2, <1>3
  <2>2. \A g \in Entry : d[g].refCount > 0 /\ d[g].inum # inum => less[d[g].inum] = links[d[g].inum]
    BY <1>2, <1>3, <1>4
  <2>3. \A g \in Entry : d[g].refCount > 0 /\ links[d[g].inum] = 0 => d[g].valid
    BY <1>3 DEF Removed
  <2> QED BY <2>1, <2>2, <2>3
<1>7. Removed(d, gone, less)
  BY <1>3, <1>5, <1>6 DEF Removed
<1> QED BY <1>3, <1>4, <1>7 DEF CacheOK, d

LEMMA UnlinkKeeps ==
    ASSUME FileTableInv, unlink
    PROVE  FileTableInv'
<1> DEFINE r == dir_lookup(iCache, op.ip, op.name)
           at == iCache[op.ip].contents
           inum == dir[at][op.name]
           s == IF r.found THEN inode_put(put(r.c, r.ip), op.ip) ELSE put(r.c, op.ip)
           links == [nlink EXCEPT ![inum] = @ - 1]
           x == [c |-> lock(r.c, r.ip), freed |-> freed, nlink |-> links]
           t == inode_put(inode_put(x, r.ip), op.ip)
<1>1. /\ op.pc = "parent" /\ UNCHANGED <<file, fds, cwd, lost>>
      /\ IF r.found /\ r.ip = 0
         THEN /\ op' = [op EXCEPT !.pc = "null"]
              /\ UNCHANGED <<iCache, freed, dir, nlink>>
         ELSE /\ op' = Idle
              /\ IF inum \notin Files
                 THEN /\ iCache' = s.c /\ freed' = s.freed
                      /\ UNCHANGED <<dir, nlink>>
                 ELSE /\ nlink' = links
                      /\ dir' = [dir EXCEPT ![at][op.name] = 0]
                      /\ iCache' = t.c
                      /\ freed' = t.freed
  BY DEF unlink
<1>2. iCache \in Cache /\ Coherent(iCache)
  BY <1>1, Before DEF CacheOK
<1>3. /\ at \in Dirs /\ op.name \in Name /\ LinkInv /\ nlink \in [INum -> Nat]
      /\ dir \in [Dirs -> [Name -> INum \cup {0}]] /\ 0 \notin INum
  BY <1>1, FileTableAssumption DEF FileTableInv, OpInv, LinkInv
<1>4. CASE r.found /\ r.ip = 0
  BY <1>1, <1>2, <1>4, AfterNull
<1>5. CASE ~(r.found /\ r.ip = 0) /\ inum \notin Files
  <2>1. /\ r.found \in BOOLEAN
        /\ CacheOK(s.c, s.freed, nlink)
        /\ \A e \in Entry : s.c[e].refCount
               = iCache[e].refCount - (IF op.ip = e THEN 1 ELSE 0)
    BY <1>1, <1>5, LastName
  <2> HIDE DEF r, s, inum, at, t, links
  <2>2. /\ CacheOK(iCache', freed', nlink')
        /\ \A e \in Entry : iCache'[e].refCount
               = iCache[e].refCount - (IF op.ip = e THEN 1 ELSE 0)
        /\ UNCHANGED <<dir, nlink>> /\ op' = Idle
    BY <1>1, <1>5, <2>1
  <2>3. LinkInv'
    BY <1>3, <2>2 DEF LinkInv
  <2> QED BY <1>1, <2>2, <2>3, AfterEnd
<1>6. CASE ~(r.found /\ r.ip = 0) /\ inum \in Files
  <2>1. /\ inum \in INum /\ inum # 0
    BY <1>3, <1>6 DEF INum
  <2>2. r.found <=> inum # 0
    BY <1>1, LastName
  <2>3. r.found /\ r.ip # 0
    BY <1>6, <2>1, <2>2
  <2>4. /\ r.ip \in Entry /\ r.c[r.ip].inum = inum /\ nlink[inum] > 0
        /\ CacheOK(r.c, freed, nlink)
        /\ \A e \in Entry : r.c[e].refCount
               = iCache[e].refCount + (IF e = r.ip THEN 1 ELSE 0)
    BY <1>1, <2>3, LastName
  <2>5. /\ op.ip \in Entry /\ iCache[op.ip].refCount > 0
        /\ \A e \in Entry : iCache[e].refCount \in Nat
    BY <1>1, Before
  <2> DEFINE d == r.ip
             c == r.c
             k == lock(r.c, r.ip)
  <2> HIDE DEF r, inum, at, s, links
  <2>6. /\ d \in Entry /\ c[d].inum = inum /\ CacheOK(c, freed, nlink)
        /\ \A e \in Entry : c[e].refCount = iCache[e].refCount + (IF e = d THEN 1 ELSE 0)
    BY <2>4
  <2> HIDE DEF c, d
  <2>7. c[d].refCount = iCache[d].refCount + 1 /\ iCache[d].refCount \in Nat
    BY <2>5, <2>6
  <2>8. c[d].refCount > 0
    BY <2>7
  <2>9. links \in [INum -> Nat] /\ OnlyAt(c[d].inum, nlink, links) /\ nlink[c[d].inum] > 0
    <3>1. nlink[inum] \in Nat /\ nlink[inum] - 1 \in Nat
      BY <1>3, <2>1, <2>4
    <3>2. links \in [INum -> Nat]
      BY <1>3, <2>1, <3>1 DEF links
    <3> QED BY <1>3, <2>1, <2>4, <2>6, <3>2 DEF links, OnlyAt
  <2>10. /\ CacheOK(lock(c, d), freed, links)
         /\ \A g \in Entry : lock(c, d)[g].refCount = c[g].refCount
    BY <2>6, <2>8, <2>9, LinkLost
  <2>11. /\ CacheOK(k, freed, links)
         /\ \A e \in Entry : k[e].refCount = iCache[e].refCount + (IF e = d THEN 1 ELSE 0)
    BY <2>6, <2>10 DEF c, d
  <2> HIDE DEF k
  <2>12. /\ k[d].refCount > 0 /\ k[op.ip].refCount > 0
         /\ d = op.ip => k[op.ip].refCount > 1
    <3>1. k[d].refCount = iCache[d].refCount + 1 /\ iCache[d].refCount \in Nat
      BY <2>5, <2>6, <2>11
    <3>2. /\ k[op.ip].refCount = iCache[op.ip].refCount + (IF op.ip = d THEN 1 ELSE 0)
          /\ iCache[op.ip].refCount \in Nat /\ iCache[op.ip].refCount > 0
      BY <2>5, <2>11
    <3>3. CASE d = op.ip
      BY <3>1, <3>2, <3>3
    <3>4. CASE d # op.ip
      BY <3>1, <3>2, <3>4
    <3> QED BY <3>3, <3>4
  <2> DEFINE y == [c |-> k, freed |-> freed, nlink |-> links]
             z == inode_put(inode_put(y, d), op.ip)
  <2>13. op.ip \in Entry /\ d \in Entry
    BY <2>5, <2>6
  <2>14. CacheOK(k, freed, links) /\ links \in [INum -> Nat]
    BY <2>9, <2>11
  <2>15. /\ CacheOK(z.c, z.freed, links)
         /\ \A e \in Entry : z.c[e].refCount
                = (k[e].refCount - (IF e = d THEN 1 ELSE 0)) - (IF e = op.ip THEN 1 ELSE 0)
    BY <2>12, <2>13, <2>14, PutTwice
  <2>16. t = z
    BY DEF k, d, c
  <2> HIDE DEF t, z
  <2>17. /\ nlink' = links /\ dir' = [dir EXCEPT ![at][op.name] = 0]
         /\ iCache' = z.c /\ freed' = z.freed /\ op' = Idle
    BY <1>1, <1>6, <2>16
  <2>18. \A e \in Entry : iCache'[e].refCount
             = iCache[e].refCount - (IF op.ip = e THEN 1 ELSE 0)
    BY <2>5, <2>11, <2>15, <2>17
  <2>19. CacheOK(iCache', freed', nlink')
    BY <2>15, <2>17
  <2>20. LinkInv'
    <3>1. /\ nlink' \in [INum -> Nat]
          /\ \A n \in INum : nlink'[n] = IF n = inum THEN nlink[n] - 1 ELSE nlink[n]
      BY <1>3, <2>1, <2>9, <2>17 DEF links
    <3>2. Written(dir, at, op.name, 0, dir')
      BY <1>3, <2>17 DEF Written
    <3>3. ASSUME NEW n \in INum
          PROVE  NLinks(dir', n) = IF n = inum THEN NLinks(dir, n) - 1 ELSE NLinks(dir, n)
      <4>1. /\ dir[at][op.name] = n /\ 0 # n => NLinks(dir', n) = NLinks(dir, n) - 1
            /\ dir[at][op.name] # n /\ 0 # n => NLinks(dir', n) = NLinks(dir, n)
        BY <3>2, LinkChange
      <4> QED BY <1>3, <4>1 DEF inum
    <3>4. \A f \in Files : f \in INum /\ nlink'[f] = NLinks(dir', f)
      BY <1>3, <3>1, <3>3 DEF LinkInv, INum
    <3>5. \A f \in Dirs : f \in INum /\ f # inum /\ nlink[f] > 0
      BY <1>3, <1>6, FileTableAssumption DEF LinkInv, INum
    <3>6. \A f \in Dirs : nlink'[f] > 0
      BY <3>1, <3>5
    <3> QED BY <3>1, <3>2, <3>4, <3>6 DEF LinkInv, Written
  <2> QED BY <1>1, <2>17, <2>18, <2>19, <2>20, AfterEnd
<1> QED BY <1>4, <1>5, <1>6

----------------------------------------------------------------------------
(* Files *)

DescOf(f) == {d \in FD : fds[d] = f}

LEMMA DescCounted ==
    ASSUME NEW f
    PROVE  /\ IsFiniteSet(DescOf(f)) /\ Cardinality(DescOf(f)) \in Nat
           /\ Cardinality(DescOf(f)) = 0 <=> DescOf(f) = {}
<1>1. IsFiniteSet(DescOf(f))
  BY FileTableAssumption, FS_Subset DEF DescOf
<1> QED BY <1>1, FS_CardinalityType, FS_EmptySet

\* After an operation on files: the references of the files and of the walk are
\* again those that the cache counts.
LEMMA AfterFiles ==
    ASSUME FileTableInv, UNCHANGED <<cwd, dir, nlink, lost>>, CacheOK(iCache', freed', nlink'),
           file' \in [Slot -> [refCount : Nat, type : {"FD_NONE", "FD_INODE"},
                               ip : Entry \cup {0}]],
           fds' \in [FD -> Slot \cup {0}], FileInv', FileRefs', OpInv',
           \A e \in Entry : iCache'[e].refCount = Holders(e)'
    PROVE  FileTableInv'
<1>1. iCache' \in Cache /\ Coherent(iCache') /\ Removed(iCache', freed', nlink')
  BY DEF CacheOK
<1>2. Entry' = Entry
  BY <1>1, EntriesStay
<1>3. freed' \subseteq INum
  BY <1>1 DEF Removed
<1>4. TypeOK'
  BY <1>1, <1>2, <1>3 DEF FileTableInv, TypeOK, Cache, INodeEntry, OpInv
<1>5. CacheInv' /\ LinkInv'
  BY <1>1, <1>2 DEF FileTableInv, CacheInv, Coherent, LinkInv
<1>6. Removed(iCache, freed, nlink)'
  BY <1>1, <1>2 DEF Removed, Unused
<1> QED BY <1>2, <1>4, <1>5, <1>6 DEF FileTableInv

\* open(): the new file takes over the reference that the lookup took.
LEMMA OpenKeeps ==
    ASSUME FileTableInv, NEW fd \in FD, open(fd)
    PROVE  FileTableInv'
<1> DEFINE r == dir_lookup(iCache, op.ip, op.name)
           f == file_alloc
           one == put(r.c, op.ip)
           rev == inode_put(put(r.c, op.ip), r.ip)
           s == IF r.found /\ f = 0 THEN rev ELSE one
<1>1. /\ op.pc = "parent" /\ fds[fd] = 0 /\ UNCHANGED <<dir, nlink, cwd, lost>>
      /\ IF r.found /\ r.ip = 0
         THEN /\ op' = [op EXCEPT !.pc = "null"]
              /\ UNCHANGED <<iCache, freed, file, fds>>
         ELSE /\ iCache' = s.c /\ freed' = s.freed
              /\ op' = Idle
              /\ IF r.found /\ f # 0
                 THEN /\ file' = [file EXCEPT ![f] = [refCount |-> 1, type |-> "FD_INODE",
                                                      ip |-> r.ip]]
                      /\ fds' = [fds EXCEPT ![fd] = f]
                 ELSE UNCHANGED <<file, fds>>
  BY DEF open
<1>2. iCache \in Cache /\ Coherent(iCache) /\ Entry \subseteq Nat \ {0}
  BY <1>1, Before DEF CacheOK
<1>3. CASE r.found /\ r.ip = 0
  BY <1>1, <1>2, <1>3, AfterNull
<1>4. CASE ~(r.found /\ r.ip = 0) /\ ~(r.found /\ f # 0)
  <2>1. /\ CacheOK(s.c, s.freed, nlink)
        /\ \A e \in Entry : s.c[e].refCount
               = iCache[e].refCount - (IF op.ip = e THEN 1 ELSE 0)
    BY <1>1, <1>4, LastName
  <2> HIDE DEF r, f, one, rev, s
  <2>2. /\ CacheOK(iCache', freed', nlink')
        /\ \A e \in Entry : iCache'[e].refCount
               = iCache[e].refCount - (IF op.ip = e THEN 1 ELSE 0)
        /\ UNCHANGED <<file, fds, cwd, lost>> /\ op' = Idle
    BY <1>1, <1>4, <2>1
  <2>3. LinkInv'
    BY <1>1 DEF FileTableInv, LinkInv
  <2> QED BY <1>1, <2>2, <2>3, AfterEnd
<1>5. CASE r.found /\ r.ip # 0 /\ f # 0
  <2>1. /\ r.ip \in Entry /\ CacheOK(one.c, one.freed, nlink)
        /\ \A e \in Entry : one.c[e].refCount
               = (iCache[e].refCount + (IF e = r.ip THEN 1 ELSE 0))
                                     - (IF op.ip = e THEN 1 ELSE 0)
    BY <1>1, <1>5, LastName
  <2>2. f \in Slot /\ file[f].refCount = 0
    <3> DEFINE empty == {g \in Slot : file[g].refCount = 0}
    <3>1. empty # {} /\ f = Min(empty)
      BY <1>5 DEF file_alloc
    <3>2. empty \subseteq Nat
      BY DEF Slot
    <3>3. Min(empty) \in empty
      BY <3>1, <3>2, MinOf
    <3> HIDE DEF f
    <3> QED BY <3>1, <3>3
  <2> DEFINE ip == r.ip
  <2>3. /\ iCache' = one.c /\ freed' = one.freed /\ op' = Idle
        /\ file' = [file EXCEPT ![f] = [refCount |-> 1, type |-> "FD_INODE", ip |-> ip]]
        /\ fds' = [fds EXCEPT ![fd] = f]
    BY <1>1, <1>5
  <2>4. ip \in Entry /\ ip # 0
    BY <1>2, <2>1
  <2>5. /\ CacheOK(iCache', freed', nlink')
        /\ \A e \in Entry : iCache'[e].refCount
               = (iCache[e].refCount + (IF e = ip THEN 1 ELSE 0))
                                     - (IF op.ip = e THEN 1 ELSE 0)
    BY <1>1, <2>1, <2>3
  <2> HIDE DEF r, f, one, rev, s, ip
  <2>6. Entry' = Entry
    BY <2>5, EntriesStay DEF CacheOK
  <2>7. /\ file \in [Slot -> [refCount : Nat, type : {"FD_NONE", "FD_INODE"}, ip : Entry \cup {0}]]
        /\ fds \in [FD -> Slot \cup {0}] /\ FileRefs /\ FileInv
    BY DEF FileTableInv, TypeOK
  <2>8. /\ file' \in [Slot -> [refCount : Nat, type : {"FD_NONE", "FD_INODE"},
                               ip : Entry \cup {0}]]
        /\ fds' \in [FD -> Slot \cup {0}]
    BY <2>2, <2>3, <2>4, <2>7
  <2>9. /\ file'[f].refCount = 1 /\ file'[f].type = "FD_INODE" /\ file'[f].ip = ip
        /\ \A g \in Slot : g # f => file'[g] = file[g]
    BY <2>2, <2>3, <2>7
  <2>10. FileInv'
    BY <2>4, <2>7, <2>9 DEF FileInv
  <2>11. FileRefs'
    <3>1. file[f].refCount = Cardinality(DescOf(f))
      BY <2>2, <2>7 DEF FileRefs, DescOf
    <3>2. DescOf(f) = {}
      BY <2>2, <3>1, DescCounted
    <3>3. \A g \in Slot : /\ g = f => DescOf(g)' = {fd}
                          /\ g # f => DescOf(g)' = DescOf(g)
      BY <1>1, <2>2, <2>3, <2>7, <3>2 DEF DescOf, Slot
    <3>4. Cardinality({fd}) = 1
      BY FS_Singleton
    <3>5. \A g \in Slot : /\ file[g].refCount = Cardinality(DescOf(g))
                          /\ file[g].refCount > 0 <=> file[g].type = "FD_INODE"
      BY <2>7 DEF FileRefs, DescOf
    <3>6. ASSUME NEW g \in Slot
          PROVE  /\ file'[g].refCount = Cardinality(DescOf(g)')
                 /\ file'[g].refCount > 0 <=> file'[g].type = "FD_INODE"
      <4>1. CASE g = f
        BY <2>9, <3>3, <3>4, <4>1
      <4>2. CASE g # f
        BY <2>9, <3>3, <3>5, <4>2
      <4> QED BY <4>1, <4>2
    <3> QED BY <3>6 DEF FileRefs, DescOf
  <2>12. op'.ip = 0 /\ OpInv'
    BY <2>3 DEF OpInv, Idle
  <2>13. ASSUME NEW e \in Entry PROVE iCache'[e].refCount = Holders(e)'
    <3>1. f \notin FilesOf(e)
      <4>1. file[f].refCount > 0 <=> file[f].type = "FD_INODE"
        BY <2>2, <2>7 DEF FileRefs
      <4> QED BY <2>2, <4>1 DEF FilesOf
    <3>2. FilesOf(e)' = IF e = ip THEN FilesOf(e) \cup {f} ELSE FilesOf(e)
      BY <2>2, <2>9, <3>1 DEF FilesOf
    <3>3. IsFiniteSet(FilesOf(e)) /\ Cardinality(FilesOf(e)) \in Nat
      BY FilesCounted
    <3>4. Cardinality(FilesOf(e) \cup {f}) = Cardinality(FilesOf(e)) + 1
      BY <3>1, <3>3, FS_AddElement
    <3>5. Cardinality(FilesOf(e))' = Cardinality(FilesOf(e)) + (IF e = ip THEN 1 ELSE 0)
      BY <3>2, <3>3, <3>4
    <3>6. iCache[e].refCount = Holders(e) /\ e # 0
      BY <1>1, <1>2, Before
    <3>7. lost[e] \in Nat
      BY DEF FileTableInv, TypeOK
    <3> QED BY <1>1, <2>5, <2>12, <3>3, <3>5, <3>6, <3>7 DEF Holders
  <2> QED BY <1>1, <2>5, <2>8, <2>10, <2>11, <2>12, <2>13, AfterFiles
<1> QED BY <1>3, <1>4, <1>5

\* file_dup()
LEMMA FileDupKeeps ==
    ASSUME FileTableInv, NEW d \in FD, NEW fd \in FD, file_dup(d, fd)
    PROVE  FileTableInv'
<1> DEFINE f == fds[d]
<1>1. /\ op.pc = "idle" /\ f # 0 /\ fds[fd] = 0
      /\ file' = [file EXCEPT ![f].refCount = @ + 1]
      /\ fds' = [fds EXCEPT ![fd] = f]
      /\ UNCHANGED <<iCache, freed, dir, nlink, cwd, op, lost>>
  BY DEF file_dup
<1>2. /\ file \in [Slot -> [refCount : Nat, type : {"FD_NONE", "FD_INODE"}, ip : Entry \cup {0}]]
      /\ fds \in [FD -> Slot \cup {0}] /\ FileRefs /\ FileInv /\ OpInv
  BY DEF FileTableInv, TypeOK
<1>3. f \in Slot /\ fds[fd] \notin Slot
  BY <1>1, <1>2 DEF Slot
<1>4. /\ file' \in [Slot -> [refCount : Nat, type : {"FD_NONE", "FD_INODE"}, ip : Entry \cup {0}]]
      /\ fds' \in [FD -> Slot \cup {0}]
      /\ \A g \in Slot : /\ file'[g].refCount = file[g].refCount + (IF g = f THEN 1 ELSE 0)
                         /\ file'[g].type = file[g].type
                         /\ file'[g].ip = file[g].ip
  BY <1>1, <1>2, <1>3
<1>5. d \in DescOf(f) /\ fd \notin DescOf(f)
  BY <1>1, <1>3 DEF DescOf
<1> HIDE DEF f
<1>6. \A g \in Slot : DescOf(g)' = IF g = f THEN DescOf(g) \cup {fd} ELSE DescOf(g)
  BY <1>1, <1>2, <1>3 DEF DescOf
<1>7. Cardinality(DescOf(f) \cup {fd}) = Cardinality(DescOf(f)) + 1
  <2>1. IsFiniteSet(DescOf(f))
    BY DescCounted
  <2> QED BY <1>5, <2>1, FS_AddElement
<1>8. FileRefs'
  <2>1. \A g \in Slot : /\ file[g].refCount \in Nat /\ file[g].refCount = Cardinality(DescOf(g))
                        /\ file[g].refCount > 0 <=> file[g].type = "FD_INODE"
    BY <1>2 DEF FileRefs, DescOf
  <2>2. Cardinality(DescOf(f)) # 0
    BY <1>5, DescCounted
  <2>3. ASSUME NEW g \in Slot
        PROVE  /\ file'[g].refCount = Cardinality(DescOf(g)')
               /\ file'[g].refCount > 0 <=> file'[g].type = "FD_INODE"
    <3>1. CASE g = f
      <4>1. /\ file[g].refCount \in Nat /\ file[g].refCount # 0 /\ file[g].type = "FD_INODE"
            /\ file[g].refCount = Cardinality(DescOf(g))
        BY <2>1, <2>2, <3>1
      <4>2. DescOf(g)' = DescOf(f) \cup {fd} /\ DescOf(g) = DescOf(f)
        BY <1>6, <3>1
      <4>3. Cardinality(DescOf(g)') = file[g].refCount + 1
        BY <1>7, <4>1, <4>2
      <4>4. file'[g].refCount = file[g].refCount + 1 /\ file'[g].type = file[g].type
        BY <1>4, <3>1
      <4> QED BY <4>1, <4>3, <4>4
    <3>2. CASE g # f
      BY <1>4, <1>6, <2>1, <3>2
    <3> QED BY <3>1, <3>2
  <2> QED BY <2>3 DEF FileRefs, DescOf
<1>9. FileInv'
  BY <1>2, <1>4 DEF FileInv
<1>10. CacheOK(iCache', freed', nlink')
  BY <1>1, Before
<1>11. Entry' = Entry
  BY <1>10, EntriesStay DEF CacheOK
<1>12. OpInv'
  BY <1>1, <1>2, <1>11 DEF OpInv
<1>13. \A e \in Entry : iCache'[e].refCount = Holders(e)'
  <2>1. \A e \in Entry : FilesOf(e)' = FilesOf(e)
    BY <1>4 DEF FilesOf
  <2>2. \A e \in Entry : iCache[e].refCount = Holders(e)
    BY <1>1, Before
  <2> QED BY <1>1, <2>1, <2>2 DEF Holders
<1> QED BY <1>1, <1>4, <1>8, <1>9, <1>10, <1>12, <1>13, AfterFiles

\* file_close(): the reference of a file goes with its last descriptor.
LEMMA FileCloseKeeps ==
    ASSUME FileTableInv, NEW d \in FD, file_close(d)
    PROVE  FileTableInv'
<1> DEFINE f == fds[d]
           ip == file[f].ip
           last == ~(file[f].refCount > 1)
<1>1. /\ op.pc = "idle" /\ f # 0
      /\ IF file[f].refCount > 1
         THEN /\ file' = [file EXCEPT ![f].refCount = @ - 1]
              /\ UNCHANGED <<iCache, freed>>
         ELSE /\ file' = [file EXCEPT ![f] = NoFile]
              /\ iCache' = put(iCache, ip).c /\ freed' = put(iCache, ip).freed
      /\ fds' = [fds EXCEPT ![d] = 0]
      /\ UNCHANGED <<dir, nlink, cwd, op, lost>>
  BY DEF file_close
<1>2. /\ file \in [Slot -> [refCount : Nat, type : {"FD_NONE", "FD_INODE"}, ip : Entry \cup {0}]]
      /\ fds \in [FD -> Slot \cup {0}] /\ FileRefs /\ FileInv /\ OpInv /\ LinkInv
  BY DEF FileTableInv, TypeOK
<1>3. f \in Slot /\ 0 \notin Slot
  BY <1>1, <1>2 DEF Slot
<1>4. d \in DescOf(f)
  BY DEF DescOf
<1>5. \A g \in Slot : /\ file[g].refCount \in Nat /\ file[g].refCount = Cardinality(DescOf(g))
                      /\ file[g].refCount > 0 <=> file[g].type = "FD_INODE"
  BY <1>2 DEF FileRefs, DescOf
<1>6. file[f].refCount > 0 /\ file[f].type = "FD_INODE"
  <2>1. Cardinality(DescOf(f)) # 0
    BY <1>4, DescCounted
  <2> QED BY <1>3, <1>5, <2>1
<1>7. ip \in Entry /\ iCache[ip].refCount > 0
  BY <1>1, <1>3, <1>6, Before
<1> HIDE DEF f, ip
<1>8. \A g \in Slot : DescOf(g)' = IF g = f THEN DescOf(g) \ {d} ELSE DescOf(g)
  BY <1>1, <1>2, <1>3 DEF DescOf, f
<1>9. Cardinality(DescOf(f) \ {d}) = file[f].refCount - 1
  <2>1. IsFiniteSet(DescOf(f))
    BY DescCounted
  <2>2. Cardinality(DescOf(f) \ {d}) = Cardinality(DescOf(f)) - 1
    BY <1>4, <2>1, FS_RemoveElement
  <2> QED BY <1>3, <1>5, <2>2
<1>10. /\ file' \in [Slot -> [refCount : Nat, type : {"FD_NONE", "FD_INODE"}, ip : Entry \cup {0}]]
       /\ fds' \in [FD -> Slot \cup {0}]
       /\ \A g \in Slot : g # f => file'[g] = file[g]
       /\ file'[f].refCount = file[f].refCount - 1
       /\ file'[f].type = IF last THEN "FD_NONE" ELSE "FD_INODE"
       /\ ~last => file'[f].ip = ip
  <2>1. CASE ~last
    <3>1. /\ file' = [file EXCEPT ![f].refCount = @ - 1]
          /\ file[f].refCount - 1 \in Nat
      BY <1>1, <1>3, <1>5, <2>1
    <3> QED BY <1>1, <1>2, <1>3, <1>6, <2>1, <3>1 DEF ip
  <2>2. CASE last
    <3>1. file' = [file EXCEPT ![f] = NoFile] /\ file[f].refCount = 1
      BY <1>1, <1>3, <1>5, <1>6, <2>2
    <3>2. file'[f] = NoFile /\ file[f].refCount - 1 = 0
      BY <1>2, <1>3, <3>1
    <3> QED BY <1>1, <1>2, <1>3, <2>2, <3>1, <3>2 DEF NoFile
  <2> QED BY <2>1, <2>2
<1>11. FileRefs'
  <2>1. ASSUME NEW g \in Slot
        PROVE  /\ file'[g].refCount = Cardinality(DescOf(g)')
               /\ file'[g].refCount > 0 <=> file'[g].type = "FD_INODE"
    <3>1. CASE g = f
      <4>1. DescOf(g)' = DescOf(f) \ {d}
        BY <1>8, <3>1
      <4>2. Cardinality(DescOf(g)') = file[f].refCount - 1
        BY <1>9, <4>1
      <4>3. file'[f].refCount > 0 <=> ~last
        BY <1>3, <1>5, <1>10
      <4> QED BY <1>10, <3>1, <4>2, <4>3
    <3>2. CASE g # f
      BY <1>5, <1>8, <1>10, <3>2
    <3> QED BY <3>1, <3>2
  <2> QED BY <2>1 DEF FileRefs, DescOf
<1>12. FileInv'
  <2>1. \A g \in Slot : file'[g].type = "FD_INODE" => file'[g].ip # 0
    <3>1. file'[f].type = "FD_INODE" => file'[f].ip # 0
      BY <1>2, <1>3, <1>6, <1>10 DEF FileInv, ip
    <3>2. \A g \in Slot : g # f => (file'[g].type = "FD_INODE" => file'[g].ip # 0)
      BY <1>2, <1>10 DEF FileInv
    <3> QED BY <3>1, <3>2
  <2> QED BY <2>1 DEF FileInv
<1>13. /\ CacheOK(iCache', freed', nlink')
       /\ \A e \in Entry : iCache'[e].refCount
              = iCache[e].refCount - (IF last /\ e = ip THEN 1 ELSE 0)
  <2>1. CacheOK(iCache, freed, nlink) /\ \A e \in Entry : iCache[e].refCount \in Nat
    BY <1>1, Before
  <2>2. CASE last
    <3>1. /\ CacheOK(put(iCache, ip).c, put(iCache, ip).freed, nlink)
          /\ \A e \in Entry : put(iCache, ip).c[e].refCount
                                  = iCache[e].refCount - (IF e = ip THEN 1 ELSE 0)
      BY <1>2, <1>7, <2>1, PutOne
    <3> QED BY <1>1, <2>2, <3>1
  <2>3. CASE ~last
    BY <1>1, <2>1, <2>3
  <2> QED BY <2>2, <2>3
<1>14. Entry' = Entry
  BY <1>13, EntriesStay DEF CacheOK
<1>15. OpInv'
  BY <1>1, <1>2, <1>14 DEF OpInv
<1>16. ASSUME NEW e \in Entry PROVE iCache'[e].refCount = Holders(e)'
  <2>1. FilesOf(e)' = IF last /\ e = ip THEN FilesOf(e) \ {f} ELSE FilesOf(e)
    <3>1. f \in FilesOf(e) <=> e = ip
      BY <1>3, <1>6 DEF FilesOf, ip
    <3>2. f \in FilesOf(e)' <=> ~last /\ e = ip
      BY <1>3, <1>10 DEF FilesOf
    <3>3. \A g \in Slot : g # f => (g \in FilesOf(e)' <=> g \in FilesOf(e))
      BY <1>10 DEF FilesOf
    <3>4. FilesOf(e) \subseteq Slot /\ FilesOf(e)' \subseteq Slot
      BY DEF FilesOf
    <3> HIDE DEF last
    <3> QED BY <1>3, <3>1, <3>2, <3>3, <3>4
  <2>2. IsFiniteSet(FilesOf(e)) /\ Cardinality(FilesOf(e)) \in Nat
    BY FilesCounted
  <2>3. e = ip => Cardinality(FilesOf(e) \ {f}) = Cardinality(FilesOf(e)) - 1
    <3>1. e = ip => f \in FilesOf(e)
      BY <1>3, <1>6 DEF FilesOf, ip
    <3> QED BY <2>2, <3>1, FS_RemoveElement
  <2>4. Cardinality(FilesOf(e)') = Cardinality(FilesOf(e)) - (IF last /\ e = ip THEN 1 ELSE 0)
    BY <2>1, <2>2, <2>3
  <2>5. iCache[e].refCount = Holders(e)
    BY <1>1, Before
  <2>6. lost[e] \in Nat
    BY DEF FileTableInv, TypeOK
  <2> HIDE DEF last
  <2> QED BY <1>1, <1>13, <2>2, <2>4, <2>5, <2>6 DEF Holders
<1> QED BY <1>1, <1>10, <1>11, <1>12, <1>13, <1>15, <1>16, AfterFiles

----------------------------------------------------------------------------
(* The theorems *)

LEMMA FileTableNext ==
    ASSUME FileTableInv, [Next]_vars
    PROVE  FileTableInv'
<1>1. CASE \E path \in Paths, absolute \in BOOLEAN :
               \/ \E call \in {"name_i", "unlink"} : name_x(call, path, absolute, 0)
               \/ (\E fd \in FD : fds[fd] = 0) /\ name_x("open", path, absolute, 0)
               \/ \E d \in FD : fds[d] # 0 /\ name_x("link", path, absolute, fds[d])
  <2>1. PICK path \in Paths, absolute \in BOOLEAN :
               \/ \E call \in {"name_i", "unlink"} : name_x(call, path, absolute, 0)
               \/ name_x("open", path, absolute, 0)
               \/ \E d \in FD : fds[d] # 0 /\ name_x("link", path, absolute, fds[d])
    BY <1>1
  <2>2. CASE \E call \in {"name_i", "unlink"} : name_x(call, path, absolute, 0)
    BY <2>2, NameKeeps
  <2>3. CASE name_x("open", path, absolute, 0)
    BY <2>3, NameKeeps
  <2>4. CASE \E d \in FD : fds[d] # 0 /\ name_x("link", path, absolute, fds[d])
    <3>1. PICK d \in FD : fds[d] # 0 /\ name_x("link", path, absolute, fds[d])
      BY <2>4
    <3>2. fds[d] \in Slot
      BY <3>1 DEF FileTableInv, TypeOK
    <3>3. Cardinality(DescOf(fds[d])) \in Nat /\ Cardinality(DescOf(fds[d])) # 0
      <4>1. d \in DescOf(fds[d])
        BY DEF DescOf
      <4> QED BY <4>1, DescCounted
    <3>4. file[fds[d]].refCount = Cardinality(DescOf(fds[d]))
      BY <3>2 DEF FileTableInv, FileRefs, DescOf
    <3>5. file[fds[d]].refCount > 0
      BY <3>3, <3>4
    <3> QED BY <3>1, <3>2, <3>5, NameKeeps
  <2> QED BY <2>1, <2>2, <2>3, <2>4
<1>2. CASE UNCHANGED vars
  <2>1. UNCHANGED <<iCache, freed, file, fds, dir, nlink, cwd, op, lost, Entry>>
    BY <1>2 DEF vars, Entry
  <2>2. TypeOK' /\ FileInv' /\ FileRefs'
    <3>1. TypeOK /\ FileInv /\ FileRefs
      BY DEF FileTableInv
    <3>2. TypeOK'
      BY <2>1, <3>1 DEF TypeOK, Cache
    <3>3. FileInv'
      BY <2>1, <3>1 DEF FileInv
    <3>4. FileRefs'
      BY <2>1, <3>1 DEF FileRefs
    <3> QED BY <3>2, <3>3, <3>4
  <2>3. CacheInv' /\ LinkInv'
    BY <2>1 DEF FileTableInv, CacheInv, Coherent, LinkInv
  <2>4. OpInv'
    BY <2>1 DEF FileTableInv, OpInv
  <2>5. op'.pc # "null" => \A e \in Entry : iCache'[e].refCount = Holders(e)'
    <3>1. \A e \in Entry : Holders(e)' = Holders(e)
      BY <2>1 DEF Holders, FilesOf
    <3> QED BY <2>1, <3>1 DEF FileTableInv
  <2>6. op'.pc # "null" => Removed(iCache, freed, nlink)'
    BY <2>1 DEF FileTableInv, Removed, Unused
  <2> QED BY <2>1, <2>2, <2>3, <2>4, <2>5, <2>6 DEF FileTableInv
<1>3. CASE \E fd \in FD : open(fd)
  BY <1>3, OpenKeeps
<1>4. CASE \E d, fd \in FD : file_dup(d, fd)
  BY <1>4, FileDupKeeps
<1>5. CASE \E d \in FD : file_close(d)
  BY <1>5, FileCloseKeeps
<1> QED BY <1>1, <1>2, <1>3, <1>4, <1>5, StepKeeps, WildKeeps, LinkKeeps, UnlinkKeeps
        DEF Next, stopped

LEMMA FileTableInvariant == Spec => []FileTableInv
<1>1. Init => FileTableInv
  BY FileTableInit
<1>2. FileTableInv /\ [Next]_vars => FileTableInv'
  BY FileTableNext
<1> QED BY <1>1, <1>2, PTL DEF Spec

\* Every reference to an inode that the plugin takes in name_x(), dir_lookup() and
\* dir_link() is counted once, and is held, was given back once or is one of those that
\* name_x() forgot, on every path, for every tree and all sizes of the tables.
THEOREM INodesCounted == Spec => []INodeRefs
<1>1. FileTableInv => INodeRefs
  BY DEF FileTableInv, INodeRefs, Holders, FilesOf
<1> QED BY <1>1, FileTableInvariant, PTL

\* A file of the table is in use exactly as long as a descriptor refers to it,
\* whatever file_alloc(), file_dup() and file_close() are called for.
THEOREM FilesInUse == Spec => []FileRefs
<1>1. FileTableInv => FileRefs
  BY DEF FileTableInv
<1> QED BY <1>1, FileTableInvariant, PTL

\* inode_get() never gives an inode a second entry, and an entry that was recycled
\* never shows the inode it held before.
THEOREM OneEntryEach == Spec => []CacheCoherent
<1>1. FileTableInv => CacheCoherent
  BY DEF FileTableInv, CacheInv, Coherent, CacheCoherent
<1> QED BY <1>1, FileTableInvariant, PTL

\* inode_put() removes a file from disk when its last link and its last reference are
\* gone, whichever goes last, and not before.
THEOREM RemovedAtLast == Spec => []RemovedWhenUnused
<1>1. FileTableInv => RemovedWhenUnused
  <2> SUFFICES ASSUME FileTableInv, op.pc # "null" PROVE RemovedWhenUnused
    BY DEF RemovedWhenUnused
  <2>1. Removed(iCache, freed, nlink)
    BY DEF FileTableInv
  <2> QED BY <2>1 DEF Removed, Unused, RemovedWhenUnused
<1> QED BY <1>1, FileTableInvariant, PTL
=============================================================================
