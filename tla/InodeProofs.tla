---------------------------- MODULE InodeProofs ----------------------------
(***************************************************************************)
(* Proofs about the inode of a file, for every size of the blocks, of the  *)
(* map, of the disk and of the log, every disk to start from and every     *)
(* buffer that is written: what is on the disk is consistent and is the    *)
(* file, a read finds what was written, and no transaction outgrows the    *)
(* log.                                                                    *)
(***************************************************************************)
EXTENDS Inode, FiniteSetTheorems, SequenceTheorems, WellFoundedInduction, TLAPS

Content == [Block -> [0 .. (BSIZE - 1) -> Nat]]
Disk == [bitmap : SUBSET Block, content : Content, inode : INode]

Types ==
    /\ disk \in Disk /\ cache \in Disk /\ ip \in INode
    /\ IsFiniteSet(logged) /\ Cardinality(logged) <= LOGSIZE
    /\ off \in Nat /\ i \in Nat /\ tot \in Nat
    /\ pc \in {"closed", "open", "loop", "write", "wild", "full"}

\* The addresses a are blocks of this file alone, each of them once, and the bitmap
\* has them and the blocks of others.
SoundMap(a, bitmap) ==
    /\ a \in [0..MAXFILE -> Block]
    /\ \A j, k \in 0..MAXFILE : a[j] = a[k] /\ a[j] # 0 => j = k
    /\ \A k \in 0..MAXFILE : a[k] # 0 => a[k] \notin used
    /\ bitmap = used \cup (Range(a) \ {0})

\* The blocks at the addresses a hold the file f: every word of it has a block.
Shows(a, content, f) ==
    \A o \in 0 .. (Len(f) - 1) :
        /\ a[Position(o \div BSIZE)] # 0
        /\ content[a[Position(o \div BSIZE)]][o % BSIZE] = f[o + 1]

\* What the transaction in progress has written so far, on top of the file.
Written == Overwrite(file, off, SubSeq(addr, i + 1, i + tot))

\* The blocks that getting the indirect block may log.
IndirectLog(d) == IF d = 0 THEN {} ELSE {BBLOCK(d), DataBlock(d)}

\* The most that writing t words from x on logs for the blocks of data: each of them
\* and its place in the bitmap, but the first one is not new when x is inside of it.
DataLog(x, t) ==
    IF t = 0 THEN 0
    ELSE 2 * (((x + t - 1) \div BSIZE) - (x \div BSIZE) + 1)
         - (IF x % BSIZE # 0 THEN 1 ELSE 0)

\* The disk, whenever the machine stops.
DiskInv ==
    /\ used \subseteq Block /\ 0 \in used
    /\ file \in Seq(Nat) /\ Len(file) = disk.inode.size
    /\ SoundMap(Addresses(disk.inode.addrs, disk.content), disk.bitmap)
    /\ Shows(Addresses(disk.inode.addrs, disk.content), disk.content, file)
    /\ disk.inode.type = T_FREE => disk.inode.nlink = 0 /\ disk.inode.addrs = NoAddrs

\* The open file between transactions: the cache is the disk.
OpenInv ==
    /\ pc \in {"closed", "open", "loop"} => cache = disk /\ logged = {}
    /\ pc \in {"open", "loop"} => ip = disk.inode
    /\ pc \in {"open", "loop", "write"} => ip.type = T_FILE /\ off <= ip.size
    /\ pc \in {"loop", "write"} => addr \in Seq(Nat) /\ i < Len(addr)

\* A transaction of file_write() in progress.
WriteInv ==
    /\ cache.inode = disk.inode
    /\ ip = [disk.inode EXCEPT !.addrs = ip.addrs]
    /\ off + tot <= ip.size => ip.addrs = disk.inode.addrs
    /\ off + n1 <= MAXFILE * BSIZE /\ tot <= n1
    /\ tot \notin {0, n1} => (off + tot) % BSIZE = 0
    /\ SoundMap(Addresses(ip.addrs, cache.content), cache.bitmap)
    /\ Shows(Addresses(ip.addrs, cache.content), cache.content, Written)
    /\ Cardinality(logged \ IndirectLog(ip.addrs[NDIRECT])) <= DataLog(off, tot)

InodeInv == Types /\ DiskInv /\ OpenInv /\ (pc = "write" => WriteInv)

----------------------------------------------------------------------------
(* Numbers *)

LEMMA MinOf ==
    ASSUME NEW S, S \subseteq Nat, S # {}
    PROVE  Min(S) \in S
<1>1. PICK m \in S : \A y \in S : m <= y
  <2> DEFINE R == OpToRel(<, Nat)
  <2>1. IsWellFoundedOn(R, Nat)
    BY NatLessThanWellFounded
  <2>2. \A x, y \in Nat : <<x, y>> \in R <=> x < y
    BY DEF OpToRel
  <2> HIDE DEF R
  <2>3. PICK m \in S : \A y \in S : ~(<<y, m>> \in R)
    BY <2>1, WFMin
  <2>4. m \in Nat /\ \A y \in S : y \in Nat /\ ~(y < m)
    BY <2>2, <2>3
  <2> QED BY <2>4
<1> QED BY <1>1 DEF Min

LEMMA MinTwo ==
    ASSUME NEW a \in Int, NEW b \in Int
    PROVE  Min({a, b}) = IF a <= b THEN a ELSE b
<1>1. \E x \in {a, b} : \A y \in {a, b} : x <= y
  <2>1. CASE a <= b BY <2>1
  <2>2. CASE ~(a <= b) BY <2>2
  <2> QED BY <2>1, <2>2
<1>2. Min({a, b}) \in {a, b} /\ \A y \in {a, b} : Min({a, b}) <= y
  BY <1>1 DEF Min
<1> QED BY <1>2

LEMMA MaxTwo ==
    ASSUME NEW a \in Int, NEW b \in Int
    PROVE  Max({a, b}) = IF a >= b THEN a ELSE b
<1>1. \E x \in {a, b} : \A y \in {a, b} : x >= y
  <2>1. CASE a >= b BY <2>1
  <2>2. CASE ~(a >= b) BY <2>2
  <2> QED BY <2>1, <2>2
<1>2. Max({a, b}) \in {a, b} /\ \A y \in {a, b} : Max({a, b}) >= y
  BY <1>1 DEF Max
<1> QED BY <1>2

LEMMA Sizes ==
    /\ BSIZE \in Nat /\ BSIZE > 0 /\ NDIRECT \in Nat /\ NDIRECT > 0
    /\ NBLOCK \in Nat /\ BPB \in Nat /\ BPB > 0 /\ LOGSIZE \in Nat /\ LOGSIZE >= 6
    /\ MAXFILE \in Nat /\ MAXFILE = NDIRECT + BSIZE
    /\ MAXFILE * BSIZE \in Nat
    /\ Block \subseteq Nat
BY InodeAssumption DEF MAXFILE, NINDIRECT, Block

LEMMA DivisionBy ==
    ASSUME NEW n \in Nat, n > 0, NEW o \in Nat
    PROVE  /\ o \div n \in Nat /\ o % n \in 0 .. (n - 1)
           /\ o = n * (o \div n) + (o % n)
OBVIOUS

LEMMA Division ==
    ASSUME NEW o \in Nat
    PROVE  /\ o \div BSIZE \in Nat /\ o % BSIZE \in 0 .. (BSIZE - 1)
           /\ o % BSIZE \in Nat /\ o % BSIZE < BSIZE
           /\ o = BSIZE * (o \div BSIZE) + (o % BSIZE)
BY Sizes, DivisionBy

LEMMA QuotientBy ==
    ASSUME NEW n \in Nat, n > 0, NEW q \in Nat, NEW r \in 0 .. (n - 1)
    PROVE  (n * q + r) \div n = q /\ (n * q + r) % n = r
<1> DEFINE o == n * q + r
           q2 == o \div n
           r2 == o % n
<1>1. o \in Nat
  OBVIOUS
<1>2. q2 \in Nat /\ r2 \in 0 .. (n - 1) /\ o = n * q2 + r2
  BY <1>1, DivisionBy
<1>3. n * q + r = n * q2 + r2
  BY <1>2
<1> HIDE DEF o, q2, r2
<1>4. ~(q2 < q)
  <2> SUFFICES ASSUME q2 < q PROVE FALSE
    OBVIOUS
  <2>1. n * (q2 + 1) <= n * q
    BY <1>2
  <2>2. n * (q2 + 1) = n * q2 + n
    BY <1>2
  <2> QED BY <2>1, <2>2, <1>2, <1>3
<1>5. ~(q < q2)
  <2> SUFFICES ASSUME q < q2 PROVE FALSE
    OBVIOUS
  <2>1. n * (q + 1) <= n * q2
    BY <1>2
  <2>2. n * (q + 1) = n * q + n
    BY <1>2
  <2> QED BY <2>1, <2>2, <1>2, <1>3
<1>6. q2 = q /\ r2 = r
  <2>1. q2 = q
    BY <1>2, <1>4, <1>5
  <2> QED BY <2>1, <1>2, <1>3
<1> QED BY <1>6 DEF o, q2, r2

\* The words that follow word o in its block.
LEMMA InBlock ==
    ASSUME NEW o \in Nat, NEW d \in Nat, (o % BSIZE) + d < BSIZE
    PROVE  (o + d) \div BSIZE = o \div BSIZE /\ (o + d) % BSIZE = (o % BSIZE) + d
<1> DEFINE q == o \div BSIZE
           r == o % BSIZE
<1>1. q \in Nat /\ r \in Nat /\ o = BSIZE * q + r
  BY Division, Sizes
<1>2. r + d \in 0 .. (BSIZE - 1) /\ o + d = BSIZE * q + (r + d)
  BY <1>1, Sizes
<1> HIDE DEF q, r
<1> QED BY <1>1, <1>2, Sizes, QuotientBy DEF q, r

\* The last word of a block, and the first of the next one.
LEMMA NextBlock ==
    ASSUME NEW o \in Nat, o > 0, o % BSIZE = 0
    PROVE  o \div BSIZE = (o - 1) \div BSIZE + 1
<1> DEFINE q == o \div BSIZE
<1>1. q \in Nat /\ o = BSIZE * q
  BY Division, Sizes
<1>2. q > 0
  BY <1>1, Sizes
<1>3. q - 1 \in Nat /\ BSIZE - 1 \in 0 .. (BSIZE - 1) /\ o - 1 = BSIZE * (q - 1) + (BSIZE - 1)
  BY <1>1, <1>2, Sizes
<1> HIDE DEF q
<1>4. (o - 1) \div BSIZE = q - 1
  BY <1>3, Sizes, QuotientBy
<1> QED BY <1>1, <1>4 DEF q

LEMMA QuotientBelow ==
    ASSUME NEW o \in Nat, NEW m \in Nat, o < m * BSIZE
    PROVE  o \div BSIZE < m
<1> DEFINE q == o \div BSIZE
           r == o % BSIZE
<1>1. q \in Nat /\ r \in Nat /\ o = BSIZE * q + r
  BY Division, Sizes
<1> HIDE DEF q, r
<1>2. CASE q >= m
  <2>1. BSIZE * q >= BSIZE * m
    BY <1>1, <1>2, Sizes
  <2> QED BY <2>1, <1>1, Sizes
<1> QED BY <1>1, <1>2 DEF q

LEMMA Positions ==
    ASSUME NEW n \in Nat, n < MAXFILE
    PROVE  /\ Position(n) \in 0..MAXFILE /\ Position(n) # NDIRECT
           /\ \A m \in Nat : Position(m) = Position(n) => m = n
BY Sizes DEF Position

LEMMA WordPosition ==
    ASSUME NEW o \in Nat, o < MAXFILE * BSIZE
    PROVE  /\ o \div BSIZE \in Nat /\ o \div BSIZE < MAXFILE
           /\ Position(o \div BSIZE) \in 0..MAXFILE /\ Position(o \div BSIZE) # NDIRECT
BY Sizes, Division, QuotientBelow, Positions

----------------------------------------------------------------------------
(* Getting a block *)

Image(bm, ct, ino) == [bitmap |-> bm, content |-> ct, inode |-> ino]

LEMMA ZeroBlockType == ZeroBlock \in [0 .. (BSIZE - 1) -> Nat]
BY DEF ZeroBlock

\* A free block may take any place of the map that has none.
LEMMA MapGrows ==
    ASSUME NEW a, NEW bm, SoundMap(a, bm), NEW p \in 0..MAXFILE, a[p] = 0,
           NEW b \in Block \ bm, b # 0
    PROVE  SoundMap([a EXCEPT ![p] = b], bm \cup {b})
<1> DEFINE a2 == [a EXCEPT ![p] = b]
<1>1. a \in [0..MAXFILE -> Block] /\ b \in Block
  BY DEF SoundMap
<1>2. a2 \in [0..MAXFILE -> Block] /\ a2[p] = b /\ \A k \in (0..MAXFILE) \ {p} : a2[k] = a[k]
  BY <1>1
<1> HIDE DEF a2
<1>3. \A k \in 0..MAXFILE : a[k] # b
  <2> SUFFICES ASSUME NEW k \in 0..MAXFILE, a[k] = b PROVE FALSE
    OBVIOUS
  <2>1. a[k] \in Range(a) \ {0}
    BY <1>1 DEF Range
  <2> QED BY <2>1 DEF SoundMap
<1>4. b \notin used
  BY DEF SoundMap
<1>5. \A j, k \in 0..MAXFILE : a2[j] = a2[k] /\ a2[j] # 0 => j = k
  BY <1>2, <1>3 DEF SoundMap
<1>6. \A k \in 0..MAXFILE : a2[k] # 0 => a2[k] \notin used
  BY <1>2, <1>4 DEF SoundMap
<1>7. Range(a2) \ {0} = (Range(a) \ {0}) \cup {b}
  <2>1. Range(a2) = {a2[k] : k \in 0..MAXFILE} /\ Range(a) = {a[k] : k \in 0..MAXFILE}
    BY <1>1, <1>2 DEF Range
  <2> QED BY <2>1, <1>2
<1>8. bm \cup {b} = used \cup (Range(a2) \ {0})
  BY <1>7 DEF SoundMap
<1>9. SoundMap(a2, bm \cup {b})
  BY <1>2, <1>5, <1>6, <1>8 DEF SoundMap
<1> QED BY <1>9 DEF a2

LEMMA DirectAt ==
    ASSUME NEW addrs, NEW ct, NEW k \in 0..NDIRECT
    PROVE  Addresses(addrs, ct)[k] = addrs[k]
BY Sizes DEF Addresses

LEMMA IndirectAt ==
    ASSUME NEW addrs, NEW ct, NEW k \in (NDIRECT + 1) .. MAXFILE
    PROVE  Addresses(addrs, ct)[k] = IF addrs[NDIRECT] = 0 THEN 0
                                     ELSE ct[addrs[NDIRECT]][k - NDIRECT - 1]
BY Sizes DEF Addresses

LEMMA AddressesAt ==
    ASSUME NEW addrs, NEW ct
    PROVE  /\ DOMAIN Addresses(addrs, ct) = 0..MAXFILE
           /\ \A k \in 0..NDIRECT : Addresses(addrs, ct)[k] = addrs[k]
           /\ \A k \in (NDIRECT + 1) .. MAXFILE :
                  Addresses(addrs, ct)[k] = IF addrs[NDIRECT] = 0 THEN 0
                                            ELSE ct[addrs[NDIRECT]][k - NDIRECT - 1]
BY Sizes DEF Addresses

\* The addresses are a, place for place.
MapIs(addrs, ct, a) ==
    /\ \A k \in 0..NDIRECT : addrs[k] = a[k]
    /\ \A k \in (NDIRECT + 1) .. MAXFILE :
          a[k] = IF addrs[NDIRECT] = 0 THEN 0 ELSE ct[addrs[NDIRECT]][k - NDIRECT - 1]

LEMMA SameAddresses ==
    ASSUME NEW addrs, NEW ct, NEW a \in [0..MAXFILE -> Block], MapIs(addrs, ct, a)
    PROVE  Addresses(addrs, ct) = a
<1>1. \A k \in 0..MAXFILE : Addresses(addrs, ct)[k] = a[k]
  <2> SUFFICES ASSUME NEW k \in 0..MAXFILE PROVE Addresses(addrs, ct)[k] = a[k]
    OBVIOUS
  <2>1. CASE k \in 0..NDIRECT
    BY <2>1, DirectAt DEF MapIs
  <2>2. CASE k \in (NDIRECT + 1) .. MAXFILE
    <3>1. a[k] = IF addrs[NDIRECT] = 0 THEN 0 ELSE ct[addrs[NDIRECT]][k - NDIRECT - 1]
      BY <2>2 DEF MapIs
    <3> QED BY <2>2, <3>1, IndirectAt
  <2> QED BY <2>1, <2>2, Sizes
<1>2. Addresses(addrs, ct) = [k \in 0..MAXFILE |-> Addresses(addrs, ct)[k]]
  BY DEF Addresses
<1> QED BY <1>1, <1>2

Allocated(bm, ct, ino, b, r) ==
    /\ r.cache = Image(bm \cup {b}, [ct EXCEPT ![b] = ZeroBlock], ino)
    /\ r.addr = b
    /\ r.log = {BBLOCK(b), DataBlock(b)}

\* block_alloc(): one free block, now in the bitmap and zero.
LEMMA Alloc ==
    ASSUME NEW bm \in SUBSET Block, NEW ct \in Content, NEW ino,
           block_alloc(Image(bm, ct, ino)).addr # 0
    PROVE  \E b \in Block \ bm :
               b # 0 /\ Allocated(bm, ct, ino, b, block_alloc(Image(bm, ct, ino)))
<1>1. bm # Block
  BY DEF block_alloc, Image
<1> DEFINE b == Min(Block \ bm)
<1>2. b \in Block \ bm
  <2>1. Block \ bm \subseteq Nat /\ Block \ bm # {}
    BY <1>1, Sizes
  <2> QED BY <2>1, MinOf
<1>3. block_alloc(Image(bm, ct, ino)) =
          [cache |-> Image(bm \cup {b}, [ct EXCEPT ![b] = ZeroBlock], ino),
           addr |-> b, log |-> {BBLOCK(b), DataBlock(b)}]
  BY <1>1 DEF block_alloc, Image
<1>4. b # 0
  BY <1>3
<1>5. Allocated(bm, ct, ino, b, block_alloc(Image(bm, ct, ino)))
  BY <1>3 DEF Allocated
<1> HIDE DEF b
<1> QED BY <1>2, <1>4, <1>5

\* What getting the block at place p of the map does: the map grows and stays sound,
\* the blocks of data that it had keep their place and what they hold, and a block
\* that exists is found without a change.
GotBlock(bm, ct, ino, addrs, p, g) ==
    LET a == Addresses(addrs, ct)
        a2 == Addresses(g.addrs, g.cache.content)
    IN  /\ g.cache = Image(g.cache.bitmap, g.cache.content, ino)
        /\ g.cache.content \in Content
        /\ g.addrs \in [0..NDIRECT -> Block]
        /\ SoundMap(a2, g.cache.bitmap)
        /\ a2[p] = g.addr
        /\ \A k \in (0..MAXFILE) \ {NDIRECT} : a[k] # 0 =>
              a2[k] = a[k] /\ g.cache.content[a[k]] = ct[a[k]]
        /\ a[p] # 0 => g.cache = Image(bm, ct, ino) /\ g.addrs = addrs /\ g.log = {}
        /\ g.log \subseteq IndirectLog(g.addrs[NDIRECT])
                            \cup {BBLOCK(g.addr), DataBlock(g.addr)}
        /\ IndirectLog(addrs[NDIRECT]) \subseteq IndirectLog(g.addrs[NDIRECT])

\* The blocks of the map are in the bitmap.
LEMMA InBitmap ==
    ASSUME NEW a, NEW bm, SoundMap(a, bm), NEW k \in 0..MAXFILE, a[k] # 0
    PROVE  a[k] \in bm
BY DEF SoundMap, Range

\* A block that is there.
LEMMA GetPresent ==
    ASSUME NEW bm, NEW ct \in Content, NEW ino, NEW addrs \in [0..NDIRECT -> Block],
           SoundMap(Addresses(addrs, ct), bm),
           NEW n \in Nat, n < MAXFILE, Addresses(addrs, ct)[Position(n)] # 0,
           NEW g, g = get_nthdiskBlock_for_inode(Image(bm, ct, ino), addrs, n)
    PROVE  GotBlock(bm, ct, ino, addrs, Position(n), g)
<1> DEFINE a == Addresses(addrs, ct)
           q == a[Position(n)]
<1>1. g = [cache |-> Image(bm, ct, ino), addrs |-> addrs, addr |-> q, log |-> {}]
  <2>1. CASE n < NDIRECT
    <3>0. n \in 0..NDIRECT /\ Position(n) = n
      BY <2>1, Sizes DEF Position
    <3>1. q = addrs[n]
      BY <3>0, DirectAt
    <3>2. present(Image(bm, ct, ino), addrs[n])
            = [cache |-> Image(bm, ct, ino), addr |-> q, log |-> {}]
      BY <3>1 DEF present
    <3>3. [addrs EXCEPT ![n] = q] = addrs
      BY <3>0, <3>1
    <3> DEFINE r == present(Image(bm, ct, ino), addrs[n])
    <3>4. r.cache = Image(bm, ct, ino) /\ r.addr = q /\ r.log = {}
      BY <3>2
    <3> HIDE DEF r, q
    <3>5. g = [cache |-> r.cache, addrs |-> [addrs EXCEPT ![n] = r.addr],
               addr |-> r.addr, log |-> r.log]
      BY <2>1 DEF get_nthdiskBlock_for_inode, r
    <3> QED BY <3>3, <3>4, <3>5
  <2>2. CASE ~(n < NDIRECT)
    <3> DEFINE j == n - NDIRECT
               d == addrs[NDIRECT]
    <3>1. /\ Position(n) = NDIRECT + 1 + j /\ j \in 0 .. (BSIZE - 1)
          /\ Position(n) \in (NDIRECT + 1) .. MAXFILE /\ Position(n) - NDIRECT - 1 = j
      BY <2>2, Sizes DEF Position
    <3>2. d # 0 /\ q = ct[d][j] /\ d \in Block
      BY <3>1, AddressesAt, Sizes
    <3>3. present(Image(bm, ct, ino), d) = [cache |-> Image(bm, ct, ino), addr |-> d, log |-> {}]
      BY <3>2 DEF present
    <3>4. present(Image(bm, ct, ino), ct[d][j])
            = [cache |-> Image(bm, ct, ino), addr |-> q, log |-> {}]
      BY <3>2 DEF present
    <3>5. [ct EXCEPT ![d][j] = q] = ct
      BY <3>1, <3>2 DEF Content
    <3>6. [Image(bm, ct, ino) EXCEPT !.content[d][j] = q] = Image(bm, ct, ino)
      BY <3>5 DEF Image
    <3>7. [addrs EXCEPT ![NDIRECT] = d] = addrs
      BY Sizes
    <3>8. Image(bm, ct, ino).content = ct
      BY DEF Image
    <3> DEFINE r == present(Image(bm, ct, ino), d)
               s == present(r.cache, r.cache.content[r.addr][j])
    <3>9. r.cache = Image(bm, ct, ino) /\ r.addr = d /\ r.log = {}
      BY <3>3
    <3>10. s.cache = Image(bm, ct, ino) /\ s.addr = q /\ s.log = {}
      <4>1. s = present(Image(bm, ct, ino), ct[d][j])
        BY <3>8, <3>9
      <4> QED BY <4>1, <3>4
    <3>11. g = [cache |-> [s.cache EXCEPT !.content[r.addr][j] = s.addr],
                addrs |-> [addrs EXCEPT ![NDIRECT] = r.addr],
                addr |-> IF r.addr = 0 THEN 0 ELSE s.addr,
                log |-> r.log \cup s.log
                        \cup (IF s.log # {} THEN {DataBlock(r.addr)} ELSE {})]
      BY <2>2 DEF get_nthdiskBlock_for_inode
    <3> HIDE DEF q, d, r, s, j
    <3> QED BY <3>2, <3>6, <3>7, <3>9, <3>10, <3>11
  <2> QED BY <2>1, <2>2
<1>2. /\ g.cache = Image(bm, ct, ino) /\ g.addrs = addrs /\ g.addr = q /\ g.log = {}
      /\ g.cache.content = ct /\ g.cache.bitmap = bm
  BY <1>1 DEF Image
<1> QED BY <1>2 DEF GotBlock

\* A new block at a direct address.
LEMMA GetDirect ==
    ASSUME NEW bm \in SUBSET Block, NEW ct \in Content, NEW ino,
           NEW addrs \in [0..NDIRECT -> Block],
           SoundMap(Addresses(addrs, ct), bm),
           NEW n \in Nat, n < NDIRECT, addrs[n] = 0,
           NEW g, g = get_nthdiskBlock_for_inode(Image(bm, ct, ino), addrs, n),
           g.addr # 0
    PROVE  GotBlock(bm, ct, ino, addrs, Position(n), g)
<1> DEFINE a == Addresses(addrs, ct)
           C == Image(bm, ct, ino)
<1>1. present(C, addrs[n]) = block_alloc(C)
  BY DEF present
<1>2. g = [cache |-> block_alloc(C).cache, addrs |-> [addrs EXCEPT ![n] = block_alloc(C).addr],
           addr |-> block_alloc(C).addr, log |-> block_alloc(C).log]
  BY <1>1 DEF get_nthdiskBlock_for_inode
<1>3. block_alloc(C).addr # 0
  BY <1>2
<1>4. PICK b \in Block \ bm : b # 0 /\ Allocated(bm, ct, ino, b, block_alloc(C))
  BY <1>3, Alloc
<1> DEFINE ct2 == [ct EXCEPT ![b] = ZeroBlock]
           addrs2 == [addrs EXCEPT ![n] = b]
<1>5. /\ g.cache = Image(bm \cup {b}, ct2, ino) /\ g.addrs = addrs2 /\ g.addr = b
      /\ g.log = {BBLOCK(b), DataBlock(b)}
      /\ g.cache.content = ct2 /\ g.cache.bitmap = bm \cup {b}
  <2>1. /\ block_alloc(C).cache = Image(bm \cup {b}, ct2, ino)
        /\ block_alloc(C).addr = b
        /\ block_alloc(C).log = {BBLOCK(b), DataBlock(b)}
    BY <1>4 DEF Allocated
  <2>2. addrs2 = [addrs EXCEPT ![n] = block_alloc(C).addr]
    BY <2>1
  <2> HIDE DEF ct2, addrs2, C
  <2>3. /\ g.cache = Image(bm \cup {b}, ct2, ino) /\ g.addrs = addrs2 /\ g.addr = b
        /\ g.log = {BBLOCK(b), DataBlock(b)}
    BY <1>2, <2>1, <2>2
  <2> QED BY <2>3 DEF Image
<1>6. n \in 0..NDIRECT /\ n \in 0..MAXFILE /\ n # NDIRECT /\ Position(n) = n /\ a[n] = 0
  BY Sizes, AddressesAt DEF Position
<1>7. SoundMap([a EXCEPT ![n] = b], bm \cup {b})
  <2> HIDE DEF a
  <2> QED BY <1>4, <1>6, MapGrows DEF a
<1>8. addrs2 \in [0..NDIRECT -> Block] /\ ct2 \in Content
  BY <1>4, ZeroBlockType DEF Content
<1>9. \A k \in 0..MAXFILE : a[k] # 0 => a[k] # b /\ ct2[a[k]] = ct[a[k]]
  <2> SUFFICES ASSUME NEW k \in 0..MAXFILE, a[k] # 0 PROVE a[k] # b /\ ct2[a[k]] = ct[a[k]]
    OBVIOUS
  <2> HIDE DEF a
  <2>1. a[k] \in bm
    BY InBitmap DEF a
  <2> QED BY <2>1 DEF Content
<1>10. Addresses(addrs2, ct2) = [a EXCEPT ![n] = b]
  <2> DEFINE a2 == [a EXCEPT ![n] = b]
  <2>1. a2 \in [0..MAXFILE -> Block]
    BY <1>7 DEF SoundMap
  <2>2. a \in [0..MAXFILE -> Block]
    BY DEF SoundMap
  <2>3. \A k \in 0..NDIRECT : addrs2[k] = a2[k]
    <3> SUFFICES ASSUME NEW k \in 0..NDIRECT PROVE addrs2[k] = a2[k]
      OBVIOUS
    <3>1. k \in 0..MAXFILE /\ a[k] = addrs[k]
      BY Sizes, AddressesAt
    <3> HIDE DEF a
    <3> QED BY <3>1, <2>2, <1>6
  <2>4. \A k \in (NDIRECT + 1) .. MAXFILE :
            a2[k] = IF addrs2[NDIRECT] = 0 THEN 0 ELSE ct2[addrs2[NDIRECT]][k - NDIRECT - 1]
    <3> SUFFICES ASSUME NEW k \in (NDIRECT + 1) .. MAXFILE
                 PROVE  a2[k] = IF addrs2[NDIRECT] = 0 THEN 0
                                ELSE ct2[addrs2[NDIRECT]][k - NDIRECT - 1]
      OBVIOUS
    <3>1. k \in 0..MAXFILE /\ k # n /\ NDIRECT \in 0..MAXFILE /\ NDIRECT \in 0..NDIRECT
      BY Sizes
    <3>2. a[k] = (IF addrs[NDIRECT] = 0 THEN 0 ELSE ct[addrs[NDIRECT]][k - NDIRECT - 1])
      <4> HIDE DEF a2, ct2, addrs2
      <4> QED BY Sizes DEF Addresses
    <3>3. a[NDIRECT] = addrs[NDIRECT]
      BY <3>1, AddressesAt
    <3> HIDE DEF a
    <3>4. a2[k] = a[k]
      BY <3>1, <2>2
    <3>5. addrs2[NDIRECT] = addrs[NDIRECT]
      BY <3>1, <1>6
    <3>6. addrs[NDIRECT] # 0 => ct2[addrs[NDIRECT]] = ct[addrs[NDIRECT]]
      BY <3>1, <3>3, <1>9
    <3> HIDE DEF a2, ct2, addrs2
    <3> QED BY <3>2, <3>4, <3>5, <3>6
  <2> HIDE DEF a2, ct2, addrs2
  <2>5. MapIs(addrs2, ct2, a2)
    BY <2>3, <2>4 DEF MapIs
  <2>6. Addresses(addrs2, ct2) = a2
    BY <2>1, <2>5, SameAddresses
  <2> QED BY <2>6 DEF a2
<1>11. \A k \in (0..MAXFILE) \ {NDIRECT} : a[k] # 0 =>
          [a EXCEPT ![n] = b][k] = a[k] /\ ct2[a[k]] = ct[a[k]]
  <2> HIDE DEF a, ct2
  <2>1. a \in [0..MAXFILE -> Block]
    BY DEF SoundMap, a
  <2> QED BY <1>6, <1>9, <2>1
<1>12. addrs2[NDIRECT] = addrs[NDIRECT]
  BY <1>6, Sizes
<1>13. [a EXCEPT ![n] = b][n] = b
  BY <1>6 DEF SoundMap
<1> DEFINE a2 == [a EXCEPT ![n] = b]
<1>14. g.log \subseteq IndirectLog(addrs2[NDIRECT]) \cup {BBLOCK(b), DataBlock(b)}
  BY <1>5
<1>15. IndirectLog(addrs[NDIRECT]) = IndirectLog(addrs2[NDIRECT])
  BY <1>12
<1>16. SoundMap(a2, bm \cup {b}) /\ Addresses(addrs2, ct2) = a2 /\ a2[n] = b
  BY <1>7, <1>10, <1>13
<1>17. \A k \in (0..MAXFILE) \ {NDIRECT} : a[k] # 0 => a2[k] = a[k] /\ ct2[a[k]] = ct[a[k]]
  BY <1>11
<1>18. Position(n) = n /\ a[n] = 0
  BY <1>6
<1> HIDE DEF a, a2, ct2, addrs2
<1> QED
  BY <1>5, <1>8, <1>14, <1>15, <1>16, <1>17, <1>18 DEF GotBlock, a

\* The map has grown by block b at place p: what it had is still there, and the
\* blocks of data hold what they held.
Grown(a, ct, a2, ct2, bm2, p, b) ==
    /\ ct2 \in Content
    /\ SoundMap(a2, bm2)
    /\ a2[p] = b
    /\ \A k \in 0..MAXFILE : a[k] # 0 => a2[k] = a[k]
    /\ \A k \in (0..MAXFILE) \ {NDIRECT} : a[k] # 0 => ct2[a[k]] = ct[a[k]]

Clear(ct, b) == [ct EXCEPT ![b] = ZeroBlock]
WithEntry(ct, d, j, b) == [ct EXCEPT ![d][j] = b]

\* A new block is not one of the map, so clearing it changes none of those.
LEMMA Cleared ==
    ASSUME NEW a, NEW bm, SoundMap(a, bm), NEW ct \in Content, NEW b \in Block \ bm
    PROVE  /\ Clear(ct, b) \in Content /\ Clear(ct, b)[b] = ZeroBlock
           /\ \A k \in 0..MAXFILE : a[k] # 0 => a[k] # b /\ Clear(ct, b)[a[k]] = ct[a[k]]
<1>1. Clear(ct, b) \in Content /\ Clear(ct, b)[b] = ZeroBlock
  BY ZeroBlockType DEF Content, Clear
<1>2. \A k \in 0..MAXFILE : a[k] # 0 => a[k] # b /\ Clear(ct, b)[a[k]] = ct[a[k]]
  <2> SUFFICES ASSUME NEW k \in 0..MAXFILE, a[k] # 0
               PROVE  a[k] # b /\ Clear(ct, b)[a[k]] = ct[a[k]]
    OBVIOUS
  <2>1. a[k] \in bm /\ a[k] \in Block
    BY InBitmap DEF SoundMap
  <2> QED BY <2>1 DEF Content, Clear
<1> QED BY <1>1, <1>2

\* A new block in the indirect block.
LEMMA EntryAdded ==
    ASSUME NEW bm \in SUBSET Block, NEW ct \in Content, NEW addrs \in [0..NDIRECT -> Block],
           NEW a, a = Addresses(addrs, ct), SoundMap(a, bm),
           NEW d, d = addrs[NDIRECT], d # 0,
           NEW j \in 0 .. (BSIZE - 1), ct[d][j] = 0,
           NEW b \in Block \ bm, b # 0,
           NEW ct1, ct1 = Clear(ct, b),
           NEW ct2, ct2 = WithEntry(ct1, d, j, b)
    PROVE  Grown(a, ct, Addresses(addrs, ct2), ct2, bm \cup {b}, NDIRECT + 1 + j, b)
<1> DEFINE p == NDIRECT + 1 + j
<1>0. /\ \A k \in 0..NDIRECT : a[k] = addrs[k]
      /\ \A k \in (NDIRECT + 1) .. MAXFILE : a[k] = ct[d][k - NDIRECT - 1]
  <2>1. a = Addresses(addrs, ct)
    OBVIOUS
  <2> QED BY <2>1, Sizes DEF Addresses
<1>1. /\ NDIRECT \in 0..NDIRECT /\ NDIRECT \in 0..MAXFILE /\ p \in 0..MAXFILE
      /\ p \in (NDIRECT + 1) .. MAXFILE /\ p # NDIRECT /\ p - NDIRECT - 1 = j
  BY Sizes
<1>2. a[NDIRECT] = d /\ a[p] = 0
  BY <1>0, <1>1
<1>3. /\ ct1 \in Content
      /\ \A k \in 0..MAXFILE : a[k] # 0 => a[k] # b /\ ct1[a[k]] = ct[a[k]]
  BY Cleared
<1>4. d # b /\ d \in Block /\ ct1[d] = ct[d]
  BY <1>1, <1>2, <1>3
<1>5. /\ ct2 \in Content
      /\ ct2[d] = [ct[d] EXCEPT ![j] = b]
      /\ \A x \in Block \ {d} : ct2[x] = ct1[x]
  <2>1. b \in Nat
    BY Sizes
  <2> QED BY <1>3, <1>4, <2>1 DEF Content, WithEntry
<1> HIDE DEF p
<1> DEFINE a2 == [a EXCEPT ![p] = b]
<1>6. SoundMap(a2, bm \cup {b})
  BY <1>1, <1>2, MapGrows
<1>7. a \in [0..MAXFILE -> Block] /\ a2 \in [0..MAXFILE -> Block]
  BY <1>6 DEF SoundMap
<1>8. MapIs(addrs, ct2, a2)
  <2>1. \A k \in 0..NDIRECT : addrs[k] = a2[k]
    <3> SUFFICES ASSUME NEW k \in 0..NDIRECT PROVE addrs[k] = a2[k]
      OBVIOUS
    <3>1. k \in 0..MAXFILE /\ k # p /\ a[k] = addrs[k]
      BY Sizes, <1>0 DEF p
    <3> QED BY <3>1, <1>7
  <2>2. \A k \in (NDIRECT + 1) .. MAXFILE : a2[k] = ct2[d][k - NDIRECT - 1]
    <3> SUFFICES ASSUME NEW k \in (NDIRECT + 1) .. MAXFILE PROVE a2[k] = ct2[d][k - NDIRECT - 1]
      OBVIOUS
    <3>1. k \in 0..MAXFILE /\ k - NDIRECT - 1 \in 0 .. (BSIZE - 1)
      BY Sizes
    <3>2. k - NDIRECT - 1 = j <=> k = p
      BY <3>1, <1>1, Sizes
    <3>3. a[k] = ct[d][k - NDIRECT - 1]
      BY <1>0
    <3>4. ct[d] \in [0 .. (BSIZE - 1) -> Nat]
      BY <1>4 DEF Content
    <3> QED BY <3>1, <3>2, <3>3, <3>4, <1>5, <1>7
  <2> HIDE DEF a2
  <2> QED BY <2>1, <2>2 DEF MapIs
<1>9. Addresses(addrs, ct2) = a2
  <2> HIDE DEF a2
  <2> QED BY <1>7, <1>8, SameAddresses
<1>10. \A k \in 0..MAXFILE : a[k] # 0 => a2[k] = a[k]
  BY <1>2, <1>7
<1>11. \A k \in (0..MAXFILE) \ {NDIRECT} : a[k] # 0 => ct2[a[k]] = ct[a[k]]
  <2> SUFFICES ASSUME NEW k \in (0..MAXFILE) \ {NDIRECT}, a[k] # 0 PROVE ct2[a[k]] = ct[a[k]]
    OBVIOUS
  <2>1. a[k] # d
    BY <1>1, <1>2 DEF SoundMap
  <2>2. a[k] \in Block
    BY <1>7
  <2> QED BY <2>1, <2>2, <1>3, <1>5
<1>12. a2[p] = b
  BY <1>1, <1>7
<1> HIDE DEF a2
<1>13. Grown(a, ct, a2, ct2, bm \cup {b}, p, b)
  BY <1>5, <1>6, <1>10, <1>11, <1>12 DEF Grown
<1> QED BY <1>9, <1>13 DEF p

\* A new indirect block, without addresses.
LEMMA IndirectAdded ==
    ASSUME NEW bm \in SUBSET Block, NEW ct \in Content, NEW addrs \in [0..NDIRECT -> Block],
           NEW a, a = Addresses(addrs, ct), SoundMap(a, bm), addrs[NDIRECT] = 0,
           NEW d \in Block \ bm, d # 0,
           NEW ct1, ct1 = Clear(ct, d),
           NEW addrs1, addrs1 = [addrs EXCEPT ![NDIRECT] = d]
    PROVE  Grown(a, ct, Addresses(addrs1, ct1), ct1, bm \cup {d}, NDIRECT, d)
<1>0. /\ \A k \in 0..NDIRECT : a[k] = addrs[k]
      /\ \A k \in (NDIRECT + 1) .. MAXFILE : a[k] = 0
  <2>1. a = Addresses(addrs, ct) /\ addrs[NDIRECT] = 0
    OBVIOUS
  <2> QED BY <2>1, Sizes DEF Addresses
<1>1. NDIRECT \in 0..NDIRECT /\ NDIRECT \in 0..MAXFILE
  BY Sizes
<1>2. a[NDIRECT] = 0
  BY <1>0, <1>1
<1> DEFINE a2 == [a EXCEPT ![NDIRECT] = d]
<1>3. SoundMap(a2, bm \cup {d})
  BY <1>1, <1>2, MapGrows
<1>4. a \in [0..MAXFILE -> Block] /\ a2 \in [0..MAXFILE -> Block]
  BY <1>3 DEF SoundMap
<1>5. /\ ct1 \in Content
      /\ \A k \in 0..MAXFILE : a[k] # 0 => a[k] # d /\ ct1[a[k]] = ct[a[k]]
  BY Cleared
<1>6. addrs1[NDIRECT] = d /\ \A k \in (0..NDIRECT) \ {NDIRECT} : addrs1[k] = addrs[k]
  BY <1>1
<1>7. MapIs(addrs1, ct1, a2)
  <2>1. \A k \in 0..NDIRECT : addrs1[k] = a2[k]
    <3> SUFFICES ASSUME NEW k \in 0..NDIRECT PROVE addrs1[k] = a2[k]
      OBVIOUS
    <3>1. k \in 0..MAXFILE /\ a[k] = addrs[k]
      BY <1>0, Sizes
    <3> QED BY <3>1, <1>4, <1>6
  <2>2. \A k \in (NDIRECT + 1) .. MAXFILE : a2[k] = ct1[d][k - NDIRECT - 1]
    <3> SUFFICES ASSUME NEW k \in (NDIRECT + 1) .. MAXFILE PROVE a2[k] = ct1[d][k - NDIRECT - 1]
      OBVIOUS
    <3>1. k \in 0..MAXFILE /\ k # NDIRECT /\ k - NDIRECT - 1 \in 0 .. (BSIZE - 1)
      BY Sizes
    <3>2. a[k] = 0
      BY <1>0
    <3>3. ct1[d] = ZeroBlock
      BY Cleared
    <3>4. ZeroBlock[k - NDIRECT - 1] = 0
      BY <3>1 DEF ZeroBlock
    <3> QED BY <3>1, <3>2, <3>3, <3>4, <1>4
  <2> HIDE DEF a2
  <2> QED BY <2>1, <2>2, <1>6 DEF MapIs
<1>8. Addresses(addrs1, ct1) = a2
  <2> HIDE DEF a2
  <2> QED BY <1>4, <1>7, SameAddresses
<1>9. \A k \in 0..MAXFILE : a[k] # 0 => a2[k] = a[k]
  BY <1>2, <1>4
<1>10. a2[NDIRECT] = d
  BY <1>1, <1>4
<1> HIDE DEF a2
<1> QED BY <1>3, <1>5, <1>8, <1>9, <1>10 DEF Grown

\* A new block at an indirect address, when there is an indirect block.
LEMMA GetEntry ==
    ASSUME NEW bm \in SUBSET Block, NEW ct \in Content, NEW ino,
           NEW addrs \in [0..NDIRECT -> Block],
           SoundMap(Addresses(addrs, ct), bm),
           NEW n \in Nat, n >= NDIRECT, n < MAXFILE, addrs[NDIRECT] # 0,
           Addresses(addrs, ct)[Position(n)] = 0,
           NEW g, g = get_nthdiskBlock_for_inode(Image(bm, ct, ino), addrs, n),
           g.addr # 0
    PROVE  GotBlock(bm, ct, ino, addrs, Position(n), g)
<1> DEFINE a == Addresses(addrs, ct)
           C == Image(bm, ct, ino)
           d == addrs[NDIRECT]
           j == n - NDIRECT
           r == present(C, d)
           s == present(r.cache, r.cache.content[r.addr][j])
<1>1. /\ Position(n) = NDIRECT + 1 + j /\ j \in 0 .. (BSIZE - 1)
      /\ Position(n) \in (NDIRECT + 1) .. MAXFILE /\ Position(n) - NDIRECT - 1 = j
      /\ NDIRECT \in 0..NDIRECT
  BY Sizes DEF Position
<1>2. ct[d][j] = 0 /\ d \in Block
  <2>1. a[Position(n)] = (IF d = 0 THEN 0 ELSE ct[d][Position(n) - NDIRECT - 1])
    <3> HIDE DEF r, s, j, C
    <3> QED BY <1>1, AddressesAt
  <2>2. d \in Block
    BY <1>1
  <2> HIDE DEF r, s, j, C, d
  <2> QED BY <2>1, <2>2, <1>1 DEF d
<1>3. g = [cache |-> [s.cache EXCEPT !.content[r.addr][j] = s.addr],
           addrs |-> [addrs EXCEPT ![NDIRECT] = r.addr],
           addr |-> IF r.addr = 0 THEN 0 ELSE s.addr,
           log |-> r.log \cup s.log
                   \cup (IF s.log # {} THEN {DataBlock(r.addr)} ELSE {})]
  <2>1. ~(n < NDIRECT)
    BY Sizes
  <2> QED BY <2>1 DEF get_nthdiskBlock_for_inode
<1>4. r.cache = C /\ r.addr = d /\ r.log = {} /\ C.content = ct
  BY DEF present, Image
<1>5. s = block_alloc(C)
  <2>1. s = present(C, ct[d][j])
    BY <1>4
  <2> QED BY <2>1, <1>2 DEF present
<1> HIDE DEF r, s, d, j
<1>6. s.addr # 0
  BY <1>3, <1>4 DEF d
<1>7. block_alloc(C).addr # 0
  BY <1>5, <1>6
<1>8. PICK b \in Block \ bm : b # 0 /\ Allocated(bm, ct, ino, b, block_alloc(C))
  BY <1>7, Alloc
<1> DEFINE ct1 == Clear(ct, b)
           ct2 == WithEntry(ct1, d, j, b)
<1>9. s.cache = Image(bm \cup {b}, ct1, ino) /\ s.addr = b /\ s.log = {BBLOCK(b), DataBlock(b)}
  BY <1>5, <1>8 DEF Allocated, Clear
<1>10. Grown(a, ct, Addresses(addrs, ct2), ct2, bm \cup {b}, Position(n), b)
  <2> HIDE DEF a, ct1, ct2
  <2>1. Grown(a, ct, Addresses(addrs, ct2), ct2, bm \cup {b}, NDIRECT + 1 + j, b)
    BY <1>1, <1>2, <1>8, EntryAdded DEF d, a, ct1, ct2
  <2> QED BY <2>1, <1>1
<1>11. [s.cache EXCEPT !.content[d][j] = b] = Image(bm \cup {b}, ct2, ino)
  <2> DEFINE bm2 == bm \cup {b}
  <2>1. s.cache = Image(bm2, ct1, ino)
    BY <1>9
  <2> HIDE DEF ct1, bm2
  <2>2. [s.cache EXCEPT !.content[d][j] = b] = Image(bm2, ct2, ino)
    BY <2>1 DEF Image, WithEntry
  <2> QED BY <2>2 DEF bm2
<1>12. [addrs EXCEPT ![NDIRECT] = d] = addrs
  BY DEF d
<1> HIDE DEF ct1, ct2, C, a
<1>13. /\ g.cache = Image(bm \cup {b}, ct2, ino) /\ g.addrs = addrs /\ g.addr = b
       /\ g.log = {BBLOCK(b), DataBlock(b), DataBlock(d)}
  <2>1. g.cache = Image(bm \cup {b}, ct2, ino)
    BY <1>3, <1>4, <1>9, <1>11
  <2>2. g.addrs = addrs
    BY <1>3, <1>4, <1>12
  <2>3. g.addr = b
    BY <1>3, <1>4, <1>9 DEF d
  <2>4. g.log = {BBLOCK(b), DataBlock(b), DataBlock(d)}
    BY <1>3, <1>4, <1>9
  <2> QED BY <2>1, <2>2, <2>3, <2>4
<1>14. g.cache.content = ct2 /\ g.cache.bitmap = bm \cup {b}
  BY <1>13 DEF Image
<1>15. g.log \subseteq IndirectLog(addrs[NDIRECT]) \cup {BBLOCK(b), DataBlock(b)}
  BY <1>13 DEF IndirectLog, d
<1>16. a[Position(n)] = 0
  BY DEF a
<1> QED BY <1>10, <1>13, <1>14, <1>15, <1>16 DEF GotBlock, Grown, a

\* A new block at an indirect address, when there is no indirect block either.
LEMMA GetIndirect ==
    ASSUME NEW bm \in SUBSET Block, NEW ct \in Content, NEW ino,
           NEW addrs \in [0..NDIRECT -> Block],
           SoundMap(Addresses(addrs, ct), bm),
           NEW n \in Nat, n >= NDIRECT, n < MAXFILE, addrs[NDIRECT] = 0,
           Addresses(addrs, ct)[Position(n)] = 0,
           NEW g, g = get_nthdiskBlock_for_inode(Image(bm, ct, ino), addrs, n),
           g.addr # 0
    PROVE  GotBlock(bm, ct, ino, addrs, Position(n), g)
<1> DEFINE a == Addresses(addrs, ct)
           C == Image(bm, ct, ino)
           j == n - NDIRECT
           r == present(C, addrs[NDIRECT])
           s == present(r.cache, r.cache.content[r.addr][j])
<1>1. /\ Position(n) = NDIRECT + 1 + j /\ j \in 0 .. (BSIZE - 1)
      /\ Position(n) \in 0..MAXFILE /\ Position(n) # NDIRECT
      /\ NDIRECT \in 0..NDIRECT /\ NDIRECT \in 0..MAXFILE
  BY Sizes DEF Position
<1>2. g = [cache |-> [s.cache EXCEPT !.content[r.addr][j] = s.addr],
           addrs |-> [addrs EXCEPT ![NDIRECT] = r.addr],
           addr |-> IF r.addr = 0 THEN 0 ELSE s.addr,
           log |-> r.log \cup s.log
                   \cup (IF s.log # {} THEN {DataBlock(r.addr)} ELSE {})]
  <2>1. ~(n < NDIRECT)
    BY Sizes
  <2> QED BY <2>1 DEF get_nthdiskBlock_for_inode
<1>3. r = block_alloc(C)
  BY DEF present
<1> HIDE DEF r, s, j
<1>4. r.addr # 0 /\ s.addr # 0
  BY <1>2
<1>5. block_alloc(C).addr # 0
  BY <1>3, <1>4
<1>6. PICK d \in Block \ bm : d # 0 /\ Allocated(bm, ct, ino, d, block_alloc(C))
  BY <1>5, Alloc
<1> DEFINE ct1 == Clear(ct, d)
           bm1 == bm \cup {d}
           addrs1 == [addrs EXCEPT ![NDIRECT] = d]
           a1 == Addresses(addrs1, ct1)
<1>7. r.cache = Image(bm1, ct1, ino) /\ r.addr = d /\ r.log = {BBLOCK(d), DataBlock(d)}
  BY <1>3, <1>6 DEF Allocated, Clear
<1>8. Grown(a, ct, a1, ct1, bm1, NDIRECT, d)
  <2> HIDE DEF a, ct1, addrs1
  <2> QED BY <1>6, IndirectAdded DEF a, ct1, addrs1
<1>9. /\ ct1 \in Content /\ bm1 \in SUBSET Block /\ ct1[d] = ZeroBlock
      /\ addrs1 \in [0..NDIRECT -> Block] /\ addrs1[NDIRECT] = d
  BY <1>1, <1>6, ZeroBlockType DEF Content, Clear
<1>10. ct1[d][j] = 0
  <2> HIDE DEF ct1
  <2> QED BY <1>1, <1>9 DEF ZeroBlock
<1> DEFINE C1 == Image(bm1, ct1, ino)
<1>11. s = block_alloc(C1)
  <2> HIDE DEF ct1, bm1
  <2>1. r.cache.content = ct1
    BY <1>7 DEF Image
  <2>2. s = present(C1, ct1[d][j])
    BY <1>7, <2>1 DEF s
  <2> HIDE DEF C1
  <2> QED BY <2>2, <1>10 DEF present
<1> HIDE DEF ct1, bm1, addrs1
<1>12. block_alloc(C1).addr # 0
  BY <1>4, <1>11
<1>13. PICK b \in Block \ bm1 : b # 0 /\ Allocated(bm1, ct1, ino, b, block_alloc(C1))
  BY <1>9, <1>12, Alloc
<1> DEFINE ct2 == Clear(ct1, b)
           ct3 == WithEntry(ct2, d, j, b)
           bm2 == bm1 \cup {b}
           a2 == Addresses(addrs1, ct3)
<1>14. s.cache = Image(bm2, ct2, ino) /\ s.addr = b /\ s.log = {BBLOCK(b), DataBlock(b)}
  BY <1>11, <1>13 DEF Allocated, Clear
<1>15. Grown(a1, ct1, a2, ct3, bm2, Position(n), b)
  <2>1. SoundMap(a1, bm1)
    BY <1>8 DEF Grown
  <2> HIDE DEF a1, ct2, ct3
  <2>2. Grown(a1, ct1, a2, ct3, bm2, NDIRECT + 1 + j, b)
    BY <1>1, <1>6, <1>9, <1>10, <1>13, <2>1, EntryAdded DEF a1, ct2, ct3
  <2> QED BY <2>2, <1>1
<1>16. [s.cache EXCEPT !.content[d][j] = b] = Image(bm2, ct3, ino)
  <2> HIDE DEF ct2, bm2
  <2> QED BY <1>14 DEF Image, WithEntry
<1>17. addrs1 = [addrs EXCEPT ![NDIRECT] = r.addr]
  BY <1>7 DEF addrs1
<1>18. a[Position(n)] = 0
  OBVIOUS
<1> HIDE DEF a, a1, a2, ct2, ct3, C, C1, bm2
<1>19. /\ g.cache = Image(bm2, ct3, ino) /\ g.addrs = addrs1 /\ g.addr = b
       /\ g.log = {BBLOCK(b), DataBlock(b), BBLOCK(d), DataBlock(d)}
  <2>1. g.cache = Image(bm2, ct3, ino)
    BY <1>2, <1>7, <1>14, <1>16
  <2>2. g.addrs = addrs1
    BY <1>2, <1>17
  <2>3. g.addr = b
    BY <1>2, <1>4, <1>14
  <2>4. g.log = {BBLOCK(b), DataBlock(b), BBLOCK(d), DataBlock(d)}
    BY <1>2, <1>7, <1>14
  <2> QED BY <2>1, <2>2, <2>3, <2>4
<1>20. g.cache.content = ct3 /\ g.cache.bitmap = bm2
  BY <1>19 DEF Image
<1>21. /\ g.log \subseteq IndirectLog(addrs1[NDIRECT]) \cup {BBLOCK(b), DataBlock(b)}
       /\ IndirectLog(addrs[NDIRECT]) \subseteq IndirectLog(addrs1[NDIRECT])
  BY <1>6, <1>9, <1>19 DEF IndirectLog
<1>22. \A k \in (0..MAXFILE) \ {NDIRECT} : a[k] # 0 => a2[k] = a[k] /\ ct3[a[k]] = ct[a[k]]
  BY <1>8, <1>15 DEF Grown
<1>23. ct3 \in Content /\ SoundMap(a2, bm2) /\ a2[Position(n)] = b
  BY <1>15 DEF Grown
<1> QED BY <1>9, <1>18, <1>19, <1>20, <1>21, <1>22, <1>23 DEF GotBlock, a, a2

\* get_nthdiskBlock_for_inode(), in every case.
LEMMA GetBlock ==
    ASSUME NEW bm \in SUBSET Block, NEW ct \in Content, NEW ino,
           NEW addrs \in [0..NDIRECT -> Block],
           SoundMap(Addresses(addrs, ct), bm),
           NEW n \in Nat, n < MAXFILE,
           NEW g, g = get_nthdiskBlock_for_inode(Image(bm, ct, ino), addrs, n),
           g.addr # 0
    PROVE  GotBlock(bm, ct, ino, addrs, Position(n), g)
<1>1. CASE Addresses(addrs, ct)[Position(n)] # 0
  BY <1>1, GetPresent
<1>2. CASE Addresses(addrs, ct)[Position(n)] = 0 /\ n < NDIRECT
  <2>1. addrs[n] = 0
    BY <1>2, AddressesAt, Sizes DEF Position
  <2> QED BY <1>2, <2>1, GetDirect
<1>3. CASE Addresses(addrs, ct)[Position(n)] = 0 /\ ~(n < NDIRECT) /\ addrs[NDIRECT] # 0
  <2>1. n >= NDIRECT
    BY <1>3, Sizes
  <2> QED BY <1>3, <2>1, GetEntry
<1>4. CASE Addresses(addrs, ct)[Position(n)] = 0 /\ ~(n < NDIRECT) /\ addrs[NDIRECT] = 0
  <2>1. n >= NDIRECT
    BY <1>4, Sizes
  <2> QED BY <1>4, <2>1, GetIndirect
<1> QED BY <1>1, <1>2, <1>3, <1>4

----------------------------------------------------------------------------
(* Writing words into a block *)

Store(ct, b, w) == [ct EXCEPT ![b] = w]

\* A block with g words from place p on taken from the buffer, after its word s.
NewBlock(old, p, g, buf, s) ==
    [k \in DOMAIN old |-> IF k \in p .. (p + g - 1) THEN buf[s + 1 + k - p] ELSE old[k]]

\* Writing a block of data leaves the map alone: that block is not the indirect one.
LEMMA StoreKeepsMap ==
    ASSUME NEW addrs \in [0..NDIRECT -> Block], NEW ct \in Content, NEW bm,
           NEW a, a = Addresses(addrs, ct), SoundMap(a, bm),
           NEW p \in 0..MAXFILE, p # NDIRECT, a[p] # 0,
           NEW w \in [0 .. (BSIZE - 1) -> Nat]
    PROVE  Addresses(addrs, Store(ct, a[p], w)) = a /\ Store(ct, a[p], w) \in Content
<1>1. a \in [0..MAXFILE -> Block]
  BY DEF SoundMap
<1>2. NDIRECT \in 0..NDIRECT /\ NDIRECT \in 0..MAXFILE
  BY Sizes
<1> DEFINE ct2 == Store(ct, a[p], w)
<1>3. ct2 \in Content /\ \A x \in Block \ {a[p]} : ct2[x] = ct[x]
  BY <1>1 DEF Content, Store
<1>4. /\ \A k \in 0..NDIRECT : a[k] = addrs[k]
      /\ \A k \in (NDIRECT + 1) .. MAXFILE :
            a[k] = IF addrs[NDIRECT] = 0 THEN 0 ELSE ct[addrs[NDIRECT]][k - NDIRECT - 1]
  BY Sizes DEF Addresses
<1>5. addrs[NDIRECT] # 0 => addrs[NDIRECT] \in Block \ {a[p]}
  <2>1. a[NDIRECT] = addrs[NDIRECT] /\ addrs[NDIRECT] \in Block
    BY <1>2, <1>4
  <2>2. a[NDIRECT] # 0 => a[NDIRECT] # a[p]
    BY <1>2 DEF SoundMap
  <2> QED BY <2>1, <2>2
<1>6. addrs[NDIRECT] # 0 => ct2[addrs[NDIRECT]] = ct[addrs[NDIRECT]]
  BY <1>3, <1>5
<1> HIDE DEF ct2
<1>7. MapIs(addrs, ct2, a)
  BY <1>4, <1>6 DEF MapIs
<1>8. Addresses(addrs, ct2) = a
  BY <1>1, <1>7, SameAddresses
<1> QED BY <1>3, <1>8 DEF ct2

\* The words of a file of which t words from x on are replaced by those of the buffer
\* after its word s.
Overwritten(w, f, x, buf, s, t) ==
    /\ w \in Seq(Nat)
    /\ Len(w) = IF x + t >= Len(f) THEN x + t ELSE Len(f)
    /\ \A o \in 0 .. (Len(w) - 1) :
          w[o + 1] = IF x <= o /\ o < x + t THEN buf[s + 1 + o - x] ELSE f[o + 1]

LEMMA FunctionIsSeq ==
    ASSUME NEW n \in Nat, NEW w \in [1..n -> Nat]
    PROVE  w \in Seq(Nat) /\ Len(w) = n
<1>1. w = [k \in 1..n |-> w[k]]
  OBVIOUS
<1>2. \A k \in 1..n : w[k] \in Nat
  OBVIOUS
<1>3. [k \in 1..n |-> w[k]] \in Seq(Nat) /\ Len([k \in 1..n |-> w[k]]) = n
  BY <1>2
<1> QED BY <1>1, <1>3

LEMMA SubSeqIs ==
    ASSUME NEW buf \in Seq(Nat), NEW s \in Nat, NEW t \in Nat, s + t <= Len(buf)
    PROVE  /\ SubSeq(buf, s + 1, s + t) \in Seq(Nat) /\ Len(SubSeq(buf, s + 1, s + t)) = t
           /\ \A k \in 1..t : SubSeq(buf, s + 1, s + t)[k] = buf[s + k]
<1>1. \A k \in (s + 1) .. (s + t) : buf[k] \in Nat
  BY ElementOfSeq
<1> DEFINE m == s + 1
           n == s + t
<1>2. m \in Int /\ n \in Int /\ n - m + 1 = t /\ m <= n + 1
  OBVIOUS
<1>3. \A k \in m..n : buf[k] \in Nat
  BY <1>1
<1> HIDE DEF m, n
<1>4. /\ SubSeq(buf, m, n) \in Seq(Nat)
      /\ Len(SubSeq(buf, m, n)) = IF m <= n THEN n - m + 1 ELSE 0
      /\ \A k \in 1 .. (n - m + 1) : SubSeq(buf, m, n)[k] = buf[m + k - 1]
  BY <1>2, <1>3, SubSeqProperties
<1>5. Len(SubSeq(buf, m, n)) = t
  BY <1>2, <1>4
<1>6. \A k \in 1..t : SubSeq(buf, m, n)[k] = buf[m + k - 1]
  BY <1>2, <1>4
<1>7. \A k \in 1..t : m + k - 1 = s + k
  BY DEF m
<1>8. \A k \in 1..t : SubSeq(buf, m, n)[k] = buf[s + k]
  BY <1>6, <1>7
<1> QED BY <1>4, <1>5, <1>8 DEF m, n

LEMMA OverwriteIs ==
    ASSUME NEW f \in Seq(Nat), NEW buf \in Seq(Nat), NEW x \in Nat, x <= Len(f),
           NEW s \in Nat, NEW t \in Nat, s + t <= Len(buf)
    PROVE  Overwritten(Overwrite(f, x, SubSeq(buf, s + 1, s + t)), f, x, buf, s, t)
<1> DEFINE ws == SubSeq(buf, s + 1, s + t)
<1>1. /\ ws \in Seq(Nat) /\ Len(ws) = t
      /\ \A k \in 1..t : ws[k] = buf[s + k]
  BY SubSeqIs
<1> HIDE DEF ws
<1> DEFINE L == Max({Len(f), x + Len(ws)})
           w == Overwrite(f, x, ws)
<1>2. Len(f) \in Nat
  BY LenProperties
<1>3. L = (IF x + t >= Len(f) THEN x + t ELSE Len(f)) /\ L \in Nat
  <2> DEFINE l == Len(f)
             e == x + t
  <2>1. l \in Int /\ e \in Int /\ l \in Nat /\ e \in Nat
    BY <1>2
  <2>2. L = Max({l, e})
    BY <1>1
  <2> HIDE DEF L, l, e
  <2>3. L = IF l >= e THEN l ELSE e
    BY <2>1, <2>2, MaxTwo
  <2>4. L = (IF e >= l THEN e ELSE l) /\ L \in Nat
    BY <2>1, <2>3
  <2> QED BY <2>4 DEF l, e
<1>4. w = [k \in 1..L |-> IF k \in (x + 1) .. (x + t) THEN ws[k - x] ELSE f[k]]
  BY <1>1 DEF Overwrite
<1> HIDE DEF L, w
<1>5. \A k \in 1..L : (IF k \in (x + 1) .. (x + t) THEN ws[k - x] ELSE f[k]) \in Nat
  <2> SUFFICES ASSUME NEW k \in 1..L
               PROVE  (IF k \in (x + 1) .. (x + t) THEN ws[k - x] ELSE f[k]) \in Nat
    OBVIOUS
  <2>1. CASE k \in (x + 1) .. (x + t)
    <3>1. k - x \in 1 .. Len(ws)
      BY <1>1, <2>1
    <3> QED BY <2>1, <3>1, <1>1, ElementOfSeq
  <2>2. CASE k \notin (x + 1) .. (x + t)
    <3>1. k \in 1 .. Len(f)
      BY <1>2, <1>3, <2>2
    <3> QED BY <2>2, <3>1, ElementOfSeq
  <2> QED BY <2>1, <2>2
<1>6. w \in [1..L -> Nat]
  BY <1>4, <1>5
<1>7. w \in Seq(Nat) /\ Len(w) = L
  BY <1>3, <1>6, FunctionIsSeq
<1>8. \A o \in 0 .. (L - 1) :
          w[o + 1] = IF x <= o /\ o < x + t THEN buf[s + 1 + o - x] ELSE f[o + 1]
  <2> SUFFICES ASSUME NEW o \in 0 .. (L - 1)
               PROVE  w[o + 1] = IF x <= o /\ o < x + t THEN buf[s + 1 + o - x] ELSE f[o + 1]
    OBVIOUS
  <2>1. o + 1 \in 1..L
    BY <1>3
  <2>2. w[o + 1] = IF o + 1 \in (x + 1) .. (x + t) THEN ws[o + 1 - x] ELSE f[o + 1]
    BY <2>1, <1>4
  <2>3. CASE x <= o /\ o < x + t
    <3>1. o + 1 \in (x + 1) .. (x + t) /\ o + 1 - x \in 1..t /\ s + (o + 1 - x) = s + 1 + o - x
      BY <2>3
    <3> QED BY <2>2, <2>3, <3>1, <1>1
  <2>4. CASE ~(x <= o /\ o < x + t)
    <3>1. o + 1 \notin (x + 1) .. (x + t)
      BY <2>4
    <3> QED BY <2>2, <2>4, <3>1
  <2> QED BY <2>3, <2>4
<1> QED BY <1>3, <1>7, <1>8 DEF Overwritten, w, ws

\* The map keeps the blocks of data it has, and those what they hold.
Kept(a, ct, a2, ct2) ==
    \A k \in (0..MAXFILE) \ {NDIRECT} : a[k] # 0 => a2[k] = a[k] /\ ct2[a[k]] = ct[a[k]]

\* A round of write_inode(): after t words of the buffer the next g, which fall into
\* one block, are written too.
LEMMA WriteWords ==
    ASSUME NEW f, NEW x \in Nat, NEW buf, NEW s \in Nat, NEW t \in Nat, NEW g \in Nat,
           NEW w, Overwritten(w, f, x, buf, s, t),
           NEW w2, Overwritten(w2, f, x, buf, s, t + g),
           Len(f) \in Nat, Len(w2) <= MAXFILE * BSIZE,
           NEW p, p = (x + t) % BSIZE, p + g <= BSIZE,
           NEW a, NEW ct, Shows(a, ct, w),
           NEW a2, NEW bm2, SoundMap(a2, bm2), NEW ct2 \in Content, Kept(a, ct, a2, ct2),
           NEW b, b = a2[Position((x + t) \div BSIZE)], b # 0, (x + t) \div BSIZE < MAXFILE
    PROVE  Shows(a2, Store(ct2, b, NewBlock(ct2[b], p, g, buf, s + t)), w2)
<1> DEFINE o0 == x + t
           n == o0 \div BSIZE
           N == NewBlock(ct2[b], p, g, buf, s + t)
           ct3 == Store(ct2, b, N)
<1>1. o0 \in Nat /\ n \in Nat /\ p \in Nat /\ p < BSIZE /\ o0 = BSIZE * n + p
  BY Division, Sizes
<1>2. Position(n) \in 0..MAXFILE /\ Position(n) # NDIRECT
  BY <1>1, Positions
<1>3. b \in Block /\ ct2[b] \in [0 .. (BSIZE - 1) -> Nat] /\ b = a2[Position(n)]
  BY <1>2 DEF SoundMap, Content
<1>4. /\ ct3[b] = N
      /\ \A y \in Block \ {b} : ct3[y] = ct2[y]
  <2> HIDE DEF N
  <2> QED BY <1>3 DEF Store, Content
<1>5. \A k \in 0 .. (BSIZE - 1) :
          N[k] = IF k \in p .. (p + g - 1) THEN buf[s + t + 1 + k - p] ELSE ct2[b][k]
  BY <1>3 DEF NewBlock
<1> HIDE DEF ct3, N
<1> SUFFICES ASSUME NEW o \in 0 .. (Len(w2) - 1)
             PROVE  /\ a2[Position(o \div BSIZE)] # 0
                    /\ ct3[a2[Position(o \div BSIZE)]][o % BSIZE] = w2[o + 1]
  BY DEF Shows, ct3, N
<1> DEFINE q == o \div BSIZE
           r == o % BSIZE
<1>6. Len(w2) \in Nat /\ Len(w) \in Nat
  BY LenProperties DEF Overwritten
<1>7. o \in Nat /\ o < MAXFILE * BSIZE
  BY <1>6, Sizes
<1>8. /\ q \in Nat /\ q < MAXFILE /\ Position(q) \in 0..MAXFILE /\ Position(q) # NDIRECT
      /\ r \in 0 .. (BSIZE - 1) /\ o = BSIZE * q + r
  BY <1>7, WordPosition, Division, Sizes
<1>9. w2[o + 1] = IF x <= o /\ o < x + (t + g) THEN buf[s + 1 + o - x] ELSE f[o + 1]
  BY DEF Overwritten
<1>10. CASE o0 <= o /\ o < o0 + g
  <2> DEFINE d == o - o0
  <2>1. d \in Nat /\ d < g /\ p + d < BSIZE /\ o = o0 + d
    BY <1>1, <1>7, <1>10, Sizes
  <2>2. q = n /\ r = p + d
    <3> HIDE DEF o0, d
    <3>1. (o0 % BSIZE) + d < BSIZE
      BY <2>1 DEF o0
    <3>2. (o0 + d) \div BSIZE = o0 \div BSIZE /\ (o0 + d) % BSIZE = (o0 % BSIZE) + d
      BY <1>1, <2>1, <3>1, InBlock
    <3> QED BY <3>2, <2>1 DEF o0
  <2>3. r \in p .. (p + g - 1) /\ s + t + 1 + r - p = s + 1 + o - x
    <3>1. p \in Nat /\ r = p + d /\ d \in Nat /\ d < g /\ o = x + t + d
      BY <2>1, <2>2, <1>1
    <3>2. \A y, z \in Nat : z < g => /\ y + z \in y .. (y + g - 1)
                                      /\ s + t + 1 + (y + z) - y = s + 1 + (x + t + z) - x
      OBVIOUS
    <3> HIDE DEF r, d
    <3> QED BY <3>1, <3>2
  <2>4. N[r] = buf[s + 1 + o - x]
    <3> HIDE DEF r
    <3>1. N[r] = buf[s + t + 1 + r - p]
      BY <1>5, <1>8, <2>3
    <3> QED BY <3>1, <2>3
  <2>5. x <= o /\ o < x + (t + g)
    BY <1>10, <1>7
  <2>6. w2[o + 1] = buf[s + 1 + o - x]
    BY <1>9, <2>5
  <2> HIDE DEF q, r, n
  <2> QED BY <2>2, <2>4, <2>6, <1>3, <1>4 DEF q, r
<1>11. CASE ~(o0 <= o /\ o < o0 + g)
  <2>1. o \in 0 .. (Len(w) - 1)
    <3>1. /\ Len(w) = IF x + t >= Len(f) THEN x + t ELSE Len(f)
          /\ Len(w2) = IF x + (t + g) >= Len(f) THEN x + (t + g) ELSE Len(f)
      BY DEF Overwritten
    <3>2. o < Len(w2)
      BY <1>6
    <3>3. ~(x + t <= o /\ o < x + t + g)
      BY <1>11
    <3>4. o < Len(w)
      BY <3>1, <3>2, <3>3, <1>7
    <3> QED BY <3>4, <1>6, <1>7
  <2>2. w[o + 1] = IF x <= o /\ o < x + t THEN buf[s + 1 + o - x] ELSE f[o + 1]
    BY <2>1 DEF Overwritten
  <2>3. w2[o + 1] = w[o + 1]
    BY <2>2, <1>7, <1>9, <1>11
  <2>4. a[Position(q)] # 0 /\ ct[a[Position(q)]][r] = w[o + 1]
    BY <2>1 DEF Shows
  <2> HIDE DEF q, r
  <2>5. /\ a2[Position(q)] = a[Position(q)] /\ a2[Position(q)] # 0
        /\ ct2[a2[Position(q)]][r] = w[o + 1]
    BY <2>4, <1>8 DEF Kept
  <2>6. CASE q = n
    <3>1. r - p = o - o0
      BY <2>6, <1>1, <1>8, Sizes
    <3>2. r \notin p .. (p + g - 1)
      <4>1. r \in Nat /\ p \in Nat /\ o \in Nat /\ o0 \in Nat /\ ~(o0 <= o /\ o < o0 + g)
        BY <1>1, <1>7, <1>8, <1>11
      <4>2. \A y, z, u, v \in Nat : y - z = u - v /\ ~(v <= u /\ u < v + g)
                                      => y \notin z .. (z + g - 1)
        OBVIOUS
      <4> HIDE DEF o0
      <4> QED BY <3>1, <4>1, <4>2
    <3>3. N[r] = ct2[b][r]
      BY <3>2, <1>5, <1>8
    <3> QED BY <2>3, <2>5, <2>6, <3>3, <1>3, <1>4 DEF q, r
  <2>7. CASE q # n
    <3> HIDE DEF n
    <3>1. Position(q) # Position(n)
      BY <2>7, <1>1, <1>8, Positions DEF n
    <3>2. a2[Position(q)] # b /\ a2[Position(q)] \in Block
      BY <3>1, <2>5, <1>2, <1>3, <1>8 DEF SoundMap
    <3>3. ct3[a2[Position(q)]] = ct2[a2[Position(q)]]
      BY <3>2, <1>4
    <3> QED BY <2>3, <2>5, <3>3 DEF q, r
  <2> QED BY <2>6, <2>7
<1> QED BY <1>10, <1>11

----------------------------------------------------------------------------
(* What a transaction logs *)

LEMMA InsideBlock ==
    ASSUME NEW o \in Nat, o % BSIZE # 0
    PROVE  o - 1 \in Nat /\ (o - 1) \div BSIZE = o \div BSIZE
<1> DEFINE q == o \div BSIZE
           r == o % BSIZE
<1>1. q \in Nat /\ r \in Nat /\ r < BSIZE /\ r # 0 /\ o = BSIZE * q + r
  BY Division, Sizes
<1>2. BSIZE * q \in Nat
  BY <1>1, Sizes
<1> DEFINE v == BSIZE * q
<1> HIDE DEF q, r, v
<1>3. v \in Nat /\ o = v + r
  BY <1>1, <1>2 DEF v
<1>4. r - 1 \in 0 .. (BSIZE - 1) /\ o - 1 = v + (r - 1) /\ o - 1 \in Nat
  BY <1>1, <1>3, Sizes
<1>5. (BSIZE * q + (r - 1)) \div BSIZE = q
  BY <1>1, <1>4, Sizes, QuotientBy
<1> QED BY <1>4, <1>5 DEF q, v

LEMMA MaxIs ==
    /\ (LOGSIZE - 1 - 1 - 2) \div 2 \in Nat
    /\ (LOGSIZE - 1 - 1 - 2) \div 2 > 0
    /\ 2 * ((LOGSIZE - 1 - 1 - 2) \div 2) + 4 <= LOGSIZE
    /\ max = ((LOGSIZE - 1 - 1 - 2) \div 2) * BSIZE
    /\ max \in Nat /\ max > 0
<1> DEFINE m == (LOGSIZE - 1 - 1 - 2) \div 2
<1>1. m \in Nat /\ m > 0 /\ 2 * m + 4 <= LOGSIZE
  BY Sizes
<1>2. max = m * BSIZE
  BY DEF max
<1> HIDE DEF m
<1>3. m * BSIZE \in Nat /\ m * BSIZE > 0
  BY <1>1, Sizes
<1> QED BY <1>1, <1>2, <1>3 DEF m

\* The data of a transaction leaves room for the indirect block, its place in the
\* bitmap, and the inode.
LEMMA DataFits ==
    ASSUME NEW x \in Nat, NEW t \in Nat, t <= max
    PROVE  DataLog(x, t) \in Int /\ DataLog(x, t) + 2 < LOGSIZE
<1>1. CASE t = 0
  BY <1>1, Sizes DEF DataLog
<1>2. CASE t # 0
  <2> DEFINE m == (LOGSIZE - 1 - 1 - 2) \div 2
             q == x \div BSIZE
             r == x % BSIZE
             y == x + t - 1
             z == y \div BSIZE
  <2>1. m \in Nat /\ 2 * m + 4 <= LOGSIZE /\ max = m * BSIZE
    BY MaxIs
  <2>2. q \in Nat /\ r \in Nat /\ r < BSIZE /\ x = BSIZE * q + r
    BY Division, Sizes
  <2>3. y \in Nat /\ z \in Nat
    BY <1>2, Division
  <2>4. DataLog(x, t) = 2 * (z - q + 1) - (IF r # 0 THEN 1 ELSE 0)
    BY <1>2 DEF DataLog
  <2> HIDE DEF m, q, r, z
  <2>5. y < BSIZE * q + r + m * BSIZE
    <3>1. BSIZE * q \in Nat /\ m * BSIZE \in Nat
      BY <2>1, <2>2, Sizes
    <3> DEFINE u == BSIZE * q
               v == m * BSIZE
    <3> HIDE DEF u, v
    <3>2. u \in Nat /\ v \in Nat /\ x = u + r /\ t <= v
      BY <3>1, <2>1, <2>2 DEF u, v
    <3>3. y < u + r + v
      BY <3>2, <2>2, <1>2
    <3> QED BY <3>3 DEF u, v
  <2>6. CASE r = 0
    <3>1. q + m \in Nat /\ y < (q + m) * BSIZE
      BY <2>1, <2>2, <2>3, <2>5, <2>6, Sizes
    <3> HIDE DEF y
    <3>2. z < q + m
      BY <3>1, <2>3, QuotientBelow DEF z
    <3> QED BY <3>2, <2>1, <2>2, <2>3, <2>4, <2>6, Sizes
  <2>7. CASE r # 0
    <3>1. q + m + 1 \in Nat /\ y < (q + m + 1) * BSIZE
      <4>1. (q + m + 1) * BSIZE = BSIZE * q + m * BSIZE + BSIZE
        BY <2>1, <2>2, Sizes
      <4>2. BSIZE * q \in Nat /\ m * BSIZE \in Nat
        BY <2>1, <2>2, Sizes
      <4> DEFINE u == BSIZE * q
                 v == m * BSIZE
      <4> HIDE DEF u, v, y
      <4>3. u \in Nat /\ v \in Nat /\ y < u + r + v
        BY <4>2, <2>5 DEF u, v
      <4>4. y < u + v + BSIZE
        BY <4>3, <2>2, <2>3, Sizes
      <4> QED BY <4>1, <4>4, <2>1, <2>2 DEF u, v
    <3> HIDE DEF y
    <3>2. z < q + m + 1
      BY <3>1, <2>3, QuotientBelow DEF z
    <3> QED BY <3>2, <2>1, <2>2, <2>3, <2>4, <2>7, Sizes
  <2> QED BY <2>6, <2>7
<1> QED BY <1>1, <1>2

\* The next block of data.
LEMMA DataGrows ==
    ASSUME NEW x \in Nat, NEW t \in Nat, NEW g \in Nat, g > 0,
           t # 0 => (x + t) % BSIZE = 0,
           ((x + t) % BSIZE) + g <= BSIZE
    PROVE  DataLog(x, t + g) = DataLog(x, t) + (IF t = 0 /\ x % BSIZE # 0 THEN 1 ELSE 2)
<1> DEFINE o == x + t
           d == g - 1
<1>1. o \in Nat /\ d \in Nat /\ o + d = x + (t + g) - 1
  OBVIOUS
<1>2. (o + d) \div BSIZE = o \div BSIZE
  <2>1. (o % BSIZE) \in Nat
    BY <1>1, Division
  <2>2. (o % BSIZE) + d < BSIZE
    BY <2>1, Sizes
  <2> HIDE DEF o, d
  <2> QED BY <1>1, <2>2, InBlock
<1>3. (x + (t + g) - 1) \div BSIZE = (x + t) \div BSIZE
  BY <1>1, <1>2
<1>4. x \div BSIZE \in Nat /\ (x + t) \div BSIZE \in Nat
  BY Division
<1>5. DataLog(x, t + g) = 2 * (((x + t) \div BSIZE) - (x \div BSIZE) + 1)
                          - (IF x % BSIZE # 0 THEN 1 ELSE 0)
  BY <1>3 DEF DataLog
<1>6. CASE t = 0
  <2>1. (x + t) \div BSIZE = x \div BSIZE
    BY <1>6
  <2> QED BY <2>1, <1>4, <1>5, <1>6 DEF DataLog
<1>7. CASE t # 0
  <2>1. (x + t) \div BSIZE = ((x + t - 1) \div BSIZE) + 1
    <3>1. o > 0 /\ o % BSIZE = 0
      BY <1>7
    <3> HIDE DEF o
    <3>2. o \div BSIZE = ((o - 1) \div BSIZE) + 1
      BY <1>1, <3>1, NextBlock
    <3> QED BY <3>2 DEF o
  <2>2. (x + t - 1) \div BSIZE \in Nat
    BY <1>7, Division
  <2>3. DataLog(x, t) = 2 * (((x + t - 1) \div BSIZE) - (x \div BSIZE) + 1)
                        - (IF x % BSIZE # 0 THEN 1 ELSE 0)
    BY <1>7 DEF DataLog
  <2> QED BY <2>1, <2>2, <2>3, <1>4, <1>5, <1>7
<1> QED BY <1>6, <1>7

LEMMA AddOne ==
    ASSUME NEW S, IsFiniteSet(S), NEW e
    PROVE  /\ IsFiniteSet(S \cup {e})
           /\ Cardinality(S) \in Nat /\ Cardinality(S \cup {e}) \in Nat
           /\ Cardinality(S \cup {e}) <= Cardinality(S) + 1
BY FS_AddElement, FS_CardinalityType

\* The log after the next block of data.
LEMMA LogGrows ==
    ASSUME NEW L, IsFiniteSet(L), NEW D, NEW D2, D \subseteq D2,
           NEW b, NEW more, more \subseteq D2 \cup {BBLOCK(b), DataBlock(b)},
           NEW L2, L2 = L \cup more \cup {DataBlock(b)}
    PROVE  /\ IsFiniteSet(L2 \ D2)
           /\ Cardinality(L \ D) \in Nat /\ Cardinality(L2 \ D2) \in Nat
           /\ Cardinality(L2 \ D2) <= Cardinality(L \ D) + 2
           /\ more = {} => Cardinality(L2 \ D2) <= Cardinality(L \ D) + 1
<1> DEFINE R == L \ D
           R1 == R \cup {DataBlock(b)}
           R2 == R1 \cup {BBLOCK(b)}
<1>1. IsFiniteSet(R)
  BY FS_Subset
<1> HIDE DEF R
<1>2. /\ IsFiniteSet(R1) /\ Cardinality(R) \in Nat /\ Cardinality(R1) \in Nat
      /\ Cardinality(R1) <= Cardinality(R) + 1
  BY <1>1, AddOne
<1>3. /\ IsFiniteSet(R2) /\ Cardinality(R2) \in Nat
      /\ Cardinality(R2) <= Cardinality(R1) + 1
  <2> HIDE DEF R1
  <2> QED BY <1>2, AddOne
<1>4. L2 \ D2 \subseteq R2
  BY DEF R
<1>5. more = {} => L2 \ D2 \subseteq R1
  BY DEF R
<1> HIDE DEF R1, R2
<1>6. IsFiniteSet(L2 \ D2) /\ Cardinality(L2 \ D2) <= Cardinality(R2)
  BY <1>3, <1>4, FS_Subset
<1>7. more = {} => Cardinality(L2 \ D2) <= Cardinality(R1)
  BY <1>2, <1>5, FS_Subset
<1>8. Cardinality(L2 \ D2) \in Nat
  BY <1>6, FS_CardinalityType
<1> QED BY <1>2, <1>3, <1>6, <1>7, <1>8 DEF R

\* The blocks for the indirect block are at most two.
LEMMA WholeLog ==
    ASSUME NEW L, NEW d, IsFiniteSet(L \ IndirectLog(d))
    PROVE  /\ IsFiniteSet(L) /\ Cardinality(L) \in Nat
           /\ Cardinality(L) <= Cardinality(L \ IndirectLog(d)) + 2
<1> DEFINE R == L \ IndirectLog(d)
           R1 == R \cup {DataBlock(d)}
           R2 == R1 \cup {BBLOCK(d)}
<1>1. L \subseteq R2
  BY DEF IndirectLog
<1> HIDE DEF R
<1>2. /\ IsFiniteSet(R1) /\ Cardinality(R) \in Nat /\ Cardinality(R1) \in Nat
      /\ Cardinality(R1) <= Cardinality(R) + 1
  BY AddOne DEF R
<1>3. /\ IsFiniteSet(R2) /\ Cardinality(R2) \in Nat
      /\ Cardinality(R2) <= Cardinality(R1) + 1
  <2> HIDE DEF R1
  <2> QED BY <1>2, AddOne
<1> HIDE DEF R1, R2
<1>4. IsFiniteSet(L) /\ Cardinality(L) <= Cardinality(R2)
  BY <1>1, <1>3, FS_Subset
<1>5. Cardinality(L) \in Nat
  BY <1>4, FS_CardinalityType
<1> QED BY <1>2, <1>3, <1>4, <1>5 DEF R

----------------------------------------------------------------------------
(* The invariant *)

LEMMA NoBlocks ==
    ASSUME NEW ct, 0 \in Block
    PROVE  /\ Addresses(NoAddrs, ct) = [k \in 0..MAXFILE |-> 0]
           /\ SoundMap(Addresses(NoAddrs, ct), used)
           /\ NoAddrs \in [0..NDIRECT -> Block]
<1>1. NoAddrs \in [0..NDIRECT -> Block] /\ NoAddrs[NDIRECT] = 0
  BY Sizes DEF NoAddrs
<1>2. Addresses(NoAddrs, ct) = [k \in 0..MAXFILE |-> 0]
  <2>1. \A k \in 0..MAXFILE : k <= NDIRECT => NoAddrs[k] = 0
    BY Sizes DEF NoAddrs
  <2> QED BY <1>1, <2>1 DEF Addresses
<1> DEFINE z == [k \in 0..MAXFILE |-> 0]
<1>3. Range(z) \ {0} = {}
  BY DEF Range
<1>4. SoundMap(z, used)
  BY <1>3 DEF SoundMap
<1> QED BY <1>1, <1>2, <1>4

LEMMA InodeInit == Init => InodeInv
<1> SUFFICES ASSUME Init PROVE InodeInv
  OBVIOUS
<1>1. used \subseteq Block /\ 0 \in used
  BY InodeAssumption DEF Init
<1>2. NoAddrs \in [0..NDIRECT -> Block]
  BY <1>1, NoBlocks
<1>3. NewINode \in INode
  BY <1>2, Sizes DEF NewINode, INode, T_FILE, T_FREE
<1>4. [b \in Block |-> ZeroBlock] \in Content
  BY ZeroBlockType DEF Content
<1>5. disk \in Disk /\ disk.bitmap = used /\ disk.inode = NewINode
  BY <1>1, <1>3, <1>4 DEF Init, Disk
<1>6. Types
  <2>1. IsFiniteSet({}) /\ Cardinality({}) = 0
    BY FS_EmptySet
  <2> QED BY <1>3, <1>5, <2>1, Sizes DEF Init, Types
<1>7. DiskInv
  <2>1. disk.inode.addrs = NoAddrs /\ disk.inode.size = 0 /\ disk.inode.type = T_FILE
    BY <1>5 DEF NewINode
  <2>2. SoundMap(Addresses(disk.inode.addrs, disk.content), disk.bitmap)
    BY <1>1, <1>5, <2>1, NoBlocks
  <2>3. file \in Seq(Nat) /\ Len(file) = 0
    BY DEF Init
  <2> QED BY <1>1, <2>1, <2>2, <2>3 DEF DiskInv, Shows, T_FILE, T_FREE
<1>8. OpenInv
  BY DEF Init, OpenInv
<1>9. pc # "write"
  BY DEF Init
<1> QED BY <1>6, <1>7, <1>8, <1>9 DEF InodeInv

\* A step that leaves the disk alone.
LEMMA DiskKept ==
    ASSUME DiskInv, UNCHANGED <<used, disk, file>>
    PROVE  DiskInv'
BY DEF DiskInv, SoundMap

\* A step that changes the links and the type of the inode on the disk, no more.
LEMMA LinkChanged ==
    ASSUME DiskInv, NEW ino, UNCHANGED <<used, file>>,
           disk.inode \in INode, disk \in Disk, ino \in INode,
           ino.size = disk.inode.size, ino.addrs = disk.inode.addrs,
           ino.type = T_FILE,
           disk' = Image(disk.bitmap, disk.content, ino)
    PROVE  DiskInv' /\ disk' \in Disk /\ disk'.inode = ino
<1>1. /\ disk'.bitmap = disk.bitmap /\ disk'.content = disk.content /\ disk'.inode = ino
      /\ disk' \in Disk
  BY DEF Image, Disk
<1>2. disk'.inode.addrs = disk.inode.addrs /\ disk'.inode.size = disk.inode.size
      /\ disk'.inode.type # T_FREE
  BY <1>1 DEF T_FILE, T_FREE
<1>3. used' = used /\ file' = file
  OBVIOUS
<1>4. SoundMap(Addresses(disk.inode.addrs, disk.content), disk.bitmap)'
  BY <1>1, <1>2, <1>3 DEF DiskInv, SoundMap
<1>5. Shows(Addresses(disk.inode.addrs, disk.content), disk.content, file)'
  BY <1>1, <1>2, <1>3 DEF DiskInv
<1> QED BY <1>1, <1>2, <1>3, <1>4, <1>5 DEF DiskInv

LEMMA CreateKeeps == InodeInv /\ create => InodeInv'
<1> SUFFICES ASSUME InodeInv, create PROVE InodeInv'
  OBVIOUS
<1> DEFINE ino == [disk.inode EXCEPT !.type = T_FILE, !.nlink = 1]
<1>1. disk \in Disk /\ disk.inode \in INode
  BY DEF InodeInv, Types, Disk
<1>2. ino \in INode /\ ino.size = disk.inode.size /\ ino.addrs = disk.inode.addrs
      /\ ino.type = T_FILE
  BY <1>1 DEF INode, T_FILE, T_FREE
<1>3. disk' = Image(disk.bitmap, disk.content, ino)
  BY <1>1 DEF create, Image, Disk
<1>4. UNCHANGED <<used, file>>
  BY DEF create
<1> HIDE DEF ino
<1>5. DiskInv' /\ disk' \in Disk
  BY <1>1, <1>2, <1>3, <1>4, LinkChanged DEF InodeInv
<1>6. Types'
  BY <1>5 DEF create, opVars, InodeInv, Types
<1>7. OpenInv' /\ pc' # "write"
  BY DEF create, opVars, InodeInv, OpenInv
<1> QED BY <1>5, <1>6, <1>7 DEF InodeInv

LEMMA OpenKeeps == InodeInv /\ open => InodeInv'
<1> SUFFICES ASSUME InodeInv, open PROVE InodeInv'
  OBVIOUS
<1>1. disk.inode \in INode
  BY DEF InodeInv, Types, Disk
<1>2. disk.inode.type = T_FILE /\ disk.inode.size \in Nat
  BY <1>1, Sizes DEF InodeInv, DiskInv, open, INode
<1>3. DiskInv'
  BY DiskKept DEF InodeInv, open
<1>4. Types'
  BY <1>1 DEF open, opVars, InodeInv, Types
<1>5. OpenInv' /\ pc' # "write"
  BY <1>2 DEF open, opVars, InodeInv, OpenInv
<1> QED BY <1>3, <1>4, <1>5 DEF InodeInv

LEMMA UnlinkKeeps == InodeInv /\ unlink => InodeInv'
<1> SUFFICES ASSUME InodeInv, unlink PROVE InodeInv'
  OBVIOUS
<1> DEFINE ino == [disk.inode EXCEPT !.nlink = 0]
<1>1. disk \in Disk /\ disk.inode \in INode /\ pc = "open"
  BY DEF InodeInv, Types, Disk, unlink
<1>2. ip = disk.inode /\ ip.type = T_FILE /\ off <= ip.size /\ logged = {}
  BY <1>1 DEF InodeInv, OpenInv
<1>3. ino \in INode /\ ino.size = disk.inode.size /\ ino.addrs = disk.inode.addrs
      /\ ino.type = T_FILE
  BY <1>1, <1>2 DEF INode
<1>4. disk' = Image(disk.bitmap, disk.content, ino) /\ ip' = ino
  BY <1>1, <1>2 DEF unlink, Image, Disk
<1>5. UNCHANGED <<used, file>>
  BY DEF unlink
<1> HIDE DEF ino
<1>6. DiskInv' /\ disk' \in Disk /\ disk'.inode = ino
  BY <1>1, <1>3, <1>4, <1>5, LinkChanged DEF InodeInv
<1>7. Types'
  BY <1>3, <1>4, <1>6 DEF unlink, opVars, InodeInv, Types
<1>8. OpenInv' /\ pc' # "write"
  BY <1>1, <1>2, <1>3, <1>4, <1>6 DEF unlink, opVars, OpenInv
<1> QED BY <1>6, <1>7, <1>8 DEF InodeInv

LEMMA ReadKeeps ==
    ASSUME InodeInv, NEW n \in 1 .. (MAXFILE * BSIZE), file_read(n)
    PROVE  InodeInv' /\ (pc' = "wild" => FALSE)
<1>1. pc = "open" /\ UNCHANGED <<used, disk, cache, logged, ip, addr, i, tot, file>>
  BY DEF file_read, opVars
<1>2. /\ ip = disk.inode /\ ip.type = T_FILE /\ off <= ip.size /\ cache = disk
      /\ logged = {} /\ ip \in INode /\ off \in Nat
  BY <1>1 DEF InodeInv, OpenInv, Types
<1>3. ip.size \in Nat /\ n \in Nat /\ ip.size <= MAXFILE * BSIZE
  BY <1>2, Sizes DEF INode
<1> DEFINE r == Min({n, ip.size - off})
<1>4. r \in Nat /\ off + r <= ip.size
  <2>1. n \in Int /\ ip.size - off \in Int
    BY <1>2, <1>3
  <2> DEFINE e == ip.size - off
  <2> HIDE DEF e
  <2>2. r = IF n <= e THEN n ELSE e
    BY <2>1, MinTwo DEF e
  <2> HIDE DEF r
  <2> QED BY <2>2, <1>2, <1>3 DEF e
<1>5. \A k \in off .. (off + r - 1) : AddressOf(ip, cache.content, k) # 0
  <2> HIDE DEF r
  <2> SUFFICES ASSUME NEW k \in off .. (off + r - 1) PROVE AddressOf(ip, cache.content, k) # 0
    OBVIOUS
  <2>1. k \in 0 .. (Len(file) - 1)
    BY <1>2, <1>3, <1>4 DEF InodeInv, DiskInv
  <2> QED BY <2>1, <1>2 DEF InodeInv, DiskInv, Shows, AddressOf
<1>6. off' = off + r /\ pc' = "open"
  <2>1. ~(off > ip.size)
    BY <1>2, <1>3
  <2> QED BY <2>1, <1>1, <1>5 DEF file_read
<1> HIDE DEF r
<1>7. DiskInv'
  BY <1>1, DiskKept DEF InodeInv
<1>8. Types'
  BY <1>1, <1>4, <1>6, <1>2 DEF InodeInv, Types
<1>9. OpenInv'
  BY <1>1, <1>2, <1>4, <1>6 DEF OpenInv
<1> QED BY <1>6, <1>7, <1>8, <1>9 DEF InodeInv

LEMMA WriteKeeps ==
    ASSUME InodeInv, NEW buf \in Buffers, file_write(buf)
    PROVE  InodeInv'
<1>1. buf \in Seq(Nat) /\ Len(buf) > 0
  BY InodeAssumption, EmptySeq
<1>2. DiskInv'
  BY DiskKept DEF file_write, InodeInv
<1>3. Types'
  BY DEF file_write, InodeInv, Types
<1>4. OpenInv' /\ pc' # "write"
  BY <1>1 DEF file_write, InodeInv, OpenInv
<1> QED BY <1>2, <1>3, <1>4 DEF InodeInv

LEMMA CrashKeeps == InodeInv /\ crash => InodeInv'
<1> SUFFICES ASSUME InodeInv, crash PROVE InodeInv'
  OBVIOUS
<1>1. DiskInv'
  BY DiskKept DEF crash, InodeInv
<1>2. NewINode \in INode
  BY NoBlocks, Sizes DEF NewINode, INode, T_FILE, T_FREE, InodeInv, DiskInv
<1>3. Types'
  <2>1. IsFiniteSet({}) /\ Cardinality({}) = 0
    BY FS_EmptySet
  <2> QED BY <1>2, <2>1, Sizes DEF crash, InodeInv, Types
<1>4. OpenInv' /\ pc' # "write"
  BY DEF crash, OpenInv
<1> QED BY <1>1, <1>3, <1>4 DEF InodeInv

\* The words of a transaction.
LEMMA WordsOfOne ==
    ASSUME addr \in Seq(Nat), i \in Nat, i < Len(addr)
    PROVE  n1 \in Nat /\ n1 > 0 /\ n1 <= max /\ i + n1 <= Len(addr)
<1> DEFINE e == Len(addr) - i
<1>1. e \in Nat /\ e > 0 /\ max \in Nat /\ max > 0 /\ Len(addr) \in Nat
  BY MaxIs
<1>2. n1 = Min({e, max})
  BY DEF n1
<1> HIDE DEF e
<1>3. n1 = IF e <= max THEN e ELSE max
  BY <1>1, <1>2, MinTwo
<1>4. n1 \in Nat /\ n1 > 0 /\ n1 <= max /\ n1 <= e
  BY <1>1, <1>3
<1> QED BY <1>1, <1>4 DEF e

LEMMA BeginKeeps == InodeInv /\ write_begin => InodeInv'
<1> SUFFICES ASSUME InodeInv, write_begin PROVE InodeInv'
  OBVIOUS
<1>1. /\ pc = "loop" /\ UNCHANGED <<used, disk, cache, logged, ip, off, file>> /\ tot' = 0
  BY DEF write_begin
<1>2. /\ ip = disk.inode /\ ip.type = T_FILE /\ off <= ip.size /\ cache = disk
      /\ logged = {} /\ addr \in Seq(Nat) /\ i < Len(addr)
  BY <1>1 DEF InodeInv, OpenInv
<1>3. disk.inode \in INode /\ disk.inode.size \in Nat /\ off \in Nat /\ i \in Nat
  BY Sizes DEF InodeInv, Types, Disk, INode
<1>4. DiskInv'
  BY <1>1, DiskKept DEF InodeInv
<1>5. CASE write_inode_refuses
  <2>1. pc' = "open" /\ i' = 0
    BY <1>5 DEF write_begin
  <2>2. Types'
    BY <1>1, <2>1 DEF InodeInv, Types
  <2>3. OpenInv'
    BY <1>1, <1>2, <2>1 DEF OpenInv
  <2> QED BY <1>4, <2>1, <2>2, <2>3 DEF InodeInv
<1>6. CASE ~write_inode_refuses
  <2>1. pc' = "write" /\ UNCHANGED <<addr, i>> /\ off + n1 <= MAXFILE * BSIZE
    <3>1. n1 \in Nat
      BY <1>2, <1>3, WordsOfOne
    <3>2. ~(off + n1 > MAXFILE * BSIZE)
      BY <1>6 DEF write_inode_refuses
    <3> QED BY <1>3, <1>6, <3>1, <3>2, Sizes DEF write_begin
  <2>2. Types'
    BY <1>1, <2>1 DEF InodeInv, Types
  <2>3. OpenInv'
    BY <1>1, <1>2, <2>1 DEF OpenInv
  <2>4. n1' = n1 /\ n1 \in Nat
    BY <1>2, <1>3, <2>1, WordsOfOne DEF n1
  <2> DEFINE a == Addresses(disk.inode.addrs, disk.content)
             w == Overwrite(file, off, SubSeq(addr, i + 1, i + 0))
  <2>5. Shows(a, disk.content, w)
    <3>1. /\ file \in Seq(Nat) /\ Len(file) = disk.inode.size /\ off <= Len(file)
          /\ Shows(a, disk.content, file)
      BY <1>2 DEF InodeInv, DiskInv
    <3> DEFINE t == 0
               v == Overwrite(file, off, SubSeq(addr, i + 1, i + t))
    <3>2. t \in Nat /\ i + t <= Len(addr) /\ t = 0
      BY <1>2, <1>3
    <3> HIDE DEF t
    <3>3. Overwritten(v, file, off, addr, i, t)
      BY <3>1, <3>2, <1>2, <1>3, OverwriteIs
    <3>4. v = w
      BY <3>2
    <3> HIDE DEF v, w, a
    <3>5. Len(w) = Len(file) /\ \A o \in 0 .. (Len(w) - 1) : w[o + 1] = file[o + 1]
      <4>1. Overwritten(w, file, off, addr, i, 0)
        BY <3>2, <3>3, <3>4
      <4>2. Len(w) = (IF off >= Len(file) THEN off ELSE Len(file)) /\ Len(file) \in Nat
        BY <4>1, <1>3, <3>1, LenProperties DEF Overwritten
      <4>3. Len(w) = Len(file)
        BY <4>2, <3>1, <1>3
      <4>4. \A o \in 0 .. (Len(w) - 1) :
               w[o + 1] = IF off <= o /\ o < off + 0 THEN addr[i + 1 + o - off] ELSE file[o + 1]
        BY <4>1 DEF Overwritten
      <4>5. \A o \in 0 .. (Len(w) - 1) : ~(off <= o /\ o < off + 0)
        BY <1>3, <3>1, <4>2, <4>3
      <4> QED BY <4>3, <4>4, <4>5
    <3> QED BY <3>1, <3>5 DEF Shows
  <2>6. Written' = w
    BY <1>1, <2>1 DEF Written
  <2>7. SoundMap(Addresses(ip.addrs, cache.content), cache.bitmap)'
    BY <1>1, <1>2 DEF InodeInv, DiskInv, SoundMap
  <2>8. Shows(Addresses(ip.addrs, cache.content), cache.content, Written)'
    <3> HIDE DEF w
    <3>1. ip'.addrs = disk.inode.addrs /\ cache'.content = disk.content
      BY <1>1, <1>2
    <3> QED BY <2>5, <2>6, <3>1
  <2>9. Cardinality(logged \ IndirectLog(ip.addrs[NDIRECT]))' <= DataLog(off, tot)'
    <3>1. (logged \ IndirectLog(ip.addrs[NDIRECT]))' = {}
      BY <1>1, <1>2
    <3>2. DataLog(off, tot)' = 0
      BY <1>1 DEF DataLog
    <3>3. Cardinality({}) = 0
      BY FS_EmptySet
    <3> QED BY <3>1, <3>2, <3>3
  <2>10. ip' = [disk'.inode EXCEPT !.addrs = ip'.addrs] /\ ip'.addrs = disk'.inode.addrs
         /\ cache'.inode = disk'.inode
    BY <1>1, <1>2, <1>3 DEF INode
  <2>11. WriteInv'
    BY <1>1, <2>1, <2>4, <2>7, <2>8, <2>9, <2>10 DEF WriteInv
  <2> QED BY <1>4, <2>2, <2>3, <2>11 DEF InodeInv
<1> QED BY <1>5, <1>6

LEMMA NewBlockType ==
    ASSUME NEW old \in [0 .. (BSIZE - 1) -> Nat], NEW p \in Nat, NEW g \in Nat,
           NEW buf \in Seq(Nat), NEW s \in Nat, s + g <= Len(buf)
    PROVE  NewBlock(old, p, g, buf, s) \in [0 .. (BSIZE - 1) -> Nat]
<1>1. \A k \in 0 .. (BSIZE - 1) :
          (IF k \in p .. (p + g - 1) THEN buf[s + 1 + k - p] ELSE old[k]) \in Nat
  <2> SUFFICES ASSUME NEW k \in 0 .. (BSIZE - 1)
               PROVE  (IF k \in p .. (p + g - 1) THEN buf[s + 1 + k - p] ELSE old[k]) \in Nat
    OBVIOUS
  <2>1. CASE k \in p .. (p + g - 1)
    <3>1. s + 1 + k - p \in 1 .. Len(buf)
      BY <2>1, LenProperties, Sizes
    <3> QED BY <2>1, <3>1, ElementOfSeq
  <2>2. CASE k \notin p .. (p + g - 1)
    BY <2>2
  <2> QED BY <2>1, <2>2
<1> QED BY <1>1 DEF NewBlock

\* A round of write_inode() where o is the word, p its place in the block, g the number
\* of words that fall into it and b what getting the block gives.
RoundIs(o, p, g, b) ==
    /\ o = off + tot /\ o \in Nat /\ o < MAXFILE * BSIZE /\ o \div BSIZE < MAXFILE
    /\ o \div BSIZE \in Nat
    /\ p = o % BSIZE /\ p \in Nat /\ p + g <= BSIZE
    /\ g \in Nat /\ g > 0 /\ tot + g <= n1 /\ (tot + g < n1 => p + g = BSIZE)
    /\ b = get_nthdiskBlock_for_inode(Image(cache.bitmap, cache.content, disk.inode),
                                       ip.addrs, o \div BSIZE)

\* What the round changes.
RoundDoes(p, g, b) ==
    /\ cache' = Image(b.cache.bitmap,
                      Store(b.cache.content, b.addr,
                            NewBlock(b.cache.content[b.addr], p, g, addr, i + tot)),
                      disk.inode)
    /\ ip' = [ip EXCEPT !.addrs = b.addrs]
    /\ logged' = logged \cup b.log \cup {DataBlock(b.addr)}
    /\ tot' = tot + g

LEMMA RoundOf ==
    ASSUME InodeInv, write_inode
    PROVE  \E o, p, g, b :
              /\ RoundIs(o, p, g, b)
              /\ UNCHANGED <<used, disk, off, addr, i, file>>
              /\ \/ /\ pc' \in {"full", "wild"} /\ UNCHANGED <<cache, logged, ip, tot>>
                    /\ pc' = "wild" => b.addr # 0 /\ ~log_write(b.log, DataBlock(b.addr)).ok
                 \/ pc' = "write" /\ b.addr # 0
                    /\ (b.cache = Image(b.cache.bitmap, b.cache.content, disk.inode)
                           /\ b.cache.content \in Content /\ b.addr \in Block
                           => RoundDoes(p, g, b))
<1> DEFINE o == off + tot
           p == o % BSIZE
           g == Min({n1 - tot, BSIZE - p})
           b == get_nthdiskBlock_for_inode(cache, ip.addrs, o \div BSIZE)
           l == log_write(b.log, DataBlock(b.addr))
<1>1. /\ pc = "write" /\ tot < n1 /\ WriteInv /\ UNCHANGED <<used, disk, off, addr, i, file>>
  BY DEF write_inode, InodeInv
<1>2. /\ off \in Nat /\ tot \in Nat /\ i \in Nat /\ addr \in Seq(Nat) /\ i < Len(addr)
      /\ off + n1 <= MAXFILE * BSIZE
  BY <1>1 DEF InodeInv, Types, OpenInv, WriteInv
<1>3. n1 \in Nat
  BY <1>2, WordsOfOne
<1>4. o \in Nat /\ o < MAXFILE * BSIZE
  BY <1>1, <1>2, <1>3, Sizes
<1>5. o \div BSIZE < MAXFILE /\ o \div BSIZE \in Nat /\ p \in Nat /\ p < BSIZE
  BY <1>4, WordPosition, Division
<1>6. /\ g \in Nat /\ g > 0 /\ tot + g <= n1 /\ p + g <= BSIZE
      /\ tot + g < n1 => p + g = BSIZE
  <2> DEFINE u == n1 - tot
             v == BSIZE - p
  <2>1. u \in Int /\ v \in Int /\ u > 0 /\ v > 0
    BY <1>1, <1>2, <1>3, <1>5, Sizes
  <2> HIDE DEF u, v, p
  <2>2. Min({u, v}) = IF u <= v THEN u ELSE v
    BY <2>1, MinTwo
  <2>3. g = IF u <= v THEN u ELSE v
    BY <2>2 DEF u, v
  <2> HIDE DEF g
  <2> QED BY <2>1, <2>3, <1>2, <1>3, <1>5, Sizes DEF u, v
<1>7. cache = Image(cache.bitmap, cache.content, disk.inode)
  <2>1. cache \in Disk /\ cache.inode = disk.inode
    BY <1>1 DEF InodeInv, Types, WriteInv
  <2> QED BY <2>1 DEF Disk, Image
<1>8. b = get_nthdiskBlock_for_inode(Image(cache.bitmap, cache.content, disk.inode),
                                     ip.addrs, o \div BSIZE)
  BY <1>7
<1> DEFINE T == /\ pc' = IF o \div BSIZE < MAXFILE /\ b.addr = 0 THEN "full" ELSE "wild"
                /\ UNCHANGED <<cache, logged, ip, tot>>
           E == /\ cache' = [b.cache EXCEPT !.content[b.addr] =
                                [k \in DOMAIN @ |-> IF k \in p .. (p + g - 1)
                                                    THEN addr[i + tot + 1 + k - p] ELSE @[k]]]
                /\ ip' = [ip EXCEPT !.addrs = b.addrs]
                /\ logged' = l.blocks
                /\ tot' = tot + g
                /\ UNCHANGED pc
<1>9. IF o \div BSIZE >= MAXFILE \/ b.addr = 0 \/ ~l.ok THEN T ELSE E
  BY DEF write_inode
<1>10. l.blocks = logged \cup b.log \cup {DataBlock(b.addr)}
  BY DEF log_write
<1>11. RoundIs(o, p, g, b)
  <2> HIDE DEF b, g
  <2> QED BY <1>4, <1>5, <1>6, <1>8 DEF RoundIs
<1>12. ~(o \div BSIZE >= MAXFILE)
  BY <1>5, Sizes
<1>13. E /\ b.cache = Image(b.cache.bitmap, b.cache.content, disk.inode)
         /\ b.cache.content \in Content /\ b.addr \in Block
       => RoundDoes(p, g, b)
  <2> HIDE DEF b, g, p, l
  <2> SUFFICES ASSUME E, b.cache = Image(b.cache.bitmap, b.cache.content, disk.inode),
                      b.cache.content \in Content, b.addr \in Block
               PROVE  RoundDoes(p, g, b)
    OBVIOUS
  <2> DEFINE ct == b.cache.content
             bm == b.cache.bitmap
             x == b.addr
             N == [k \in DOMAIN ct[x] |-> IF k \in p .. (p + g - 1)
                                          THEN addr[i + tot + 1 + k - p] ELSE ct[x][k]]
  <2>1. N = NewBlock(ct[x], p, g, addr, i + tot)
    BY DEF NewBlock
  <2>2. cache' = [b.cache EXCEPT !.content[b.addr] = N]
    OBVIOUS
  <2>3. b.cache = Image(bm, ct, disk.inode)
    OBVIOUS
  <2> HIDE DEF N, ct, bm, x
  <2>4. cache' = Image(bm, Store(ct, x, N), disk.inode)
    BY <2>2, <2>3 DEF Image, Store, x
  <2>5. cache' = Image(b.cache.bitmap, Store(b.cache.content, b.addr,
                          NewBlock(b.cache.content[b.addr], p, g, addr, i + tot)), disk.inode)
    BY <2>1, <2>4 DEF ct, bm, x
  <2> QED BY <2>5, <1>10 DEF RoundDoes
<1>14. E => pc' = "write"
  BY <1>1
<1>15. T => /\ pc' \in {"full", "wild"} /\ UNCHANGED <<cache, logged, ip, tot>>
            /\ pc' = "wild" => b.addr # 0
  BY <1>5
<1>18. l = log_write(b.log, DataBlock(b.addr))
  OBVIOUS
<1> HIDE DEF o, p, g, b, l, T, E
<1>16. CASE b.addr = 0 \/ ~l.ok
  BY <1>1, <1>9, <1>11, <1>12, <1>15, <1>16, <1>18
<1>17. CASE ~(b.addr = 0 \/ ~l.ok)
  BY <1>1, <1>9, <1>11, <1>12, <1>13, <1>14, <1>17
<1> QED BY <1>16, <1>17

\* What holds while a transaction of file_write() is in progress.
LEMMA InWrite ==
    ASSUME InodeInv, pc = "write"
    PROVE  /\ WriteInv /\ DiskInv
           /\ off \in Nat /\ tot \in Nat /\ i \in Nat /\ addr \in Seq(Nat) /\ i < Len(addr)
           /\ n1 \in Nat /\ n1 > 0 /\ n1 <= max /\ i + n1 <= Len(addr) /\ tot <= n1
           /\ cache.bitmap \in SUBSET Block /\ cache.content \in Content
           /\ ip \in INode /\ ip.addrs \in [0..NDIRECT -> Block]
           /\ ip.size \in Nat /\ ip.size = disk.inode.size /\ ip.size <= MAXFILE * BSIZE
           /\ file \in Seq(Nat) /\ Len(file) = ip.size /\ off <= Len(file)
           /\ Overwritten(Written, file, off, addr, i, tot)
<1>1. /\ WriteInv /\ DiskInv /\ off \in Nat /\ tot \in Nat /\ i \in Nat /\ addr \in Seq(Nat)
      /\ i < Len(addr) /\ off <= ip.size /\ ip \in INode /\ disk.inode \in INode
      /\ cache \in Disk
  BY DEF InodeInv, Types, OpenInv, Disk
<1>2. n1 \in Nat /\ n1 > 0 /\ n1 <= max /\ i + n1 <= Len(addr)
  BY <1>1, WordsOfOne
<1>3. cache.bitmap \in SUBSET Block /\ cache.content \in Content
  BY <1>1 DEF Disk
<1>4. /\ ip.addrs \in [0..NDIRECT -> Block] /\ ip.size \in Nat
      /\ ip.size <= MAXFILE * BSIZE
  BY <1>1, Sizes DEF INode
<1>5. ip.size = disk.inode.size
  BY <1>1 DEF WriteInv, INode
<1>6. file \in Seq(Nat) /\ Len(file) = ip.size /\ off <= Len(file)
  BY <1>1, <1>5 DEF DiskInv
<1>7. tot <= n1
  BY <1>1 DEF WriteInv
<1>8. i + tot <= Len(addr)
  <2>1. Len(addr) \in Nat
    BY <1>1, LenProperties
  <2> QED BY <1>1, <1>2, <1>7, <2>1
<1>9. Overwritten(Written, file, off, addr, i, tot)
  BY <1>1, <1>6, <1>8, OverwriteIs DEF Written
<1> QED BY <1>1, <1>2, <1>3, <1>4, <1>5, <1>6, <1>7, <1>9

\* The block of a round, and what the log holds after it.
LEMMA RoundLog ==
    ASSUME InodeInv, pc = "write", NEW o, NEW p, NEW g, NEW b, RoundIs(o, p, g, b), b.addr # 0,
           NEW L2, L2 = logged \cup b.log \cup {DataBlock(b.addr)},
           NEW D2, D2 = IndirectLog(b.addrs[NDIRECT])
    PROVE  /\ GotBlock(cache.bitmap, cache.content, disk.inode, ip.addrs,
                        Position(o \div BSIZE), b)
           /\ IsFiniteSet(L2) /\ Cardinality(L2) < LOGSIZE
           /\ Cardinality(L2 \ D2) <= DataLog(off, tot + g)
<1> DEFINE n == o \div BSIZE
           a == Addresses(ip.addrs, cache.content)
           D == IndirectLog(ip.addrs[NDIRECT])
<1>1. /\ n \in Nat /\ n < MAXFILE /\ o = off + tot /\ o \in Nat /\ p = o % BSIZE
      /\ g \in Nat /\ g > 0 /\ tot + g <= n1 /\ p + g <= BSIZE
      /\ b = get_nthdiskBlock_for_inode(Image(cache.bitmap, cache.content, disk.inode),
                                        ip.addrs, n)
  BY DEF RoundIs
<1>2. SoundMap(a, cache.bitmap) /\ Shows(a, cache.content, Written)
      /\ Cardinality(logged \ D) <= DataLog(off, tot)
      /\ (tot \notin {0, n1} => (off + tot) % BSIZE = 0)
  BY InWrite DEF WriteInv
<1>3. cache.bitmap \in SUBSET Block /\ cache.content \in Content
      /\ ip.addrs \in [0..NDIRECT -> Block] /\ off \in Nat /\ tot \in Nat
      /\ n1 \in Nat /\ n1 <= max
  BY InWrite
<1>4. GotBlock(cache.bitmap, cache.content, disk.inode, ip.addrs, Position(n), b)
  <2> HIDE DEF n
  <2> QED BY <1>1, <1>2, <1>3, GetBlock
<1>5. /\ a[Position(n)] # 0 => b.log = {}
      /\ b.log \subseteq D2 \cup {BBLOCK(b.addr), DataBlock(b.addr)}
      /\ D \subseteq D2
  BY <1>4 DEF GotBlock
<1>6. tot = 0 /\ off % BSIZE # 0 => b.log = {}
  <2> SUFFICES ASSUME tot = 0, off % BSIZE # 0 PROVE a[Position(n)] # 0
    BY <1>5
  <2>1. off - 1 \in Nat /\ (off - 1) \div BSIZE = n
    BY <1>1, <1>3, InsideBlock
  <2>2. off - 1 \in 0 .. (Len(Written) - 1)
    <3>1. /\ Len(Written) = (IF off + tot >= Len(file) THEN off + tot ELSE Len(file))
          /\ Len(file) \in Nat /\ off <= Len(file)
      BY InWrite, LenProperties DEF Overwritten
    <3> QED BY <2>1, <3>1, <1>3
  <2> HIDE DEF a, n
  <2> QED BY <2>1, <2>2, <1>2 DEF Shows
<1>7. IsFiniteSet(logged)
  BY DEF InodeInv, Types
<1> HIDE DEF D, a, n
<1>8. /\ IsFiniteSet(L2 \ D2)
      /\ Cardinality(logged \ D) \in Nat /\ Cardinality(L2 \ D2) \in Nat
      /\ Cardinality(L2 \ D2) <= Cardinality(logged \ D) + 2
      /\ b.log = {} => Cardinality(L2 \ D2) <= Cardinality(logged \ D) + 1
  BY <1>5, <1>7, LogGrows
<1>9. DataLog(off, tot + g) = DataLog(off, tot) + (IF tot = 0 /\ off % BSIZE # 0 THEN 1 ELSE 2)
  <2>1. tot # 0 => (off + tot) % BSIZE = 0
    BY <1>1, <1>2, <1>3
  <2>2. ((off + tot) % BSIZE) + g <= BSIZE
    BY <1>1
  <2>3. off \in Nat /\ tot \in Nat /\ g \in Nat /\ g > 0
    BY <1>1, <1>3
  <2> QED BY <2>1, <2>2, <2>3, DataGrows
<1>10. /\ DataLog(off, tot) \in Int /\ DataLog(off, tot + g) \in Int
       /\ DataLog(off, tot + g) + 2 < LOGSIZE
  <2>1. tot + g \in Nat /\ tot + g <= max /\ tot <= max
    BY <1>1, <1>3, MaxIs
  <2> QED BY <2>1, <1>3, DataFits
<1>11. Cardinality(L2 \ D2) <= DataLog(off, tot + g)
  <2>1. CASE tot = 0 /\ off % BSIZE # 0
    BY <2>1, <1>2, <1>6, <1>8, <1>9, <1>10
  <2>2. CASE ~(tot = 0 /\ off % BSIZE # 0)
    BY <2>2, <1>2, <1>8, <1>9, <1>10
  <2> QED BY <2>1, <2>2
<1>12. IsFiniteSet(L2) /\ Cardinality(L2) \in Nat /\ Cardinality(L2) < LOGSIZE
  <2> DEFINE d2 == b.addrs[NDIRECT]
  <2> HIDE DEF d2
  <2>1. IsFiniteSet(L2 \ IndirectLog(d2)) /\ D2 = IndirectLog(d2)
    BY <1>8 DEF d2
  <2>2. /\ IsFiniteSet(L2) /\ Cardinality(L2) \in Nat
        /\ Cardinality(L2) <= Cardinality(L2 \ IndirectLog(d2)) + 2
    BY <2>1, WholeLog
  <2> QED BY <2>1, <2>2, <1>8, <1>10, <1>11, Sizes
<1> QED BY <1>4, <1>11, <1>12 DEF n

\* The words fall into whole blocks from the first round on.
LEMMA WholeBlocks ==
    ASSUME NEW o \in Nat, NEW g \in Nat, (o % BSIZE) + g = BSIZE
    PROVE  (o + g) % BSIZE = 0
<1> DEFINE q == o \div BSIZE
           r == o % BSIZE
<1>1. q \in Nat /\ r \in Nat /\ o = BSIZE * q + r
  BY Division, Sizes
<1>2. r + g = BSIZE
  OBVIOUS
<1> HIDE DEF q, r
<1>3. o + g = BSIZE * (q + 1) + 0
  <2>1. BSIZE * q \in Nat /\ BSIZE * (q + 1) = BSIZE * q + BSIZE
    BY <1>1, Sizes
  <2> DEFINE v == BSIZE * q
  <2> HIDE DEF v
  <2>2. v \in Nat /\ o = v + r /\ BSIZE * (q + 1) = v + BSIZE
    BY <2>1, <1>1 DEF v
  <2> QED BY <2>2, <1>1, <1>2, Sizes
<1>4. q + 1 \in Nat /\ 0 \in 0 .. (BSIZE - 1)
  BY <1>1, Sizes
<1>5. (BSIZE * (q + 1) + 0) % BSIZE = 0
  <2> DEFINE y == q + 1
  <2> HIDE DEF y
  <2>1. y \in Nat /\ 0 \in 0 .. (BSIZE - 1)
    BY <1>4 DEF y
  <2>2. (BSIZE * y + 0) % BSIZE = 0
    BY <2>1, Sizes, QuotientBy
  <2> QED BY <2>2 DEF y
<1> QED BY <1>3, <1>5

LEMMA RoundKeeps ==
    ASSUME InodeInv, pc = "write", pc' = "write", UNCHANGED <<used, disk, off, addr, i, file>>,
           NEW o, NEW p, NEW g, NEW b, RoundIs(o, p, g, b), b.addr # 0,
           GotBlock(cache.bitmap, cache.content, disk.inode, ip.addrs,
                    Position(o \div BSIZE), b),
           RoundDoes(p, g, b)
    PROVE  InodeInv'
<1> DEFINE n == o \div BSIZE
           a == Addresses(ip.addrs, cache.content)
           ct2 == b.cache.content
           a2 == Addresses(b.addrs, ct2)
           N == NewBlock(ct2[b.addr], p, g, addr, i + tot)
           ct3 == Store(ct2, b.addr, N)
           w2 == Overwrite(file, off, SubSeq(addr, i + 1, i + (tot + g)))
<1>1. /\ n \in Nat /\ n < MAXFILE /\ o = off + tot /\ o \in Nat /\ p = o % BSIZE /\ p \in Nat
      /\ g \in Nat /\ g > 0 /\ tot + g <= n1 /\ p + g <= BSIZE
      /\ tot + g < n1 => p + g = BSIZE
  BY DEF RoundIs
<1>2. /\ ct2 \in Content /\ b.addrs \in [0..NDIRECT -> Block] /\ SoundMap(a2, b.cache.bitmap)
      /\ a2[Position(n)] = b.addr /\ Kept(a, cache.content, a2, ct2)
      /\ a[Position(n)] # 0 => b.addrs = ip.addrs
  BY DEF GotBlock, Kept
<1>3. /\ cache' = Image(b.cache.bitmap, ct3, disk.inode) /\ ip' = [ip EXCEPT !.addrs = b.addrs]
      /\ logged' = logged \cup b.log \cup {DataBlock(b.addr)} /\ tot' = tot + g
  BY DEF RoundDoes
<1>4. Position(n) \in 0..MAXFILE /\ Position(n) # NDIRECT
  <2> HIDE DEF n
  <2> QED BY <1>1, Positions
<1>5. b.addr \in Block
  <2>1. a2 \in [0..MAXFILE -> Block]
    BY <1>2 DEF SoundMap
  <2> HIDE DEF a2, n
  <2> QED BY <1>2, <1>4, <2>1
<1>6. N \in [0 .. (BSIZE - 1) -> Nat]
  <2>1. ct2[b.addr] \in [0 .. (BSIZE - 1) -> Nat]
    BY <1>2, <1>5 DEF Content
  <2>2. i + tot \in Nat /\ i + tot + g <= Len(addr) /\ addr \in Seq(Nat)
    <3>1. /\ i \in Nat /\ tot \in Nat /\ n1 \in Nat /\ i + n1 <= Len(addr) /\ addr \in Seq(Nat)
      BY InWrite
    <3>2. Len(addr) \in Nat
      BY <3>1, LenProperties
    <3> QED BY <3>1, <3>2, <1>1
  <2> DEFINE s == i + tot
             old == ct2[b.addr]
  <2> HIDE DEF s, old
  <2>3. NewBlock(old, p, g, addr, s) \in [0 .. (BSIZE - 1) -> Nat]
    BY <1>1, <2>1, <2>2, NewBlockType DEF s, old
  <2> QED BY <2>3 DEF s, old
<1>7. Addresses(b.addrs, ct3) = a2 /\ ct3 \in Content
  <2> HIDE DEF N, n, a2, ct2
  <2>1. Addresses(b.addrs, Store(ct2, a2[Position(n)], N)) = a2
        /\ Store(ct2, a2[Position(n)], N) \in Content
    BY <1>2, <1>4, <1>6, StoreKeepsMap DEF a2
  <2> QED BY <2>1, <1>2
<1>8. /\ cache'.bitmap = b.cache.bitmap /\ cache'.content = ct3 /\ cache'.inode = disk.inode
  <2> HIDE DEF ct3
  <2> QED BY <1>3 DEF Image
<1>9. b.cache.bitmap \in SUBSET Block
  <2>1. used \subseteq Block /\ a2 \in [0..MAXFILE -> Block]
    BY <1>2 DEF InodeInv, DiskInv, SoundMap
  <2>2. Range(a2) \subseteq Block
    <3> HIDE DEF a2
    <3> QED BY <2>1 DEF Range
  <2> HIDE DEF a2
  <2> QED BY <1>2, <2>1, <2>2 DEF SoundMap
<1> HIDE DEF N, ct3, a2, ct2
<1>10. cache' \in Disk
  <2>1. disk.inode \in INode
    BY DEF InodeInv, Types, Disk
  <2> QED BY <1>3, <1>7, <1>9, <2>1 DEF Disk, Image
<1>11. /\ ip' \in INode /\ ip'.addrs = b.addrs /\ ip'.size = ip.size /\ ip'.type = ip.type
       /\ ip' = [disk.inode EXCEPT !.addrs = ip'.addrs]
  <2>1. ip \in INode /\ disk.inode \in INode /\ ip = [disk.inode EXCEPT !.addrs = ip.addrs]
    BY InWrite DEF WriteInv, InodeInv, Types, Disk
  <2> QED BY <1>2, <1>3, <2>1 DEF INode
<1> DEFINE L2 == logged \cup b.log \cup {DataBlock(b.addr)}
           D2 == IndirectLog(b.addrs[NDIRECT])
<1>12. /\ IsFiniteSet(L2) /\ Cardinality(L2) < LOGSIZE
       /\ Cardinality(L2 \ D2) <= DataLog(off, tot + g)
  <2> HIDE DEF L2, D2
  <2> QED BY RoundLog DEF L2, D2
<1>13. off \in Nat /\ tot \in Nat /\ tot + g \in Nat /\ n1 \in Nat /\ n1' = n1
  <2>1. off \in Nat /\ tot \in Nat /\ n1 \in Nat
    BY InWrite
  <2>2. n1' = n1
    BY DEF n1
  <2> HIDE DEF L2, D2, n, w2
  <2> QED BY <1>1, <2>1, <2>2
<1>14. Types'
  <2>1. IsFiniteSet(logged') /\ Cardinality(logged') <= LOGSIZE
    <3>1. Cardinality(L2) \in Nat
      BY <1>12, FS_CardinalityType
    <3> QED BY <3>1, <1>3, <1>12, Sizes
  <2> HIDE DEF L2, D2, n, w2
  <2> QED BY <1>3, <1>10, <1>11, <1>13, <2>1 DEF Types, InodeInv
<1>15. DiskInv'
  BY DiskKept DEF InodeInv
<1>16. OpenInv'
  <2> HIDE DEF L2, D2, n, w2
  <2> QED BY <1>11 DEF InodeInv, OpenInv
<1>17. WriteInv'
  <2> HIDE DEF L2, D2, w2, a
  <2>1. (off + tot <= ip.size => ip.addrs = disk.inode.addrs)'
    <3> SUFFICES ASSUME off + (tot + g) <= ip.size PROVE b.addrs = disk.inode.addrs
      BY <1>3, <1>11
    <3>1. /\ Len(Written) = (IF off + tot >= Len(file) THEN off + tot ELSE Len(file))
          /\ Len(file) = ip.size /\ ip.size \in Nat /\ Shows(a, cache.content, Written)
      BY InWrite DEF Overwritten, WriteInv, a
    <3>2. o \in 0 .. (Len(Written) - 1) /\ off + tot <= ip.size
      BY <3>1, <1>1, <1>13
    <3>3. a[Position(n)] # 0
      BY <3>1, <3>2 DEF Shows
    <3>4. ip.addrs = disk.inode.addrs
      BY <3>2, InWrite DEF WriteInv
    <3> QED BY <3>3, <3>4, <1>2
  <2>2. (tot \notin {0, n1} => (off + tot) % BSIZE = 0)'
    <3> SUFFICES ASSUME tot + g # n1 PROVE (off + (tot + g)) % BSIZE = 0
      BY <1>3, <1>13
    <3>1. p + g = BSIZE
      BY <1>1, <1>13
    <3>2. (o + g) % BSIZE = 0
      BY <1>1, <3>1, WholeBlocks
    <3>3. o + g = off + (tot + g)
      BY <1>1, <1>13
    <3> QED BY <3>2, <3>3
  <2>3. SoundMap(Addresses(ip.addrs, cache.content), cache.bitmap)'
    <3>1. /\ Addresses(ip'.addrs, cache'.content) = a2 /\ cache'.bitmap = b.cache.bitmap
          /\ used' = used
      BY <1>7, <1>8, <1>11
    <3> QED BY <3>1, <1>2 DEF SoundMap
  <2>4. Shows(Addresses(ip.addrs, cache.content), cache.content, Written)'
    <3>1. /\ file \in Seq(Nat) /\ Len(file) = ip.size /\ ip.size \in Nat /\ off <= Len(file)
          /\ ip.size <= MAXFILE * BSIZE /\ addr \in Seq(Nat) /\ i \in Nat
          /\ i + n1 <= Len(addr) /\ Overwritten(Written, file, off, addr, i, tot)
          /\ Shows(a, cache.content, Written) /\ off + n1 <= MAXFILE * BSIZE
      BY InWrite DEF WriteInv, a
    <3>2. Len(addr) \in Nat /\ Len(file) \in Nat
      BY <3>1, LenProperties
    <3>3. i + (tot + g) <= Len(addr)
      BY <3>1, <3>2, <1>1, <1>13
    <3>4. Overwritten(w2, file, off, addr, i, tot + g)
      <4> DEFINE t == tot + g
      <4> HIDE DEF t
      <4>1. Overwritten(Overwrite(file, off, SubSeq(addr, i + 1, i + t)), file, off, addr, i, t)
        BY <3>1, <3>3, <1>13, OverwriteIs DEF t
      <4> QED BY <4>1 DEF t, w2
    <3>5. Len(w2) <= MAXFILE * BSIZE
      <4>1. Len(w2) = IF off + (tot + g) >= Len(file) THEN off + (tot + g) ELSE Len(file)
        BY <3>4 DEF Overwritten
      <4> DEFINE M == MAXFILE * BSIZE
      <4>2. M \in Nat /\ off + n1 <= M /\ Len(file) <= M
        BY <3>1, Sizes
      <4>3. tot + g <= n1
        BY <1>1
      <4> HIDE DEF M
      <4>4. Len(w2) <= M
        BY <4>1, <4>2, <4>3, <3>2, <1>13
      <4> QED BY <4>4 DEF M
    <3>6. Shows(a2, Store(ct2, b.addr, NewBlock(ct2[b.addr], p, g, addr, i + tot)), w2)
      <4>1. b.addr = a2[Position((off + tot) \div BSIZE)] /\ (off + tot) \div BSIZE < MAXFILE
            /\ p = (off + tot) % BSIZE
        BY <1>1, <1>2
      <4> DEFINE bb == b.addr
                 bm2 == b.cache.bitmap
                 ct == cache.content
                 w == Written
      <4> HIDE DEF bb, bm2, ct, w
      <4>2. bb = a2[Position((off + tot) \div BSIZE)] /\ bb # 0 /\ SoundMap(a2, bm2)
            /\ Kept(a, ct, a2, ct2) /\ Shows(a, ct, w) /\ Overwritten(w, file, off, addr, i, tot)
        BY <4>1, <3>1, <1>2 DEF bb, bm2, ct, w
      <4>3. Shows(a2, Store(ct2, bb, NewBlock(ct2[bb], p, g, addr, i + tot)), w2)
        <5>1. g \in Nat /\ p + g <= BSIZE /\ ct2 \in Content /\ i \in Nat
              /\ off \in Nat /\ tot \in Nat
          BY <1>1, <1>2, <1>13, <3>1
        <5> HIDE DEF n
        <5> QED BY <3>2, <3>4, <3>5, <4>1, <4>2, <5>1, WriteWords
      <4> QED BY <4>3 DEF bb
    <3>7. Written' = w2
      BY <1>3 DEF Written, w2
    <3>8. Addresses(ip'.addrs, cache'.content) = a2 /\ cache'.content = ct3
      BY <1>7, <1>8, <1>11
    <3>9. Shows(a2, ct3, w2)
      BY <3>6 DEF ct3, N
    <3> QED BY <3>7, <3>8, <3>9
  <2>5. (Cardinality(logged \ IndirectLog(ip.addrs[NDIRECT])) <= DataLog(off, tot))'
    <3>1. (logged \ IndirectLog(ip.addrs[NDIRECT]))' = L2 \ D2
      BY <1>3, <1>11 DEF L2, D2, IndirectLog, BBLOCK, DataBlock
    <3>2. DataLog(off, tot)' = DataLog(off, tot + g)
      BY <1>3 DEF DataLog
    <3> QED BY <3>1, <3>2, <1>12
  <2>6. (off + n1 <= MAXFILE * BSIZE /\ tot <= n1)'
    BY <1>1, <1>3, <1>13, InWrite DEF WriteInv
  <2>7. (cache.inode = disk.inode /\ ip = [disk.inode EXCEPT !.addrs = ip.addrs])'
    BY <1>8, <1>11
  <2> QED BY <2>1, <2>2, <2>3, <2>4, <2>5, <2>6, <2>7 DEF WriteInv
<1> QED BY <1>14, <1>15, <1>16, <1>17 DEF InodeInv

LEMMA WriteInodeKeeps ==
    ASSUME InodeInv, write_inode
    PROVE  InodeInv' /\ (AreaFits => pc' # "wild")
<1>1. pc = "write"
  BY DEF write_inode
<1>2. PICK o, p, g, b :
         /\ RoundIs(o, p, g, b)
         /\ UNCHANGED <<used, disk, off, addr, i, file>>
         /\ \/ /\ pc' \in {"full", "wild"} /\ UNCHANGED <<cache, logged, ip, tot>>
               /\ pc' = "wild" => b.addr # 0 /\ ~log_write(b.log, DataBlock(b.addr)).ok
            \/ pc' = "write" /\ b.addr # 0
               /\ (b.cache = Image(b.cache.bitmap, b.cache.content, disk.inode)
                      /\ b.cache.content \in Content /\ b.addr \in Block
                      => RoundDoes(p, g, b))
  BY RoundOf
<1> DEFINE L2 == logged \cup b.log \cup {DataBlock(b.addr)}
           D2 == IndirectLog(b.addrs[NDIRECT])
           P == Position(o \div BSIZE)
<1>3. b.addr # 0 =>
         /\ GotBlock(cache.bitmap, cache.content, disk.inode, ip.addrs, P, b)
         /\ AreaFits => log_write(b.log, DataBlock(b.addr)).ok
  <2> SUFFICES ASSUME b.addr # 0
               PROVE  /\ GotBlock(cache.bitmap, cache.content, disk.inode, ip.addrs, P, b)
                      /\ AreaFits => log_write(b.log, DataBlock(b.addr)).ok
    OBVIOUS
  <2>1. L2 = logged \cup b.log \cup {DataBlock(b.addr)}
    OBVIOUS
  <2> HIDE DEF L2, D2
  <2>2. /\ GotBlock(cache.bitmap, cache.content, disk.inode, ip.addrs, P, b)
        /\ IsFiniteSet(L2) /\ Cardinality(L2) < LOGSIZE
    BY <1>1, <1>2, <2>1, RoundLog DEF D2
  <2>3. Cardinality(L2) \in Nat
    BY <2>2, FS_CardinalityType
  <2>4. AreaFits => Cardinality(L2) <= LOGSIZE /\ Cardinality(L2) <= nlog - 1
    BY <2>2, <2>3, InodeAssumption DEF AreaFits
  <2> QED BY <2>1, <2>2, <2>4 DEF log_write
<1>4. CASE pc' \in {"full", "wild"} /\ UNCHANGED <<cache, logged, ip, tot>>
  <2>1. AreaFits => pc' # "wild"
    BY <1>2, <1>3, <1>4
  <2>2. DiskInv'
    BY <1>2, DiskKept DEF InodeInv
  <2>3. Types'
    BY <1>2, <1>4 DEF InodeInv, Types
  <2>4. OpenInv'
    BY <1>4 DEF OpenInv
  <2> QED BY <1>4, <2>1, <2>2, <2>3, <2>4 DEF InodeInv
<1>5. CASE ~(pc' \in {"full", "wild"} /\ UNCHANGED <<cache, logged, ip, tot>>)
  <2>1. pc' = "write" /\ b.addr # 0
    BY <1>2, <1>5
  <2>2. GotBlock(cache.bitmap, cache.content, disk.inode, ip.addrs, P, b)
    BY <1>3, <2>1
  <2>3. /\ b.cache = Image(b.cache.bitmap, b.cache.content, disk.inode)
        /\ b.cache.content \in Content
        /\ SoundMap(Addresses(b.addrs, b.cache.content), b.cache.bitmap)
        /\ Addresses(b.addrs, b.cache.content)[P] = b.addr
    BY <2>2 DEF GotBlock
  <2>4. P \in 0..MAXFILE
    BY <1>2, Positions DEF RoundIs
  <2>5. b.addr \in Block
    <3> HIDE DEF P
    <3> QED BY <2>3, <2>4 DEF SoundMap
  <2>6. RoundDoes(p, g, b)
    BY <1>2, <1>5, <2>3, <2>5
  <2> HIDE DEF P
  <2> QED BY <1>1, <1>2, <2>1, <2>2, <2>6, RoundKeeps DEF P
<1> QED BY <1>4, <1>5

\* The end of write_inode() writes the inode when the file has grown; the map on the
\* disk is that of the inode in either case.
LEMMA EndKeeps ==
    ASSUME InodeInv, write_end
    PROVE  InodeInv' /\ (AreaFits => pc' # "wild")
<1>1. pc = "write" /\ tot = n1 /\ UNCHANGED <<used, off>>
  BY DEF write_end
<1> DEFINE ino == IF grown THEN [ip EXCEPT !.size = off + tot] ELSE ip
           c == IF grown THEN [cache EXCEPT !.inode = ino] ELSE cache
<1>2. /\ WriteInv /\ off \in Nat /\ tot \in Nat /\ i \in Nat /\ addr \in Seq(Nat)
      /\ n1 \in Nat /\ n1 > 0 /\ n1 <= max /\ i + n1 <= Len(addr)
      /\ ip \in INode /\ ip.size \in Nat /\ ip.size = disk.inode.size
      /\ file \in Seq(Nat) /\ Len(file) = ip.size /\ off <= Len(file)
      /\ Overwritten(Written, file, off, addr, i, tot) /\ disk.inode \in INode
      /\ cache \in Disk /\ ip.type = T_FILE
      /\ used \subseteq Block /\ 0 \in used
  BY <1>1, InWrite DEF InodeInv, Types, Disk, OpenInv, DiskInv
<1>3. Cardinality(logged) < LOGSIZE
  <2> DEFINE d == ip.addrs[NDIRECT]
             R == logged \ IndirectLog(d)
  <2>1. IsFiniteSet(logged) /\ Cardinality(R) <= DataLog(off, tot)
    BY <1>2 DEF InodeInv, Types, WriteInv
  <2>2. IsFiniteSet(R)
    BY <2>1, FS_Subset
  <2>3. DataLog(off, tot) \in Int /\ DataLog(off, tot) + 2 < LOGSIZE
    BY <1>1, <1>2, DataFits
  <2>4. Cardinality(R) \in Nat
    BY <2>2, FS_CardinalityType
  <2> HIDE DEF d
  <2>5. Cardinality(logged) \in Nat /\ Cardinality(logged) <= Cardinality(R) + 2
    BY <2>2, WholeLog
  <2> HIDE DEF R
  <2> QED BY <2>1, <2>3, <2>4, <2>5, Sizes
<1>4. AreaFits => log_write({}, INodeBlock).ok
  <2>1. logged \cup {} \cup {INodeBlock} = logged \cup {INodeBlock}
    OBVIOUS
  <2>2. IsFiniteSet(logged)
    BY DEF InodeInv, Types
  <2> DEFINE L == logged \cup {INodeBlock}
  <2>3. Cardinality(L) \in Nat /\ Cardinality(logged) \in Nat
        /\ Cardinality(L) <= Cardinality(logged) + 1
    BY <2>2, AddOne
  <2> HIDE DEF L
  <2>4. AreaFits => Cardinality(L) <= LOGSIZE /\ Cardinality(L) <= nlog - 1
    BY <1>3, <2>3, InodeAssumption DEF AreaFits
  <2> QED BY <2>1, <2>4 DEF log_write, L
<1>15. CASE grown /\ ~log_write({}, INodeBlock).ok
  <2>1. /\ pc' = "wild"
        /\ UNCHANGED <<disk, cache, ip, logged, addr, i, tot, file, used, off>>
    BY <1>1, <1>15 DEF write_end
  <2>2. DiskInv'
    BY <2>1, DiskKept DEF InodeInv
  <2>3. Types'
    BY <2>1 DEF InodeInv, Types
  <2>4. OpenInv'
    BY <2>1 DEF OpenInv
  <2> QED BY <1>4, <1>15, <2>1, <2>2, <2>3, <2>4 DEF InodeInv
<1> SUFFICES ASSUME ~(grown /\ ~log_write({}, INodeBlock).ok)
             PROVE  InodeInv' /\ (AreaFits => pc' # "wild")
  BY <1>15
<1>5. /\ ip' = ino /\ cache' = c /\ disk' = c /\ logged' = {} /\ tot' = 0
      /\ file' = Overwrite(file, off, SubSeq(addr, i + 1, i + n1))
      /\ IF i + n1 = Len(addr)
         THEN pc' = "open" /\ addr' = <<>> /\ i' = 0
         ELSE pc' = "loop" /\ i' = i + n1 /\ UNCHANGED addr
  BY DEF write_end
<1>6. file' = Written
  BY <1>1, <1>5 DEF Written
<1>7. Len(Written) = (IF off + tot >= Len(file) THEN off + tot ELSE Len(file)) /\ Written \in Seq(Nat)
  BY <1>2 DEF Overwritten
<1>8. off + tot <= MAXFILE * BSIZE
  BY <1>1, <1>2 DEF WriteInv
<1>9. /\ ino \in INode /\ ino.size = Len(Written) /\ ino.addrs = ip.addrs /\ ino.type = T_FILE
      /\ c = Image(cache.bitmap, cache.content, ino)
  <2>1. CASE grown
    <3>1. ino = [ip EXCEPT !.size = off + tot] /\ c = [cache EXCEPT !.inode = ino]
      BY <2>1
    <3>2. off + tot \in 0 .. (MAXFILE * BSIZE) /\ Len(Written) = off + tot
      BY <1>2, <1>7, <1>8, <2>1, Sizes DEF grown
    <3>3. ino \in INode /\ ino.size = off + tot /\ ino.addrs = ip.addrs /\ ino.type = T_FILE
      BY <1>2, <3>1, <3>2 DEF INode
    <3> HIDE DEF ino
    <3>4. c = Image(cache.bitmap, cache.content, ino)
      BY <1>2, <3>1 DEF Disk, Image
    <3> QED BY <3>2, <3>3, <3>4
  <2>2. CASE ~grown
    <3>1. ino = ip /\ c = cache
      BY <2>2
    <3>2. off + tot <= ip.size /\ Len(Written) = ip.size
      <4>1. ~(off + tot > ip.size)
        BY <2>2 DEF grown
      <4>2. Len(Written) = (IF off + tot >= ip.size THEN off + tot ELSE ip.size)
            /\ ip.size \in Nat /\ off \in Nat /\ tot \in Nat
        BY <1>2, <1>7
      <4> HIDE DEF ino, c
      <4> QED BY <4>1, <4>2
    <3>3. ip = disk.inode /\ cache.inode = disk.inode
      <4>1. ip.addrs = disk.inode.addrs /\ ip = [disk.inode EXCEPT !.addrs = ip.addrs]
            /\ cache.inode = disk.inode
        BY <1>2, <3>2 DEF WriteInv
      <4> QED BY <4>1, <1>2 DEF INode
    <3>4. cache = Image(cache.bitmap, cache.content, ip)
      BY <1>2, <3>3 DEF Disk, Image
    <3> QED BY <1>2, <3>1, <3>2, <3>4
  <2> QED BY <2>1, <2>2
<1> HIDE DEF ino, c
<1>10. /\ c \in Disk /\ c.bitmap = cache.bitmap /\ c.content = cache.content /\ c.inode = ino
  BY <1>2, <1>9 DEF Image, Disk
<1>11. DiskInv'
  <2>1. disk'.inode.addrs = ip.addrs /\ disk'.content = cache.content
        /\ disk'.bitmap = cache.bitmap /\ disk'.inode.size = Len(Written)
        /\ disk'.inode.type = T_FILE
    BY <1>5, <1>9, <1>10
  <2>2. SoundMap(Addresses(disk.inode.addrs, disk.content), disk.bitmap)'
    BY <1>1, <1>2, <2>1 DEF WriteInv, SoundMap
  <2>3. Shows(Addresses(disk.inode.addrs, disk.content), disk.content, file)'
    BY <1>2, <1>6, <2>1 DEF WriteInv
  <2> QED BY <1>1, <1>2, <1>6, <1>7, <2>1, <2>2, <2>3 DEF DiskInv, T_FILE, T_FREE
<1>12. pc' \in {"open", "loop"} /\ i' \in Nat
  BY <1>2, <1>5
<1>13. Types'
  <2>1. IsFiniteSet({}) /\ Cardinality({}) = 0
    BY FS_EmptySet
  <2> QED BY <1>1, <1>2, <1>5, <1>9, <1>10, <1>12, <2>1, Sizes DEF Types
<1>14. OpenInv'
  <2>1. cache' = disk' /\ logged' = {} /\ ip' = disk'.inode /\ ip'.type = T_FILE
    BY <1>5, <1>9, <1>10
  <2>2. off' <= ip'.size
    BY <1>1, <1>2, <1>5, <1>7, <1>9
  <2>3. pc' = "loop" => addr' \in Seq(Nat) /\ i' < Len(addr')
    <3>1. Len(addr) \in Nat
      BY <1>2, LenProperties
    <3> QED BY <1>2, <1>5, <3>1
  <2> QED BY <1>12, <2>1, <2>2, <2>3 DEF OpenInv
<1> QED BY <1>11, <1>12, <1>13, <1>14 DEF InodeInv

----------------------------------------------------------------------------
(* Removal *)

\* The inode that a removal leaves.
FreeINode == [type |-> T_FREE, nlink |-> 0, size |-> 0, addrs |-> NoAddrs]

LEMMA CloseKeeps == InodeInv /\ file_close => InodeInv'
<1> SUFFICES ASSUME InodeInv, file_close PROVE InodeInv'
  OBVIOUS
<1>1. pc = "open" /\ ip' = NewINode /\ off' = 0 /\ UNCHANGED <<used, logged, addr, i, tot>>
  BY DEF file_close, opVars
<1>2. /\ ip = disk.inode /\ cache = disk /\ logged = {} /\ disk \in Disk /\ ip \in INode
      /\ DiskInv /\ used \subseteq Block /\ 0 \in used
  BY <1>1 DEF InodeInv, OpenInv, Types, DiskInv
<1> DEFINE c == IF ip.nlink = 0 THEN [inode_truncate(cache) EXCEPT !.inode.type = T_FREE]
                ELSE cache
           bad == ip.nlink = 0 /\ ~log_write(truncate_log, INodeBlock).ok
<1>3. \/ pc' = "wild" /\ UNCHANGED <<disk, cache, file>>
      \/ /\ pc' = "closed" /\ cache' = c /\ disk' = c
         /\ file' = IF ip.nlink = 0 THEN <<>> ELSE file
  BY DEF file_close
<1> HIDE DEF bad
<1>4. NewINode \in INode /\ FreeINode \in INode
  BY <1>2, NoBlocks, Sizes DEF NewINode, FreeINode, INode, T_FILE, T_FREE
<1>5. Types /\ 0 \in Nat
  BY DEF InodeInv
<1>6. CASE UNCHANGED <<disk, cache, file>> /\ pc' \in {"wild", "closed"}
  <2>1. DiskInv'
    BY <1>1, <1>2, <1>6, DiskKept
  <2>2. Types'
    BY <1>1, <1>4, <1>5, <1>6 DEF Types
  <2>3. OpenInv'
    BY <1>1, <1>2, <1>6 DEF OpenInv
  <2> QED BY <1>6, <2>1, <2>2, <2>3 DEF InodeInv
<1>7. CASE ip.nlink = 0 /\ pc' = "closed" /\ cache' = c /\ disk' = c
           /\ file' = IF ip.nlink = 0 THEN <<>> ELSE file
  <2> DEFINE a == Addresses(disk.inode.addrs, disk.content)
  <2>1. c = Image(disk.bitmap \ AllocatedTo(disk.inode.addrs, disk.content), disk.content, FreeINode)
    <3> DEFINE bm == disk.bitmap \ AllocatedTo(disk.inode.addrs, disk.content)
               ino1 == [ip EXCEPT !.size = 0, !.addrs = NoAddrs]
    <3>1. inode_truncate(cache) = [cache EXCEPT !.bitmap = bm, !.inode = ino1]
      BY <1>2 DEF inode_truncate
    <3> HIDE DEF bm
    <3>2. [ino1 EXCEPT !.type = T_FREE] = FreeINode
      <4>1. ip.nlink = 0 /\ ip \in INode
        BY <1>2, <1>7
      <4> HIDE DEF c
      <4>2. NoAddrs \in [0..NDIRECT -> Block] /\ 0 \in 0 .. (MAXFILE * BSIZE)
        BY <1>2, NoBlocks, Sizes
      <4> DEFINE ino2 == [ino1 EXCEPT !.type = T_FREE]
      <4>3. ino1 \in INode /\ ino1.nlink = 0 /\ ino1.size = 0 /\ ino1.addrs = NoAddrs
        BY <4>1, <4>2 DEF INode
      <4> HIDE DEF ino1
      <4>4. ino2 \in INode /\ ino2.type = T_FREE /\ ino2.nlink = 0 /\ ino2.size = 0
            /\ ino2.addrs = NoAddrs
        BY <4>3 DEF INode
      <4> HIDE DEF ino2
      <4>5. ino2 = FreeINode
        BY <4>4 DEF INode, FreeINode
      <4> QED BY <4>5 DEF ino2
    <3> HIDE DEF ino1
    <3>3. inode_truncate(cache) = Image(bm, disk.content, ino1)
      BY <1>2, <3>1 DEF Disk, Image
    <3>4. [Image(bm, disk.content, ino1) EXCEPT !.inode.type = T_FREE]
            = Image(bm, disk.content, [ino1 EXCEPT !.type = T_FREE])
      BY DEF Image
    <3>5. c = [inode_truncate(cache) EXCEPT !.inode.type = T_FREE]
      BY <1>7
    <3> HIDE DEF c
    <3> QED BY <3>2, <3>3, <3>4, <3>5 DEF bm
  <2>2. disk.bitmap \ AllocatedTo(disk.inode.addrs, disk.content) = used
    <3>1. SoundMap(a, disk.bitmap) /\ AllocatedTo(disk.inode.addrs, disk.content) = Range(a) \ {0}
      BY <1>2 DEF DiskInv, AllocatedTo
    <3> HIDE DEF a
    <3>2. (Range(a) \ {0}) \cap used = {}
      BY <3>1 DEF SoundMap, Range
    <3> QED BY <3>1, <3>2 DEF SoundMap
  <2> HIDE DEF c
  <2>3. c = Image(used, disk.content, FreeINode)
    BY <2>1, <2>2
  <2>4. /\ c \in Disk /\ c.bitmap = used /\ c.content = disk.content /\ c.inode = FreeINode
    BY <2>3, <1>2, <1>4 DEF Disk, Image
  <2>5. DiskInv'
    <3>1. /\ disk'.inode.addrs = NoAddrs /\ disk'.bitmap = used /\ disk'.inode.size = 0
          /\ disk'.inode.nlink = 0 /\ used' = used
      BY <1>1, <1>7, <2>4 DEF FreeINode
    <3>2. SoundMap(Addresses(disk'.inode.addrs, disk'.content), used)
      BY <3>1, <1>2, NoBlocks
    <3>3. SoundMap(Addresses(disk.inode.addrs, disk.content), disk.bitmap)'
      BY <3>1, <3>2 DEF SoundMap
    <3>4. file' \in Seq(Nat) /\ Len(file') = 0
      BY <1>7
    <3> QED BY <1>2, <3>1, <3>3, <3>4 DEF DiskInv, Shows
  <2>6. Types'
    BY <1>1, <1>4, <1>5, <1>7, <2>4 DEF Types
  <2>7. OpenInv' /\ pc' # "write"
    BY <1>1, <1>2, <1>7 DEF OpenInv
  <2> QED BY <2>5, <2>6, <2>7 DEF InodeInv
<1>8. CASE ip.nlink # 0 /\ pc' = "closed" /\ cache' = c /\ disk' = c
           /\ file' = IF ip.nlink = 0 THEN <<>> ELSE file
  <2>1. UNCHANGED <<disk, cache, file>>
    BY <1>2, <1>8
  <2> QED BY <1>6, <1>8, <2>1
<1> HIDE DEF c
<1> QED BY <1>3, <1>6, <1>7, <1>8

\* A removal fits the log: its blocks of the bitmap are not more than the blocks of
\* the file, and not more than the bitmap has.
LEMMA RemovalLog ==
    ASSUME RemovalFits, NEW a \in [0..MAXFILE -> Block], NEW S, S = Range(a) \ {0}
    PROVE  /\ Cardinality({BBLOCK(x) : x \in S} \cup {INodeBlock}) \in Nat
           /\ Cardinality({BBLOCK(x) : x \in S} \cup {INodeBlock}) <= LOGSIZE
<1> DEFINE B == {BBLOCK(x) : x \in S}
           m == (NBLOCK - 1) \div BPB
<1>1. \A x \in S : x \in Block /\ \E k \in 0..MAXFILE : x = a[k]
  BY DEF Range
<1>2. CASE MAXFILE + 2 <= LOGSIZE
  <2> DEFINE f == [k \in 0..MAXFILE |-> BBLOCK(a[k])]
             T == {BBLOCK(a[k]) : k \in 0..MAXFILE}
  <2>1. f \in Surjection(0..MAXFILE, T)
    BY DEF Surjection
  <2>2. IsFiniteSet(0..MAXFILE) /\ Cardinality(0..MAXFILE) = MAXFILE + 1
    <3>1. 0 \in Int /\ MAXFILE \in Int /\ MAXFILE \in Nat
      BY Sizes
    <3> QED BY <3>1, FS_Interval
  <2>3. B \subseteq T
    BY <1>1
  <2> HIDE DEF f, T, B
  <2>4. IsFiniteSet(T) /\ Cardinality(T) <= MAXFILE + 1
    BY <2>1, <2>2, FS_Surjection
  <2>5. IsFiniteSet(B) /\ Cardinality(B) <= Cardinality(T)
    BY <2>3, <2>4, FS_Subset
  <2>6. Cardinality(B \cup {INodeBlock}) \in Nat /\ Cardinality(B) \in Nat
        /\ Cardinality(B \cup {INodeBlock}) <= Cardinality(B) + 1
    BY <2>5, AddOne
  <2>7. Cardinality(T) \in Nat
    BY <2>4, FS_CardinalityType
  <2>8. Cardinality(B \cup {INodeBlock}) \in Nat /\ Cardinality(B \cup {INodeBlock}) <= LOGSIZE
    BY <2>4, <2>5, <2>6, <2>7, <1>2, Sizes
  <2> QED BY <2>8 DEF B
<1>3. CASE m + 2 <= LOGSIZE
  <2> DEFINE f == [q \in 0..m |-> <<"bitmap", q>>]
             T == {<<"bitmap", q>> : q \in 0..m}
  <2>1. \A x \in Block : x \div BPB \in 0..m /\ m \in Nat
    <3> SUFFICES ASSUME NEW x \in Block PROVE x \div BPB \in 0..m /\ m \in Nat
      OBVIOUS
    <3>1. x \in Nat /\ NBLOCK - 1 \in Nat /\ x <= NBLOCK - 1
      BY Sizes DEF Block
    <3> DEFINE y == NBLOCK - 1
               q == x \div BPB
               r == x % BPB
               s == y % BPB
    <3>2. q \in Nat /\ r \in 0 .. (BPB - 1) /\ x = BPB * q + r
      BY <3>1, Sizes, DivisionBy
    <3>3. m \in Nat /\ s \in 0 .. (BPB - 1) /\ y = BPB * m + s
      <4> HIDE DEF y
      <4>1. y \div BPB \in Nat /\ s \in 0 .. (BPB - 1) /\ y = BPB * (y \div BPB) + s
        BY <3>1, Sizes, DivisionBy DEF y
      <4> QED BY <4>1 DEF y
    <3> HIDE DEF q, r, s, m, y
    <3>4. ~(m < q)
      <4> SUFFICES ASSUME m < q PROVE FALSE
        OBVIOUS
      <4>1. BPB * (m + 1) <= BPB * q /\ BPB * (m + 1) = BPB * m + BPB
        BY <3>2, <3>3, Sizes
      <4> DEFINE u == BPB * m
                 v == BPB * q
      <4>2. u \in Nat /\ v \in Nat
        BY <3>2, <3>3, Sizes
      <4> HIDE DEF u, v
      <4>3. u + BPB <= v /\ x = v + r /\ y = u + s /\ x <= y /\ x \in Nat /\ y \in Nat
        BY <4>1, <3>1, <3>2, <3>3 DEF u, v, y
      <4> QED BY <4>2, <4>3, <3>2, <3>3, Sizes
    <3> QED BY <3>2, <3>3, <3>4 DEF q
  <2> HIDE DEF m
  <2>2. f \in Surjection(0..m, T)
    BY DEF Surjection
  <2>3. B \subseteq T
    BY <1>1, <2>1 DEF BBLOCK
  <2>4. CASE S = {}
    <3>1. B \cup {INodeBlock} = {INodeBlock}
      BY <2>4
    <3>2. Cardinality({INodeBlock}) = 1
      BY FS_Singleton
    <3> HIDE DEF B, f, T
    <3>0. Cardinality(B \cup {INodeBlock}) = 1
      BY <3>1, <3>2
    <3>3. Cardinality(B \cup {INodeBlock}) \in Nat /\ Cardinality(B \cup {INodeBlock}) <= LOGSIZE
      BY <3>0, Sizes
    <3> QED BY <3>3 DEF B
  <2>5. CASE S # {}
    <3>1. m \in Nat
      BY <1>1, <2>1, <2>5
    <3>2. IsFiniteSet(0..m) /\ Cardinality(0..m) = m + 1
      BY <3>1, FS_Interval
    <3> HIDE DEF f, T, B
    <3>3. IsFiniteSet(T) /\ Cardinality(T) <= m + 1
      BY <2>2, <3>2, FS_Surjection
    <3>4. IsFiniteSet(B) /\ Cardinality(B) <= Cardinality(T)
      BY <2>3, <3>3, FS_Subset
    <3>5. Cardinality(B \cup {INodeBlock}) \in Nat /\ Cardinality(B) \in Nat
          /\ Cardinality(B \cup {INodeBlock}) <= Cardinality(B) + 1
      BY <3>4, AddOne
    <3>6. Cardinality(T) \in Nat
      BY <3>3, FS_CardinalityType
    <3>7. Cardinality(B \cup {INodeBlock}) \in Nat /\ Cardinality(B \cup {INodeBlock}) <= LOGSIZE
      BY <3>1, <3>3, <3>4, <3>5, <3>6, <1>3, Sizes
    <3> QED BY <3>7 DEF B
  <2> QED BY <2>4, <2>5
<1> QED BY <1>2, <1>3 DEF RemovalFits

LEMMA CloseFits ==
    ASSUME RemovalFits, AreaFits, InodeInv, file_close
    PROVE  pc' # "wild"
<1>1. pc = "open"
  BY DEF file_close
<1>2. ip = disk.inode /\ cache = disk /\ logged = {}
  BY <1>1 DEF InodeInv, OpenInv
<1> DEFINE a == Addresses(ip.addrs, cache.content)
           S == AllocatedTo(ip.addrs, cache.content)
<1>3. SoundMap(a, cache.bitmap)
  BY <1>2 DEF InodeInv, DiskInv
<1>4. S = Range(a) \ {0} /\ a \in [0..MAXFILE -> Block]
  BY <1>3 DEF AllocatedTo, SoundMap
<1>5. log_write(truncate_log, INodeBlock).ok
  <2> HIDE DEF a, S
  <2> DEFINE L == {BBLOCK(x) : x \in S} \cup {INodeBlock}
  <2>1. Cardinality(L) \in Nat /\ Cardinality(L) <= LOGSIZE
    BY <1>4, RemovalLog
  <2>2. logged \cup truncate_log \cup {INodeBlock} = L
    BY <1>2 DEF truncate_log, S
  <2> HIDE DEF L
  <2>3. Cardinality(L) <= nlog - 1
    BY <2>1, InodeAssumption DEF AreaFits
  <2> QED BY <2>1, <2>2, <2>3 DEF log_write
<1> QED BY <1>5 DEF file_close

----------------------------------------------------------------------------
(* Theorems *)

LEMMA InodeNext == InodeInv /\ [Next]_vars => InodeInv'
<1> SUFFICES ASSUME InodeInv, [Next]_vars PROVE InodeInv'
  OBVIOUS
<1>1. CASE create
  BY <1>1, CreateKeeps
<1>2. CASE open
  BY <1>2, OpenKeeps
<1>3. CASE unlink
  BY <1>3, UnlinkKeeps
<1>4. CASE \E n \in 1 .. (MAXFILE * BSIZE) : file_read(n)
  BY <1>4, ReadKeeps
<1>5. CASE \E buf \in Buffers : file_write(buf)
  BY <1>5, WriteKeeps
<1>6. CASE write_begin
  BY <1>6, BeginKeeps
<1>7. CASE write_inode
  BY <1>7, WriteInodeKeeps
<1>8. CASE write_end
  BY <1>8, EndKeeps
<1>9. CASE file_close
  BY <1>9, CloseKeeps
<1>10. CASE crash
  BY <1>10, CrashKeeps
<1>11. CASE UNCHANGED vars
  BY <1>11 DEF vars, InodeInv, Types, DiskInv, OpenInv, WriteInv, SoundMap, Written,
               IndirectLog, BBLOCK, DataBlock, n1
<1> QED BY <1>1, <1>2, <1>3, <1>4, <1>5, <1>6, <1>7, <1>8, <1>9, <1>10, <1>11
    DEF Next, ended

LEMMA InodeInvariant == Spec => []InodeInv
BY InodeInit, InodeNext, PTL DEF Spec

\* The words of f from o on, at most n of them.
WordsFrom(f, o, n, r) ==
    \E m \in Nat : /\ m = IF n <= Len(f) - o THEN n ELSE Len(f) - o
                   /\ r = [k \in 1..m |-> f[o + k]]

\* What read_inode() returns of a file whose words the disk shows.
LEMMA ReadIs ==
    ASSUME NEW ino, NEW content, NEW f \in Seq(Nat), Len(f) = ino.size,
           Shows(Addresses(ino.addrs, content), content, f),
           NEW o \in 0 .. ino.size, NEW n \in Nat
    PROVE  WordsFrom(f, o, n, read_inode(ino, content, o, n))
<1>1. ino.size \in Nat /\ o \in Nat
  BY LenProperties
<1> DEFINE e == ino.size - o
           m == IF n <= e THEN n ELSE e
<1>2. e \in Nat
  BY <1>1
<1>3. Min({n, ino.size - o}) = m
  <2> HIDE DEF e
  <2>1. Min({n, e}) = m
    BY <1>2, MinTwo
  <2> QED BY <2>1 DEF e
<1>4. m \in Nat /\ o + m <= ino.size
  BY <1>1, <1>2
<1> HIDE DEF m, e
<1>5. \A k \in 1..m : content[AddressOf(ino, content, o + k - 1)][(o + k - 1) % BSIZE] = f[o + k]
  <2> SUFFICES ASSUME NEW k \in 1..m
               PROVE  content[AddressOf(ino, content, o + k - 1)][(o + k - 1) % BSIZE] = f[o + k]
    OBVIOUS
  <2> DEFINE x == o + k - 1
  <2>1. x \in 0 .. (Len(f) - 1) /\ x + 1 = o + k
    BY <1>1, <1>4
  <2> HIDE DEF x
  <2>2. content[AddressOf(ino, content, x)][x % BSIZE] = f[x + 1]
    BY <2>1 DEF Shows, AddressOf
  <2> QED BY <2>1, <2>2 DEF x
<1>6. read_inode(ino, content, o, n) = [k \in 1..m |-> f[o + k]]
  BY <1>3, <1>5 DEF read_inode
<1> QED BY <1>4, <1>6 DEF m, e, WordsFrom

\* Whenever the machine stops, the bitmap on the disk has exactly the blocks of
\* others and those of the file, and each of those once (get_nthdiskBlock_for_inode(),
\* block_alloc(), inode_truncate()).
THEOREM DiskStaysConsistent == Spec => []DiskConsistent
<1>1. InodeInv => DiskConsistent
  <2> SUFFICES ASSUME InodeInv PROVE DiskConsistent
    OBVIOUS
  <2> DEFINE a == Addresses(disk.inode.addrs, disk.content)
             mine == AllocatedTo(disk.inode.addrs, disk.content)
  <2>1. disk.inode \in INode /\ disk.inode.size <= MAXFILE * BSIZE
    BY Sizes DEF InodeInv, Types, Disk, INode
  <2>2. TypeOK
    BY <2>1 DEF InodeInv, Types, Disk, Content, DiskInv, TypeOK
  <2>3. SoundMap(a, disk.bitmap) /\ mine = Range(a) \ {0} /\ 0 \in Block
    BY DEF InodeInv, DiskInv, AllocatedTo
  <2>4. disk.inode.type = T_FREE => mine = {}
    <3> SUFFICES ASSUME disk.inode.type = T_FREE PROVE mine = {}
      OBVIOUS
    <3>1. a = [k \in 0..MAXFILE |-> 0]
      <4>1. disk.inode.addrs = NoAddrs
        BY DEF InodeInv, DiskInv
      <4> QED BY <2>3, <4>1, NoBlocks
    <3> QED BY <2>3, <3>1 DEF Range
  <2> HIDE DEF a, mine
  <2>5. /\ DOMAIN a = 0..MAXFILE
        /\ \A j, k \in 0..MAXFILE : a[j] = a[k] /\ a[j] # 0 => j = k
        /\ mine \cap used = {} /\ disk.bitmap = used \cup mine
    <3>1. a \in [0..MAXFILE -> Block]
      BY <2>3 DEF SoundMap
    <3>2. mine \cap used = {}
      BY <2>3, <3>1 DEF SoundMap, Range
    <3> QED BY <2>3, <3>1, <3>2 DEF SoundMap
  <2> QED BY <2>2, <2>4, <2>5 DEF DiskConsistent, a, mine
<1> QED BY <1>1, InodeInvariant, PTL

\* Whenever the machine stops, the disk holds the file as the transactions of
\* file_write() that committed wrote it, word for word.
THEOREM DiskIsTheFile == Spec => []DiskHoldsFile
<1>1. InodeInv => DiskHoldsFile
  <2> SUFFICES ASSUME InodeInv PROVE DiskHoldsFile
    OBVIOUS
  <2> DEFINE ino == disk.inode
             N == MAXFILE * BSIZE
  <2>1. /\ file \in Seq(Nat) /\ Len(file) = ino.size
        /\ Shows(Addresses(ino.addrs, disk.content), disk.content, file)
    BY DEF InodeInv, DiskInv
  <2>2. ino.size \in Nat /\ ino.size <= N /\ N \in Nat
    BY Sizes DEF InodeInv, Types, Disk, INode
  <2> HIDE DEF ino, N
  <2>3. 0 \in 0 .. ino.size
    BY <2>2
  <2>0. WordsFrom(file, 0, N, read_inode(ino, disk.content, 0, N))
    BY <2>1, <2>2, <2>3, ReadIs
  <2>4. PICK m \in Nat : /\ m = IF N <= Len(file) - 0 THEN N ELSE Len(file) - 0
                         /\ read_inode(ino, disk.content, 0, N) = [k \in 1..m |-> file[0 + k]]
    BY <2>0 DEF WordsFrom
  <2>5. m = Len(file)
    BY <2>1, <2>2, <2>4
  <2>6. file \in [1 .. Len(file) -> Nat]
    BY <2>1, LenProperties
  <2>7. [k \in 1..m |-> file[0 + k]] = file
    <3>1. \A k \in 1..m : 0 + k = k
      OBVIOUS
    <3>2. [k \in 1..m |-> file[0 + k]] = [k \in 1..m |-> file[k]]
      BY <3>1
    <3> QED BY <3>2, <2>5, <2>6
  <2>8. read_inode(ino, disk.content, 0, N) = file
    BY <2>4, <2>7
  <2> QED BY <2>8 DEF DiskHoldsFile, ino, N
<1> QED BY <1>1, InodeInvariant, PTL

\* A write leaves no hole, and between transactions read_inode() returns what was
\* written last, from every offset and for every length.
THEOREM ReadsFindWrites == Spec => []ReadsBack
<1>1. InodeInv => ReadsBack
  <2> SUFFICES ASSUME InodeInv PROVE ReadsBack
    OBVIOUS
  <2>1. pc \in {"open", "loop", "write"} => off <= ip.size
    BY DEF InodeInv, OpenInv
  <2>2. ASSUME pc \in {"open", "loop"}, NEW o \in 0 .. ip.size, NEW n \in 0 .. (MAXFILE * BSIZE)
        PROVE  read_inode(ip, cache.content, o, n)
                   = SubSeq(file, o + 1, Min({o + n, Len(file)}))
    <3>1. ip = disk.inode /\ cache = disk
      BY <2>2 DEF InodeInv, OpenInv
    <3>2. /\ file \in Seq(Nat) /\ Len(file) = ip.size
          /\ Shows(Addresses(ip.addrs, cache.content), cache.content, file)
      BY <3>1 DEF InodeInv, DiskInv
    <3>3. ip.size \in Nat /\ n \in Nat /\ o \in Nat /\ o <= ip.size
      BY Sizes, <3>2, LenProperties
    <3>0. WordsFrom(file, o, n, read_inode(ip, cache.content, o, n))
      BY <3>2, <3>3, ReadIs
    <3>4. PICK m \in Nat :
             /\ m = IF n <= Len(file) - o THEN n ELSE Len(file) - o
             /\ read_inode(ip, cache.content, o, n) = [k \in 1..m |-> file[o + k]]
      BY <3>0 DEF WordsFrom
    <3>5. o + m <= Len(file)
      BY <3>2, <3>3, <3>4
    <3>6. Min({o + n, Len(file)}) = o + m
      <4> DEFINE u == o + n
                 v == Len(file)
      <4>1. u \in Int /\ v \in Int /\ v = ip.size
        BY <3>2, <3>3
      <4> HIDE DEF u, v
      <4>2. Min({u, v}) = IF u <= v THEN u ELSE v
        BY <4>1, MinTwo
      <4>3. (IF u <= v THEN u ELSE v) = o + m
        <5>1. m = (IF n <= v - o THEN n ELSE v - o) /\ u = o + n
          BY <3>4 DEF u, v
        <5> QED BY <5>1, <4>1, <3>3
      <4> QED BY <4>2, <4>3 DEF u, v
    <3> DEFINE sub == SubSeq(file, o + 1, o + m)
    <3>7. sub \in Seq(Nat) /\ Len(sub) = m /\ \A k \in 1..m : sub[k] = file[o + k]
      BY <3>2, <3>3, <3>5, SubSeqIs
    <3> HIDE DEF sub
    <3>8. sub \in [1..m -> Nat]
      BY <3>7, LenProperties
    <3>9. sub = [k \in 1..m |-> file[o + k]]
      BY <3>7, <3>8
    <3> QED BY <3>4, <3>6, <3>9 DEF sub
  <2> QED BY <2>1, <2>2 DEF ReadsBack
<1> QED BY <1>1, InodeInvariant, PTL

\* If the log area has a block for each of the LOGSIZE entries, and a removal fits the
\* log (it does on a disk of up to 36864 blocks, with the sizes of the code),
\* file_write() and the last close never make log_write() leave the header or the log
\* area, whatever the offset, the length and the blocks that are allocated; and no
\* read meets a hole.
THEOREM TransactionsFit ==
    ASSUME RemovalFits, AreaFits
    PROVE  Spec => []NoOverrun
<1>1. Init => NoOverrun
  BY DEF Init, NoOverrun
<1>2. InodeInv /\ NoOverrun /\ [Next]_vars => NoOverrun'
  <2> SUFFICES ASSUME InodeInv, pc # "wild", [Next]_vars PROVE pc' # "wild"
    BY DEF NoOverrun
  <2>1. CASE create
    BY <2>1 DEF create
  <2>2. CASE open
    BY <2>2 DEF open
  <2>3. CASE unlink
    BY <2>3 DEF unlink
  <2>4. CASE \E n \in 1 .. (MAXFILE * BSIZE) : file_read(n)
    BY <2>4, ReadKeeps
  <2>5. CASE \E buf \in Buffers : file_write(buf)
    BY <2>5 DEF file_write
  <2>6. CASE write_begin
    BY <2>6 DEF write_begin
  <2>7. CASE write_inode
    BY <2>7, WriteInodeKeeps
  <2>8. CASE write_end
    BY <2>8, EndKeeps
  <2>9. CASE file_close
    BY <2>9, CloseFits
  <2>10. CASE crash
    BY <2>10 DEF crash
  <2>11. CASE UNCHANGED vars
    BY <2>11 DEF vars
  <2> QED
    BY <2>1, <2>2, <2>3, <2>4, <2>5, <2>6, <2>7, <2>8, <2>9, <2>10, <2>11
    DEF Next, ended
<1> QED BY <1>1, <1>2, InodeInvariant, PTL DEF Spec
=============================================================================
