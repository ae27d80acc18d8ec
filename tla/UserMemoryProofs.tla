------------------------- MODULE UserMemoryProofs -------------------------
(***************************************************************************)
(* Proofs about the plugin loader, for every size of a page and of a table,*)
(* every set of free frames, every number of plugins and every set of      *)
(* program files whose segments fit: the plugins' address spaces share no  *)
(* frame, loading never maps a page twice nor writes to one without a      *)
(* frame, and each plugin runs the file that is meant for it.              *)
(***************************************************************************)
EXTENDS UserMemory, SequenceTheorems, WellFoundedInduction, TLAPS

\* Exactly the first n pages of the plugin are mapped.
Mapped(p, n) == \A pg \in 0 .. (Pages - 1) : pte[p][pg] # 0 <=> pg < n

\* The address space of plugin i is being filled.
Filling == phase \in {"alloc_uvm", "map_pages", "copy_uvm"}

\* The address space is as large as its size says, in whole pages, and while it
\* grows as far as alloc_uvm() has come; later plugins have none.  The size covers
\* the segment that is copied, and after the last one it includes the stack.
PageInv ==
    /\ phase = "buffer" => i = 1
    /\ \A p \in Plugin : p > i => Mapped(p, 0)
    /\ phase \in {"buffer", "alloc_proc", "read_seg", "table"} => Mapped(i, 0)
    /\ phase \in {"alloc_uvm", "copy_uvm"} => Mapped(i, PagesOf(size))
    /\ phase = "map_pages" => Mapped(i, va) /\ va <= PagesOf(size)
    /\ Filling => /\ program[i] \in DOMAIN files
                  /\ seg \in 0 .. Len(segs)
                  /\ PGSIZE <= size
    /\ Filling /\ (phase = "alloc_uvm" \/ seg < Len(segs)) => size <= (Pages - 2) * PGSIZE
    /\ phase \in {"map_pages", "copy_uvm"} =>
           IF seg < Len(segs) THEN segs[seg + 1].vaddr + segs[seg + 1].memsz <= size
           ELSE \E n \in 3 .. Pages : size = n * PGSIZE

\* The frames alloc_uvm() has taken and not yet mapped.
Reserved == IF phase = "map_pages" THEN mem .. (mem + (PagesOf(size) - va) - 1) ELSE {}

\* Those frames are nobody else's.
ReservedInv ==
    /\ Reserved \subseteq Frames
    /\ Reserved \cap (free \cup kernel) = {}
    /\ \A p \in Plugin, pg \in 0 .. (Pages - 1) : pte[p][pg] \notin Reserved

MemoryInv == FramesExclusive /\ LoaderNeverFaults /\ IpcBufferMapped /\ PageInv /\ ReservedInv

\* The number of files on the disk and where they start.
NFiles == 2 * Len(files)
Start == first_sector(files, NFiles)

\* The search stands at the header of the plugin that comes next.
ScanInv ==
    /\ disk = movePlugin(files)
    /\ phase \in {"buffer", "alloc_proc", "read_seg"} =>
           /\ i - 1 <= NFiles
           /\ i - 1 = NFiles => NFiles = 0
           /\ pluginSector = Start[i - 1]
    /\ phase = "table" \/ Filling =>
           /\ i < NFiles
           /\ pluginSector = Start[i]
           /\ program[i] = ((i - 1) % Len(files)) + 1
    /\ OwnProgram /\ ScanStops

----------------------------------------------------------------------------
(* Pages and bytes *)

\* The sizes, without the program files.
LEMMA Sizes ==
    /\ PGSIZE \in Nat \ {0} /\ NPTE \in Nat \ {0} /\ LEVELS \in Nat
    /\ BUFFER \in Nat /\ BUFPAGES \in Nat /\ IPCPage = 2
    /\ Frames \subseteq Nat \ {0}
    /\ pluginNum \in Nat \ {0}
    /\ Pages \in Nat /\ Pages > 2
BY UserMemoryAssumption

LEMMA Division ==
    ASSUME NEW a \in Nat, NEW n \in Nat \ {0}
    PROVE  /\ a \div n \in Nat
           /\ n * (a \div n) <= a
           /\ a < n * (a \div n) + n
OBVIOUS

\* Multiplication by the size of a page keeps the order.
LEMMA TimesPage ==
    ASSUME NEW a \in Int, NEW b \in Int
    PROVE  /\ a < b <=> a * PGSIZE < b * PGSIZE
           /\ a <= b <=> a * PGSIZE <= b * PGSIZE
           /\ a * PGSIZE \in Int
           /\ (a + b) * PGSIZE = a * PGSIZE + b * PGSIZE
           /\ (a + 1) * PGSIZE = a * PGSIZE + PGSIZE
BY Sizes

LEMMA PagesBound ==
    ASSUME NEW b \in Nat
    PROVE  /\ PagesOf(b) \in Nat
           /\ b <= PagesOf(b) * PGSIZE
           /\ PagesOf(b) * PGSIZE < b + PGSIZE
<1>1. PGSIZE \in Nat \ {0} /\ b + PGSIZE - 1 \in Nat
  BY Sizes
<1>2. /\ PagesOf(b) \in Nat
      /\ PGSIZE * PagesOf(b) <= b + PGSIZE - 1
      /\ b + PGSIZE - 1 < PGSIZE * PagesOf(b) + PGSIZE
  BY <1>1, Division DEF PagesOf
<1>3. PGSIZE * PagesOf(b) = PagesOf(b) * PGSIZE /\ PGSIZE * PagesOf(b) \in Nat
  BY <1>1, <1>2
<1> QED BY <1>1, <1>2, <1>3

\* A page starts below an address exactly when it is among the first pages.
LEMMA PageBelow ==
    ASSUME NEW b \in Nat, NEW pg \in Nat
    PROVE  pg * PGSIZE < b <=> pg < PagesOf(b)
<1>1. PGSIZE \in Nat \ {0}
  BY Sizes
<1>2. /\ PagesOf(b) \in Nat
      /\ b <= PagesOf(b) * PGSIZE
      /\ PagesOf(b) * PGSIZE < b + PGSIZE
  BY PagesBound
<1> DEFINE P == PagesOf(b)
<1> HIDE DEF P
<1>3. P \in Nat /\ b <= P * PGSIZE /\ P * PGSIZE < b + PGSIZE
  BY <1>2 DEF P
<1>4. /\ P * PGSIZE \in Int /\ pg * PGSIZE \in Int
      /\ (pg + 1) * PGSIZE = pg * PGSIZE + PGSIZE
  <2>1. pg \in Int /\ P \in Int
    BY <1>3
  <2>2. (pg + 1) * PGSIZE = pg * PGSIZE + PGSIZE
    BY <2>1, TimesPage
  <2>3. P * PGSIZE \in Int /\ pg * PGSIZE \in Int
    BY <2>1, TimesPage
  <2> QED BY <2>2, <2>3
<1>6. pg < P <=> pg * PGSIZE < P * PGSIZE
  <2>1. pg \in Int /\ P \in Int
    BY <1>3
  <2> QED BY <2>1, TimesPage
<1>5. pg + 1 <= P => (pg + 1) * PGSIZE <= P * PGSIZE
  <2>1. pg + 1 \in Int /\ P \in Int
    BY <1>3
  <2> DEFINE q == pg + 1
  <2> HIDE DEF q
  <2>2. q <= P => q * PGSIZE <= P * PGSIZE
    BY <2>1, TimesPage DEF q
  <2> QED BY <2>2 DEF q
<1>7. pg < P => pg * PGSIZE < b
  BY <1>1, <1>3, <1>4, <1>5
<1>8. pg * PGSIZE < b => pg < P
  BY <1>1, <1>3, <1>4, <1>6
<1> QED BY <1>7, <1>8 DEF P

LEMMA PagesOfWhole ==
    ASSUME NEW n \in Nat
    PROVE  n * PGSIZE \in Nat /\ PagesOf(n * PGSIZE) = n
<1>1. n * PGSIZE \in Nat
  BY Sizes
<1> DEFINE z == PagesOf(n * PGSIZE)
<1>2. z \in Nat /\ n * PGSIZE <= z * PGSIZE /\ z * PGSIZE < n * PGSIZE + PGSIZE
  BY <1>1, PagesBound
<1> HIDE DEF z
<1>3. n <= z
  BY <1>2, TimesPage
<1>4. z * PGSIZE < (n + 1) * PGSIZE
  BY <1>2, TimesPage
<1>5. z < n + 1
  BY <1>2, <1>4, TimesPage
<1> QED BY <1>1, <1>2, <1>3, <1>5 DEF z

LEMMA PagesMonotone ==
    ASSUME NEW a \in Nat, NEW b \in Nat, a <= b
    PROVE  PagesOf(a) <= PagesOf(b)
<1>1. ASSUME NEW pg \in Nat, pg < PagesOf(a) PROVE pg < PagesOf(b)
  <2>1. pg * PGSIZE < a /\ pg * PGSIZE \in Int
    BY <1>1, PageBelow, Sizes
  <2> HIDE DEF PagesOf
  <2>2. pg * PGSIZE < b
    BY <2>1
  <2> QED BY <2>2, PageBelow
<1> QED BY <1>1, PagesBound

\* alloc_uvm() asks for at least as many frames as it maps pages.
LEMMA EnoughFrames ==
    ASSUME NEW a \in Nat, NEW b \in Nat, a <= b
    PROVE  /\ b - a \in Nat
           /\ PagesOf(b) <= PagesOf(a) + PagesOf(b - a)
<1> DEFINE x == PagesOf(a)
           y == PagesOf(b - a)
           z == PagesOf(b)
<1>1. b - a \in Nat
  OBVIOUS
<1>2. /\ x \in Nat /\ y \in Nat /\ z \in Nat
      /\ a <= x * PGSIZE /\ b - a <= y * PGSIZE
  BY <1>1, PagesBound
<1> HIDE DEF x, y, z
<1>3. /\ (x + y) * PGSIZE = x * PGSIZE + y * PGSIZE
      /\ x * PGSIZE \in Int /\ y * PGSIZE \in Int
  BY <1>2, TimesPage
<1>4. b <= (x + y) * PGSIZE
  BY <1>2, <1>3
<1>5. ~((x + y) * PGSIZE < b)
  BY <1>2, <1>3, <1>4
<1>6. ~(x + y < z)
  <2>1. x + y \in Nat
    BY <1>2
  <2> QED BY <1>5, <2>1, PageBelow DEF z
<1> QED BY <1>1, <1>2, <1>6 DEF x, y, z
----------------------------------------------------------------------------
(* The disk *)

\* A set with 0 in it that is closed under successor has all natural numbers: the
\* smallest one that it lacks would have a predecessor in it.
LEMMA Induction ==
    ASSUME NEW S, 0 \in S, \A n \in Nat : n \in S => n + 1 \in S
    PROVE  \A n \in Nat : n \in S
<1> SUFFICES ASSUME Nat \ S # {} PROVE FALSE
  OBVIOUS
<1> DEFINE R == OpToRel(<, Nat)
           T == Nat \ S
<1>1. IsWellFoundedOn(R, Nat)
  BY NatLessThanWellFounded
<1>2. \A x, y \in Nat : <<x, y>> \in R <=> x < y
  BY DEF OpToRel
<1>3. T \subseteq Nat /\ T # {}
  OBVIOUS
<1> HIDE DEF R, T
<1>4. PICK x \in T : \A y \in T : ~(<<y, x>> \in R)
  BY <1>1, <1>3, WFMin
<1>5. x \in Nat /\ x \notin S /\ \A y \in Nat : y < x => y \in S
  BY <1>2, <1>4 DEF T
<1>6. x # 0 /\ x - 1 \in Nat /\ x - 1 < x /\ (x - 1) + 1 = x
  BY <1>5
<1> QED BY <1>5, <1>6

\* Partial sums exist, so that the recursion in first_sector() defines them.
LEMMA SumsExist ==
    ASSUME NEW n \in Nat, NEW D \in [1..n -> Nat \ {0}]
    PROVE  \E g \in [0..n -> Nat] : g[0] = 1 /\ \A k \in 1..n : g[k] = g[k - 1] + D[k]
<1> DEFINE P(m) == m <= n => \E g \in [0..m -> Nat] :
                                 g[0] = 1 /\ \A k \in 1..m : g[k] = g[k - 1] + D[k]
           S == {m \in Nat : P(m)}
<1>1. P(0)
  <2>1. [k \in 0..0 |-> 1] \in [0..0 -> Nat] /\ [k \in 0..0 |-> 1][0] = 1
    OBVIOUS
  <2>2. 1..0 = {}
    OBVIOUS
  <2> QED BY <2>1, <2>2
<1>2. ASSUME NEW m \in Nat, P(m) PROVE P(m + 1)
  <2> SUFFICES ASSUME m + 1 <= n
               PROVE  \E g \in [0..(m + 1) -> Nat] :
                          g[0] = 1 /\ \A k \in 1..(m + 1) : g[k] = g[k - 1] + D[k]
    OBVIOUS
  <2>0. m <= n
    OBVIOUS
  <2>1. PICK g \in [0..m -> Nat] : g[0] = 1 /\ \A k \in 1..m : g[k] = g[k - 1] + D[k]
    BY <1>2, <2>0
  <2> DEFINE h == [k \in 0..(m + 1) |-> IF k <= m THEN g[k] ELSE g[m] + D[m + 1]]
  <2>2. D[m + 1] \in Nat
    OBVIOUS
  <2>3. h \in [0..(m + 1) -> Nat]
    BY <2>1, <2>2
  <2>4. h[0] = 1
    BY <2>1
  <2>5. ASSUME NEW k \in 1..(m + 1) PROVE h[k] = h[k - 1] + D[k]
    <3>1. CASE k <= m
      BY <2>1, <3>1
    <3>2. CASE k = m + 1
      BY <2>1, <3>2
    <3> QED BY <3>1, <3>2
  <2> HIDE DEF h
  <2> QED BY <2>3, <2>4, <2>5
<1> HIDE DEF P
<1>3. \A m \in Nat : m \in S
  <2>1. 0 \in S /\ \A m \in Nat : m \in S => m + 1 \in S
    BY <1>1, <1>2
  <2> HIDE DEF S
  <2> QED BY <2>1, Induction
<1>4. P(n)
  BY <1>3
<1> QED BY <1>4 DEF P

\* Files are sequences of at least one sector, with segments that fit.
LEMMA BuildFacts ==
    ASSUME NEW fs \in Builds, NEW f \in DOMAIN fs
    PROVE  /\ Len(fs) \in Nat /\ DOMAIN fs = 1..Len(fs)
           /\ fs[f].sectors \in Nat \ {0}
           /\ fs[f].segs \in Seq([vaddr : Nat, memsz : Nat])
           /\ \A k \in 1..Len(fs[f].segs) :
                  /\ fs[f].segs[k].vaddr \in Nat /\ fs[f].segs[k].memsz \in Nat
                  /\ fs[f].segs[k].vaddr + fs[f].segs[k].memsz <= (Pages - 2) * PGSIZE
<1> DEFINE Segs == Seq([vaddr : Nat, memsz : Nat])
           File == [sectors : Nat \ {0}, segs : Segs]
<1>1. fs \in Seq(File)
  BY UserMemoryAssumption
<1>2. Len(fs) \in Nat /\ DOMAIN fs = 1..Len(fs)
  <2> HIDE DEF File
  <2> QED BY <1>1
<1>3. fs[f] \in File
  <2> HIDE DEF File
  <2> QED BY <1>1, <1>2, ElementOfSeq
<1>4. fs[f].sectors \in Nat \ {0} /\ fs[f].segs \in Segs
  <2> HIDE DEF Segs
  <2> QED BY <1>3
<1>5. DOMAIN fs[f].segs = 1..Len(fs[f].segs)
  BY <1>4
<1>6. ASSUME NEW k \in 1..Len(fs[f].segs)
      PROVE  /\ fs[f].segs[k].vaddr \in Nat /\ fs[f].segs[k].memsz \in Nat
             /\ fs[f].segs[k].vaddr + fs[f].segs[k].memsz <= (Pages - 2) * PGSIZE
  <2>1. fs[f].segs[k] \in [vaddr : Nat, memsz : Nat]
    <3> DEFINE Seg == [vaddr : Nat, memsz : Nat]
               q == fs[f].segs
    <3>1. q \in Seq(Seg)
      BY <1>4
    <3> HIDE DEF Seg, q
    <3>2. k \in 1..Len(q)
      BY DEF q
    <3>3. q[k] \in Seg
      BY <3>1, <3>2, ElementOfSeq
    <3> QED BY <3>3 DEF q, Seg
  <2>2. fs[f].segs[k].vaddr + fs[f].segs[k].memsz <= (Pages - 2) * PGSIZE
    BY <1>5, UserMemoryAssumption
  <2> QED BY <2>1, <2>2
<1> QED BY <1>2, <1>4, <1>6

\* The k-th file written, counted from 0.
LEMMA FileOf ==
    ASSUME NEW fs \in Builds, NEW k \in Nat, Len(fs) > 0
    PROVE  /\ (k % Len(fs)) + 1 \in DOMAIN fs
           /\ (k % Len(fs)) + 1 \in Nat \ {0}
<1>1. fs \in Seq([sectors : Nat \ {0}, segs : Seq([vaddr : Nat, memsz : Nat])])
  BY UserMemoryAssumption
<1>2. Len(fs) \in Nat /\ DOMAIN fs = 1..Len(fs)
  BY <1>1
<1>3. k % Len(fs) \in 0 .. (Len(fs) - 1)
  BY <1>2
<1> QED BY <1>2, <1>3

LEMMA FirstSector ==
    ASSUME NEW fs \in Builds, NEW n \in Nat, n > 0 => Len(fs) > 0
    PROVE  /\ first_sector(fs, n) \in [0..n -> Nat]
           /\ first_sector(fs, n)[0] = 1
           /\ \A k \in 1..n : first_sector(fs, n)[k]
                  = first_sector(fs, n)[k - 1] + fs[((k - 1) % Len(fs)) + 1].sectors
<1> DEFINE D == [k \in 1..n |-> fs[((k - 1) % Len(fs)) + 1].sectors]
           at == first_sector(fs, n)
<1>1. ASSUME NEW k \in 1..n PROVE D[k] \in Nat \ {0}
  <2>1. k - 1 \in Nat /\ Len(fs) > 0
    OBVIOUS
  <2>2. ((k - 1) % Len(fs)) + 1 \in DOMAIN fs
    BY <2>1, FileOf
  <2> QED BY <2>2, BuildFacts
<1>2. D \in [1..n -> Nat \ {0}]
  BY <1>1
<1>3. \A k \in 1..n : D[k] = fs[((k - 1) % Len(fs)) + 1].sectors
  OBVIOUS
<1> HIDE DEF D
<1>4. PICK g \in [0..n -> Nat] : g[0] = 1 /\ \A k \in 1..n : g[k] = g[k - 1] + D[k]
  BY <1>2, SumsExist
<1>5. g = [k \in 0..n |-> IF k = 0 THEN 1
                          ELSE g[k - 1] + fs[((k - 1) % Len(fs)) + 1].sectors]
  BY <1>3, <1>4
<1>6. at = [k \in 0..n |-> IF k = 0 THEN 1
                           ELSE at[k - 1] + fs[((k - 1) % Len(fs)) + 1].sectors]
  BY <1>5 DEF first_sector
<1> HIDE DEF at
<1>7. at[0] = 1 /\ \A k \in 1..n : at[k] = at[k - 1] + D[k]
  BY <1>3, <1>6, SMTT(30)
<1>8. at = [k \in 0..n |-> at[k]]
  BY <1>6
<1>9. \A k \in 0..n : at[k] \in Nat
  <2> DEFINE S == {m \in Nat : m <= n => at[m] \in Nat}
  <2>1. 0 \in S /\ \A m \in Nat : m \in S => m + 1 \in S
    BY <1>2, <1>7, SMTT(30)
  <2> HIDE DEF S
  <2>2. \A m \in Nat : m \in S
    BY <2>1, Induction
  <2> QED BY <2>2 DEF S
<1> QED BY <1>3, <1>7, <1>8, <1>9 DEF at
\* Every file starts behind the ones before it.
LEMMA Increasing ==
    ASSUME NEW fs \in Builds, NEW n \in Nat, n > 0 => Len(fs) > 0
    PROVE  \A k \in 0..n : \A j \in 0..n : j < k => first_sector(fs, n)[j] < first_sector(fs, n)[k]
<1> DEFINE at == first_sector(fs, n)
           S == {m \in Nat : m <= n => \A j \in 0..n : j < m => at[j] < at[m]}
<1>1. at \in [0..n -> Nat]
  BY FirstSector
<1>2. ASSUME NEW m \in Nat, m + 1 <= n PROVE at[m] < at[m + 1]
  <2>1. at[m + 1] = at[m] + fs[(m % Len(fs)) + 1].sectors
    <3>1. m + 1 \in 1..n /\ (m + 1) - 1 = m
      BY <1>2
    <3> QED BY <3>1, FirstSector
  <2>2. fs[(m % Len(fs)) + 1].sectors \in Nat \ {0}
    BY <1>2, FileOf, BuildFacts
  <2>3. at[m] \in Nat
    BY <1>1, <1>2
  <2> HIDE DEF at
  <2> QED BY <2>1, <2>2, <2>3
<1> HIDE DEF at
<1>3. 0 \in S
  OBVIOUS
<1>4. ASSUME NEW m \in Nat, m \in S PROVE m + 1 \in S
  <2> SUFFICES ASSUME m + 1 <= n, NEW j \in 0..n, j < m + 1 PROVE at[j] < at[m + 1]
    OBVIOUS
  <2>1. at[m] < at[m + 1] /\ at[m] \in Nat /\ at[j] \in Nat /\ at[m + 1] \in Nat
    BY <1>1, <1>2
  <2>2. j = m \/ at[j] < at[m]
    BY <1>4
  <2> QED BY <2>1, <2>2
<1>5. \A m \in Nat : m \in S
  <2> HIDE DEF S
  <2> QED BY <1>3, <1>4, Induction
<1> QED BY <1>5 DEF at

\* A sector of the disk is the header of the k-th file exactly where that starts.
LEMMA ImageSectors ==
    ASSUME NEW fs \in Builds, NEW n \in Nat, n > 0 => Len(fs) > 0
    PROVE  /\ \A k \in 0..(n - 1) :
                  /\ first_sector(fs, n)[k] \in DOMAIN image(fs, n)
                  /\ image(fs, n)[first_sector(fs, n)[k]] = (k % Len(fs)) + 1
           /\ \A s \in DOMAIN image(fs, n) :
                  image(fs, n)[s] # 0 => \E k \in 0..(n - 1) : first_sector(fs, n)[k] = s
<1> DEFINE at == first_sector(fs, n)
           d == image(fs, n)
<1>1. at \in [0..n -> Nat] /\ at[0] = 1
  BY FirstSector
<1>2. \A k, j \in 0..n : j < k => at[j] < at[k]
  BY Increasing
<1>3. d = [s \in 1..(at[n] - 1) |->
              IF \E k \in 0..(n - 1) : at[k] = s
              THEN ((CHOOSE k \in 0..(n - 1) : at[k] = s) % Len(fs)) + 1 ELSE 0]
  BY DEF image
<1> HIDE DEF at, d
<1>4. ASSUME NEW k \in 0..(n - 1)
      PROVE  at[k] \in DOMAIN d /\ d[at[k]] = (k % Len(fs)) + 1
  <2>1. k \in 0..n /\ n \in 0..n /\ 0 \in 0..n /\ k < n
    OBVIOUS
  <2>2. at[k] \in Nat /\ at[n] \in Nat /\ at[k] < at[n] /\ at[k] >= 1
    BY <1>1, <1>2, <2>1
  <2>3. at[k] \in 1..(at[n] - 1)
    BY <2>2
  <2>4. \A j \in 0..(n - 1) : at[j] = at[k] => j = k
    <3> SUFFICES ASSUME NEW j \in 0..(n - 1), j # k PROVE at[j] # at[k]
      OBVIOUS
    <3>1. j \in 0..n /\ (j < k \/ k < j)
      OBVIOUS
    <3>2. at[j] \in Nat
      BY <1>1, <3>1
    <3>3. at[j] < at[k] \/ at[k] < at[j]
      BY <1>2, <2>1, <3>1
    <3> QED BY <2>2, <3>2, <3>3
  <2>5. (CHOOSE j \in 0..(n - 1) : at[j] = at[k]) = k
    BY <2>4
  <2> QED BY <1>3, <2>3, <2>5
<1>5. ASSUME NEW s \in DOMAIN d, d[s] # 0 PROVE \E k \in 0..(n - 1) : at[k] = s
  BY <1>3, <1>5
<1> QED BY <1>4, <1>5 DEF at, d

LEMMA MinIs ==
    ASSUME NEW S, NEW m \in S, S \subseteq Int, \A y \in S : m <= y
    PROVE  Min(S) = m
<1>1. Min(S) \in S /\ \A y \in S : Min(S) <= y
  BY DEF Min
<1>2. Min(S) \in Int /\ m \in Int /\ Min(S) <= m /\ m <= Min(S)
  BY <1>1
<1> QED BY <1>2

\* What read_elf() finds: from the start of a file its header, from the sector
\* behind it the header of the next file, if there is one.
LEMMA Headers ==
    ASSUME files \in Builds, disk = movePlugin(files), NEW k \in 0..(NFiles - 1)
    PROVE  /\ Start[k] \in Nat \ {0}
           /\ Header(Start[k]) = Start[k]
           /\ disk[Start[k]] = (k % Len(files)) + 1
           /\ Header(Start[k] + 1) = IF k + 1 < NFiles THEN Start[k + 1] ELSE 0
<1> DEFINE n == NFiles
           at == Start
<1>1. Len(files) \in Nat /\ n \in Nat /\ k \in Nat /\ k < n
  <2>1. Len(files) \in Nat
    BY UserMemoryAssumption
  <2> QED BY <2>1 DEF NFiles
<1>2. Len(files) > 0
  BY <1>1 DEF NFiles
<1>3. /\ at \in [0..n -> Nat] /\ at[0] = 1
      /\ \A a, b \in 0..n : b < a => at[b] < at[a]
  BY <1>1, <1>2, FirstSector, Increasing DEF Start
<1>4. /\ \A a \in 0..(n - 1) : at[a] \in DOMAIN disk /\ disk[at[a]] = (a % Len(files)) + 1
      /\ \A s \in DOMAIN disk : disk[s] # 0 => \E a \in 0..(n - 1) : at[a] = s
  BY <1>1, <1>2, ImageSectors DEF Start, movePlugin, NFiles
<1>5. \A a \in 0..(n - 1) : disk[at[a]] # 0
  BY <1>1, <1>2, <1>4, FileOf
<1>6. \A a \in 0..(n - 1) : a \in 0..n /\ at[a] \in Nat \ {0}
  BY <1>1, <1>3
<1>7. ASSUME NEW s \in Nat
      PROVE  {h \in DOMAIN disk : h >= s /\ disk[h] # 0} = {at[a] : a \in {b \in 0..(n - 1) : at[b] >= s}}
  BY <1>4, <1>5
<1> HIDE DEF n, at
<1>8. Header(at[k]) = at[k]
  <2> DEFINE hs == {h \in DOMAIN disk : h >= at[k] /\ disk[h] # 0}
  <2>1. hs = {at[a] : a \in {b \in 0..(n - 1) : at[b] >= at[k]}}
    BY <1>1, <1>6, <1>7 DEF n
  <2>2. at[k] \in hs
    BY <1>1, <1>6, <2>1 DEF n
  <2>3. hs \subseteq Int /\ \A y \in hs : at[k] <= y
    BY <1>1, <1>6, <2>1 DEF n
  <2>4. Min(hs) = at[k] /\ hs # {}
    <3> HIDE DEF hs
    <3> QED BY <2>2, <2>3, MinIs
  <2> QED BY <2>4 DEF Header
<1>9. Header(at[k] + 1) = IF k + 1 < n THEN at[k + 1] ELSE 0
  <2> DEFINE hs == {h \in DOMAIN disk : h >= at[k] + 1 /\ disk[h] # 0}
  <2>0. at[k] \in Nat /\ at[k] + 1 \in Nat /\ k \in 0..n
    BY <1>1, <1>6 DEF n
  <2>1. hs = {at[a] : a \in {b \in 0..(n - 1) : at[b] >= at[k] + 1}}
    BY <1>7, <2>0
  <2>2. ASSUME NEW b \in 0..(n - 1) PROVE at[b] >= at[k] + 1 <=> k + 1 <= b
    <3>1. b \in 0..n /\ at[b] \in Nat /\ b \in Nat
      BY <1>6
    <3>2. b < k => at[b] < at[k]
      BY <1>3, <2>0, <3>1
    <3>3. k < b => at[k] < at[b]
      BY <1>3, <2>0, <3>1
    <3> QED BY <1>1, <2>0, <3>1, <3>2, <3>3
  <2>3. CASE k + 1 < n
    <3>1. k + 1 \in 0..(n - 1)
      BY <1>1, <2>3 DEF n
    <3>2. at[k + 1] \in hs
      BY <2>1, <2>2, <3>1
    <3>3. ASSUME NEW y \in hs PROVE y \in Int /\ at[k + 1] <= y
      <4>1. PICK b \in 0..(n - 1) : y = at[b] /\ at[b] >= at[k] + 1
        BY <2>1
      <4>2. k + 1 <= b /\ b \in 0..n /\ k + 1 \in 0..n /\ at[b] \in Nat /\ at[k + 1] \in Nat
        BY <1>6, <2>2, <3>1, <4>1
      <4>3. b = k + 1 \/ k + 1 < b
        BY <1>1, <4>2
      <4> QED BY <1>3, <4>1, <4>2, <4>3
    <3>4. Min(hs) = at[k + 1] /\ hs # {}
      <4> HIDE DEF hs
      <4> QED BY <3>2, <3>3, MinIs
    <3> QED BY <2>3, <3>4 DEF Header
  <2>4. CASE ~(k + 1 < n)
    <3>1. ASSUME NEW b \in 0..(n - 1) PROVE ~(k + 1 <= b)
      BY <1>1, <2>4 DEF n
    <3>2. hs = {}
      BY <2>1, <2>2, <3>1
    <3> QED BY <2>4, <3>2 DEF Header
  <2> QED BY <2>3, <2>4
<1> QED BY <1>1, <1>4, <1>6, <1>8, <1>9 DEF n, at
----------------------------------------------------------------------------
(* Finding the program *)

LEMMA InitScan == Init => ScanInv
<1> SUFFICES ASSUME Init PROVE ScanInv
  OBVIOUS
<1>1. Len(files) \in Nat /\ NFiles \in Nat /\ (NFiles > 0 => Len(files) > 0)
  <2>1. Len(files) \in Nat
    BY UserMemoryAssumption DEF Init
  <2> QED BY <2>1 DEF NFiles
<1>2. Start[0] = 1
  BY <1>1, FirstSector DEF Init, Start
<1>3. disk = movePlugin(files) /\ phase = "buffer" /\ i = 1 /\ pluginSector = 1
      /\ \A p \in Plugin : program[p] = 0
  BY DEF Init
<1> QED BY <1>1, <1>2, <1>3 DEF ScanInv, OwnProgram, ScanStops, Filling

\* What read_elf() does to the search, by the number of files that are left.
LEMMA ReadElf ==
    ASSUME MemoryInv, ScanInv, read_elf
    PROVE  /\ i \in Plugin /\ UNCHANGED <<files, disk, i>>
           /\ \/ /\ phase' = "disk_end" /\ NFiles <= i
                 /\ UNCHANGED <<pluginSector, program, todo>>
              \/ /\ phase' = "overrun" /\ \E k \in DOMAIN files : files[k].sectors >= BUFFER
                 /\ UNCHANGED <<pluginSector, program, todo>>
              \/ /\ phase' = "table" /\ i < NFiles
                 /\ pluginSector' = Start[i] /\ Start[i] \in Nat
                 /\ program' = [program EXCEPT ![i] = ((i - 1) % Len(files)) + 1]
                 /\ todo' = LEVELS
<1>1. /\ phase = "read_seg" /\ files \in Builds /\ i \in Plugin /\ i \in Nat \ {0}
      /\ UNCHANGED <<files, disk, i>>
  BY DEF read_elf, world, MemoryInv, FramesExclusive, TypeOK, Plugin
<1>2. /\ disk = movePlugin(files) /\ i - 1 <= NFiles /\ (i - 1 = NFiles => NFiles = 0)
      /\ pluginSector = Start[i - 1]
  BY <1>1 DEF ScanInv
<1>3. Len(files) \in Nat /\ NFiles \in Nat /\ (NFiles > 0 => Len(files) > 0)
  <2>1. Len(files) \in Nat
    BY <1>1, UserMemoryAssumption
  <2> QED BY <2>1 DEF NFiles
<1> DEFINE h == Header(pluginSector)
           next == Header(h + 1)
<1>4. \/ /\ h = 0 \/ next = 0
         /\ phase' = "disk_end" /\ UNCHANGED <<pluginSector, program, todo>>
      \/ /\ ~(h = 0 \/ next = 0) /\ next - h >= BUFFER
         /\ phase' = "overrun" /\ UNCHANGED <<pluginSector, program, todo>>
      \/ /\ ~(h = 0 \/ next = 0)
         /\ pluginSector' = next
         /\ program' = [program EXCEPT ![i] = disk[h]]
         /\ phase' = "table"
         /\ todo' = LEVELS
  BY DEF read_elf
<1> HIDE DEF h, next
<1>5. CASE NFiles = 0
  <2>1. DOMAIN disk = {}
    <3>1. first_sector(files, 0)[0] = 1
      BY <1>1, FirstSector
    <3>2. DOMAIN disk = 1..(1 - 1)
      BY <1>2, <1>5, <3>1 DEF movePlugin, image, NFiles
    <3> QED BY <3>2
  <2>2. h = 0
    BY <2>1 DEF h, Header
  <2> QED BY <1>1, <1>4, <1>5, <2>2
<1>6. CASE NFiles > 0
  <2> DEFINE k == i - 1
  <2>1. k \in 0..(NFiles - 1) /\ k \in Nat /\ k + 1 = i
    BY <1>1, <1>2, <1>3, <1>6
  <2>2. /\ Start[k] \in Nat \ {0} /\ h = Start[k]
        /\ disk[h] = (k % Len(files)) + 1
        /\ next = IF k + 1 < NFiles THEN Start[k + 1] ELSE 0
    BY <1>1, <1>2, <2>1, Headers DEF h, next
  <2>3. CASE i < NFiles
    <3>1. next = Start[i] /\ i \in 1..NFiles
      BY <1>1, <1>3, <2>1, <2>2, <2>3
    <3>2. /\ Start[i] = Start[i - 1] + files[((i - 1) % Len(files)) + 1].sectors
          /\ Start[i] \in Nat
      <4>1. /\ Start \in [0..NFiles -> Nat]
            /\ \A m \in 1..NFiles :
                   Start[m] = Start[m - 1] + files[((m - 1) % Len(files)) + 1].sectors
        BY <1>1, <1>3, FirstSector DEF Start
      <4>2. i \in 0..NFiles
        BY <3>1
      <4> QED BY <3>1, <4>1, <4>2
    <3>3. ((i - 1) % Len(files)) + 1 \in DOMAIN files
      BY <1>1, <1>3, <1>6, <2>1, FileOf
    <3>4. files[((i - 1) % Len(files)) + 1].sectors \in Nat
      BY <1>1, <3>3, BuildFacts
    <3>5. next - h = files[((i - 1) % Len(files)) + 1].sectors
      BY <2>2, <3>1, <3>2, <3>4, SMTT(30)
    <3>6. ~(next = 0) /\ ~(h = 0)
      BY <2>2, <3>1, <3>2, <3>4
    <3> QED BY <1>1, <1>4, <2>2, <2>3, <3>1, <3>2, <3>3, <3>5, <3>6
  <2>4. CASE ~(i < NFiles)
    BY <1>1, <1>3, <1>4, <2>1, <2>2, <2>4
  <2> QED BY <2>3, <2>4
<1> QED BY <1>3, <1>5, <1>6
\* A step that leaves the search alone goes from before the search to before it, or
\* stays behind it.
LEMMA ScanKeeps ==
    ASSUME ScanInv, UNCHANGED <<files, disk, i, pluginSector, program>>,
           phase' \in {"buffer", "alloc_proc", "read_seg"} =>
               phase \in {"buffer", "alloc_proc", "read_seg"},
           phase' = "table" \/ Filling' => phase = "table" \/ Filling,
           phase' \in {"disk_end", "overrun"} => phase' = phase
    PROVE  ScanInv'
<1>1. NFiles' = NFiles /\ Start' = Start
  BY DEF NFiles, Start
<1>2. OwnProgram' /\ ScanStops'
  BY DEF ScanInv, OwnProgram, ScanStops
<1> QED BY <1>1, <1>2 DEF ScanInv

LEMMA NextScan == MemoryInv /\ ScanInv /\ [Next]_vars => ScanInv'
<1> SUFFICES ASSUME MemoryInv, ScanInv, [Next]_vars PROVE ScanInv'
  OBVIOUS
<1> USE DEF Filling
<1>1. CASE read_elf
  <2>1. NFiles' = NFiles /\ Start' = Start /\ files' = files /\ disk' = disk /\ i' = i
    BY <1>1, ReadElf DEF NFiles, Start
  <2>2. i \in Plugin /\ program \in [Plugin -> Nat]
    BY <1>1, ReadElf DEF MemoryInv, FramesExclusive, TypeOK
  <2>3. i <= pluginNum
    BY <2>2, Sizes DEF Plugin
  <2>4. OwnProgram'
    <3>1. \/ program' = program
          \/ program' = [program EXCEPT ![i] = ((i - 1) % Len(files)) + 1]
      BY <1>1, ReadElf
    <3> QED BY <2>1, <2>2, <3>1 DEF ScanInv, OwnProgram
  <2>5. phase' = "disk_end" => 2 * Len(files) <= pluginNum
    <3>1. phase' = "disk_end" => NFiles <= i
      BY <1>1, ReadElf
    <3>2. NFiles = 2 * Len(files) /\ Len(files) \in Nat /\ i \in Int
      <4>1. Len(files) \in Nat
        BY UserMemoryAssumption DEF MemoryInv, FramesExclusive, TypeOK
      <4> QED BY <2>2, <4>1, Sizes DEF NFiles, Plugin
    <3> QED BY <2>3, <3>1, <3>2, Sizes
  <2>6. phase' = "overrun" => \E k \in DOMAIN files : files[k].sectors >= BUFFER
    BY <1>1, ReadElf
  <2>7. ScanStops'
    BY <2>1, <2>5, <2>6 DEF ScanStops
  <2>8. phase' \in {"disk_end", "overrun", "table"}
    BY <1>1, ReadElf
  <2>9. phase' = "table" => /\ i < NFiles /\ pluginSector' = Start[i]
                            /\ program'[i] = ((i - 1) % Len(files)) + 1
    BY <1>1, <2>2, ReadElf
  <2> QED BY <2>1, <2>4, <2>7, <2>8, <2>9 DEF ScanInv
<1>2. CASE copy_uvm
  <2>1. UNCHANGED <<files, disk, pluginSector, program>>
    BY <1>2 DEF copy_uvm, world, scan
  <2>2. CASE i' = i
    <3>1. \/ phase' \in {"wild", "alloc_uvm"}
          \/ finish_plugin
      BY <1>2 DEF copy_uvm
    <3>2. i \in Int
      BY Sizes DEF MemoryInv, FramesExclusive, TypeOK
    <3>3. ~finish_plugin
      BY <2>2, <3>2 DEF finish_plugin
    <3>4. phase' \in {"wild", "alloc_uvm"}
      BY <3>1, <3>3
    <3> QED BY <1>2, <2>1, <2>2, <3>4, ScanKeeps DEF copy_uvm
  <2>3. CASE i' # i
    <3>1. finish_plugin /\ phase = "copy_uvm"
      BY <1>2, <2>3 DEF copy_uvm
    <3>2. i' = i + 1 /\ phase' \in {"alloc_proc", "run"}
      BY <3>1 DEF finish_plugin, next_plugin
    <3>3. i < NFiles /\ pluginSector = Start[i] /\ disk = movePlugin(files)
      BY <3>1 DEF ScanInv
    <3>4. NFiles' = NFiles /\ Start' = Start
      BY <2>1 DEF NFiles, Start
    <3>5. OwnProgram' /\ ScanStops'
      BY <2>1, <3>2 DEF ScanInv, OwnProgram, ScanStops
    <3>6. i \in Int /\ NFiles \in Int
      <4>1. Len(files) \in Nat
        BY UserMemoryAssumption DEF MemoryInv, FramesExclusive, TypeOK
      <4> QED BY <4>1, Sizes DEF MemoryInv, FramesExclusive, TypeOK, NFiles
    <3>7. i' - 1 = i /\ i' - 1 <= NFiles' /\ i' - 1 # NFiles'
      BY <3>2, <3>3, <3>4, <3>6
    <3> QED BY <2>1, <3>2, <3>3, <3>4, <3>5, <3>7 DEF ScanInv
  <2> QED BY <2>2, <2>3
<1>3. CASE load_plugin_init \/ alloc_proc \/ setup_table \/ setup_user_memory_pages
  BY <1>3, ScanKeeps, Sizes DEF load_plugin_init, alloc_proc, setup_table, setup_user_memory_pages,
     world, scan, next_plugin
<1>4. CASE alloc_uvm_inside \/ alloc_uvm \/ page_walk_return_pte \/ map_pages \/ map_pages_done
  BY <1>4, ScanKeeps DEF alloc_uvm_inside, alloc_uvm, page_walk_return_pte, map_pages,
     map_pages_done, world, scan
<1>5. CASE alloc_fault \/ ended \/ UNCHANGED vars
  BY <1>5, ScanKeeps DEF alloc_fault, ended, vars, world, scan
<1> QED BY <1>1, <1>2, <1>3, <1>4, <1>5 DEF Next, Load
----------------------------------------------------------------------------
(* Frames *)

\* A block that memblock_alloc() finds is free.
LEMMA BlockIsFree ==
    ASSUME NEW k, NEW b \in memblock_alloc(k)
    PROVE  b \in free /\ b .. (b + k - 1) \subseteq free
BY DEF memblock_alloc, Bases

\* Frames that go from memblock to the kernel stay away from the plugins.
LEMMA KernelTakes ==
    ASSUME MemoryInv, NEW k, memblock_alloc_kernel(k)
    PROVE  /\ free' \subseteq free /\ kernel' \subseteq Frames
           /\ free' \cup kernel' = free \cup kernel
           /\ free' \cap kernel' = {}
<1>1. PICK b \in memblock_alloc(k) : /\ free' = free \ (b .. (b + k - 1))
                                     /\ kernel' = kernel \cup (b .. (b + k - 1))
  BY DEF memblock_alloc_kernel
<1> DEFINE B == b .. (b + k - 1)
<1>2. B \subseteq free
  BY BlockIsFree
<1>3. free' = free \ B /\ kernel' = kernel \cup B
  BY <1>1
<1> HIDE DEF B
<1> QED BY <1>2, <1>3 DEF MemoryInv, FramesExclusive, TypeOK

\* While no entry changes, the plugins keep their frames to themselves.
LEMMA FramesKeep ==
    ASSUME MemoryInv, TypeOK', pte' = pte,
           free' \cup kernel' \subseteq free \cup kernel, free' \cap kernel' = {}
    PROVE  FramesExclusive'
BY DEF MemoryInv, FramesExclusive

\* Nothing that PageInv speaks of has changed.
LEMMA PageKeeps ==
    ASSUME MemoryInv, UNCHANGED <<files, pte, i, program, seg, size, va, phase>>
    PROVE  PageInv'
BY DEF MemoryInv, PageInv, Mapped, Filling, segs

LEMMA InitMemory == Init => MemoryInv
<1> SUFFICES ASSUME Init PROVE MemoryInv
  OBVIOUS
<1>1. /\ \A p \in Plugin, pg \in 0 .. (Pages - 1) : pte[p][pg] = 0
      /\ pte \in [Plugin -> [0 .. (Pages - 1) -> Frames \cup {0}]]
  BY DEF Init
<1>2. 1 \in Plugin
  BY Sizes DEF Plugin
<1>3. TypeOK
  <2>1. 0 <= Pages * PGSIZE
    BY Sizes
  <2> QED BY <1>1, <1>2, <2>1, Sizes DEF Init, TypeOK, Stopped
<1>4. FramesExclusive
  BY <1>1, <1>3 DEF Init, FramesExclusive
<1>5. PageInv
  BY <1>1, <1>2, Sizes DEF Init, PageInv, Mapped, Filling
<1>6. ReservedInv
  BY DEF Init, ReservedInv, Reserved
<1>7. IpcBufferMapped
  BY DEF Init, IpcBufferMapped, Plugin
<1> QED BY <1>4, <1>5, <1>6, <1>7 DEF Init, MemoryInv, LoaderNeverFaults

\* The frames of the kernel: the buffer, a stack, a table of each level.
LEMMA KernelFrames ==
    ASSUME MemoryInv, ScanInv, load_plugin_init \/ alloc_proc \/ setup_table
    PROVE  MemoryInv'
<1>1. PICK k : memblock_alloc_kernel(k)
  BY DEF load_plugin_init, alloc_proc, setup_table
<1>2. UNCHANGED <<files, pte, tables, i, pluginSector, program, seg, size, va, mem, tcbIPCBuffer>>
  BY DEF load_plugin_init, alloc_proc, setup_table, world, spaces, scan, uvm
<1>3. /\ \/ phase = "buffer" /\ phase' = "alloc_proc" /\ todo' = todo
         \/ phase = "alloc_proc" /\ phase' = "read_seg" /\ todo' = todo
         \/ phase = "table" /\ phase' = phase /\ todo > 0 /\ todo' = todo - 1
  BY Sizes DEF load_plugin_init, alloc_proc, setup_table, next_plugin
<1>4. i \in Plugin
  <2>1. phase = "buffer" => i = 1 /\ 1 \in Plugin
    BY Sizes DEF MemoryInv, PageInv, Plugin
  <2> QED BY <1>3, <2>1 DEF MemoryInv, FramesExclusive, TypeOK
<1>5. TypeOK'
  <2>1. free' \subseteq Frames /\ kernel' \subseteq Frames
    BY <1>1, KernelTakes DEF MemoryInv, FramesExclusive, TypeOK
  <2>2. todo' \in 0 .. LEVELS
    BY <1>3, Sizes DEF MemoryInv, FramesExclusive, TypeOK
  <2>3. phase' \in {"alloc_proc", "read_seg", "table"}
    BY <1>3
  <2> QED BY <1>2, <1>4, <2>1, <2>2, <2>3 DEF MemoryInv, FramesExclusive, TypeOK
<1>6. FramesExclusive'
  BY <1>1, <1>2, <1>5, KernelTakes, FramesKeep
<1>7. PageInv'
  BY <1>2, <1>3 DEF MemoryInv, PageInv, Mapped, Filling
<1>8. ReservedInv'
  BY <1>3 DEF ReservedInv, Reserved
<1>9. IpcBufferMapped'
  BY <1>2 DEF MemoryInv, IpcBufferMapped
<1> QED BY <1>3, <1>6, <1>7, <1>8, <1>9 DEF MemoryInv, LoaderNeverFaults
\* The searching step leaves memory alone.
LEMMA ReadElfMemory ==
    ASSUME MemoryInv, ScanInv, read_elf
    PROVE  MemoryInv'
<1>1. UNCHANGED <<files, free, kernel, pte, tables, i, seg, size, va, mem, tcbIPCBuffer>>
      /\ phase = "read_seg"
  BY DEF read_elf, world, memory, spaces, uvm
<1>2. i \in Plugin /\ phase' \in {"disk_end", "overrun", "table"}
  BY ReadElf
<1>3. pluginSector' \in Nat /\ program' \in [Plugin -> Nat] /\ todo' \in 0 .. LEVELS
  <2>1. pluginSector \in Nat /\ program \in [Plugin -> Nat] /\ todo \in 0 .. LEVELS
    BY DEF MemoryInv, FramesExclusive, TypeOK
  <2>2. i < NFiles => ((i - 1) % Len(files)) + 1 \in Nat
    <3> SUFFICES ASSUME i < NFiles PROVE ((i - 1) % Len(files)) + 1 \in Nat
      OBVIOUS
    <3>1. files \in Builds /\ Len(files) \in Nat
      BY UserMemoryAssumption DEF MemoryInv, FramesExclusive, TypeOK
    <3>2. Len(files) > 0 /\ i - 1 \in Nat
      BY <1>2, <3>1, Sizes DEF NFiles, Plugin
    <3> QED BY <3>1, <3>2, FileOf
  <2> QED BY <2>1, <2>2, ReadElf, Sizes
<1>4. TypeOK'
  BY <1>1, <1>2, <1>3 DEF MemoryInv, FramesExclusive, TypeOK, Stopped
<1>5. FramesExclusive'
  <2>1. free \cap kernel = {}
    BY DEF MemoryInv, FramesExclusive
  <2> QED BY <1>1, <1>4, <2>1, FramesKeep
<1>6. PageInv'
  BY <1>1, <1>2 DEF MemoryInv, PageInv, Mapped, Filling
<1>7. ReservedInv' /\ IpcBufferMapped'
  BY <1>1, <1>2 DEF MemoryInv, ReservedInv, Reserved, IpcBufferMapped
<1> QED BY <1>2, <1>5, <1>6, <1>7 DEF MemoryInv, LoaderNeverFaults

\* One entry gets a frame that was nobody's.
LEMMA MapFrame ==
    ASSUME MemoryInv, TypeOK', i \in Plugin, NEW pg \in 0 .. (Pages - 1), NEW b \in Frames,
           pte[i][pg] = 0, pte' = [pte EXCEPT ![i][pg] = b],
           \A p \in Plugin, qg \in 0 .. (Pages - 1) : pte[p][qg] # b,
           b \notin free' \cup kernel',
           free' \subseteq free, kernel' = kernel
    PROVE  /\ FramesExclusive'
           /\ b # 0 /\ pte'[i][pg] = b
           /\ \A p \in Plugin, qg \in 0 .. (Pages - 1) :
                  p # i \/ qg # pg => pte'[p][qg] = pte[p][qg]
<1>1. pte \in [Plugin -> [0 .. (Pages - 1) -> Frames \cup {0}]]
  BY DEF MemoryInv, FramesExclusive, TypeOK
<1>2. b # 0
  BY Sizes
<1>3. pte'[i][pg] = b
  BY <1>1
<1>4. \A p \in Plugin, qg \in 0 .. (Pages - 1) :
          p # i \/ qg # pg => pte'[p][qg] = pte[p][qg]
  BY <1>1
<1>5. kernel' \cap free' = {}
  BY DEF MemoryInv, FramesExclusive
<1>6. ASSUME NEW p \in Plugin, NEW qg \in 0 .. (Pages - 1), pte'[p][qg] # 0
      PROVE  pte'[p][qg] \notin free' \cup kernel'
  <2>1. CASE p = i /\ qg = pg
    BY <1>3, <2>1
  <2>2. CASE p # i \/ qg # pg
    <3>1. pte[p][qg] \notin free \cup kernel
      BY <1>4, <1>6, <2>2 DEF MemoryInv, FramesExclusive
    <3> QED BY <1>4, <2>2, <3>1
  <2> QED BY <2>1, <2>2
<1>7. ASSUME NEW p \in Plugin, NEW qg \in 0 .. (Pages - 1), pte'[p][qg] # 0,
             NEW q \in Plugin, NEW rg \in 0 .. (Pages - 1), pte'[q][rg] = pte'[p][qg]
      PROVE  q = p /\ rg = qg
  <2>1. CASE (p = i /\ qg = pg) \/ (q = i /\ rg = pg)
    BY <1>3, <1>4, <1>7, <2>1
  <2>2. CASE (p # i \/ qg # pg) /\ (q # i \/ rg # pg)
    <3>1. pte[p][qg] # 0 /\ pte[q][rg] = pte[p][qg]
      BY <1>4, <1>7, <2>2
    <3> QED BY <3>1 DEF MemoryInv, FramesExclusive
  <2> QED BY <2>1, <2>2
<1>8. FramesExclusive'
  BY <1>5, <1>6, <1>7 DEF FramesExclusive
<1> QED BY <1>2, <1>3, <1>4, <1>8

\* The segments of the plugin that is loaded.
LEMMA SegFacts ==
    ASSUME MemoryInv, program[i] \in DOMAIN files
    PROVE  /\ Len(segs) \in Nat
           /\ \A k \in 1..Len(segs) : /\ segs[k].vaddr + segs[k].memsz \in Nat
                                      /\ segs[k].vaddr + segs[k].memsz <= (Pages - 2) * PGSIZE
<1>1. files \in Builds
  BY DEF MemoryInv, FramesExclusive, TypeOK
<1>2. /\ segs \in Seq([vaddr : Nat, memsz : Nat])
      /\ \A k \in 1..Len(segs) : /\ segs[k].vaddr \in Nat /\ segs[k].memsz \in Nat
                                 /\ segs[k].vaddr + segs[k].memsz <= (Pages - 2) * PGSIZE
  BY <1>1, BuildFacts DEF segs
<1>3. Len(segs) \in Nat
  BY <1>2
<1> QED BY <1>2, <1>3, SMTT(30)

\* setup_user_memory_pages() maps page 0.
LEMMA FirstPage ==
    ASSUME MemoryInv, ScanInv, setup_user_memory_pages
    PROVE  MemoryInv'
<1>1. PICK b \in memblock_alloc(1) : free' = free \ {b} /\ pte' = [pte EXCEPT ![i][0] = b]
  BY DEF setup_user_memory_pages
<1>2. /\ UNCHANGED <<files, kernel, i, pluginSector, program, todo, va, mem, tcbIPCBuffer>>
      /\ tables' = [tables EXCEPT ![i] = {0}]
      /\ size' = PGSIZE /\ seg' = 0 /\ phase = "table" /\ phase' = "alloc_uvm"
  BY DEF setup_user_memory_pages, world, scan
<1>3. i \in Plugin /\ 0 \in 0 .. (Pages - 1) /\ b \in free /\ b \in Frames
  <2>1. b \in free
    BY <1>1, BlockIsFree
  <2>2. 0 \in 0 .. (Pages - 1)
    BY Sizes
  <2> QED BY <1>2, <2>1, <2>2 DEF MemoryInv, FramesExclusive, TypeOK
<1>4. \A pg \in 0 .. (Pages - 1) : pte[i][pg] = 0
  BY <1>2, Sizes DEF MemoryInv, PageInv, Mapped
<1>5. \A p \in Plugin, qg \in 0 .. (Pages - 1) : pte[p][qg] # b
  BY <1>3, Sizes DEF MemoryInv, FramesExclusive
<1>6. PGSIZE = 1 * PGSIZE /\ PGSIZE <= (Pages - 2) * PGSIZE /\ PGSIZE \in 0 .. (Pages * PGSIZE)
  <2>1. 1 \in Int /\ Pages - 2 \in Int /\ Pages \in Int /\ 1 <= Pages - 2 /\ 1 <= Pages
        /\ PGSIZE \in Nat
    BY Sizes
  <2>2. PGSIZE = 1 * PGSIZE
    BY <2>1
  <2>3. 1 * PGSIZE <= (Pages - 2) * PGSIZE
    <3> DEFINE q == Pages - 2
    <3> HIDE DEF q
    <3>1. 1 * PGSIZE <= q * PGSIZE
      BY <2>1, TimesPage DEF q
    <3> QED BY <3>1 DEF q
  <2>4. 1 * PGSIZE <= Pages * PGSIZE /\ Pages * PGSIZE \in Int
    BY <2>1, TimesPage
  <2> QED BY <2>1, <2>2, <2>3, <2>4
<1>7. PagesOf(PGSIZE) = 1
  BY <1>6, PagesOfWhole
<1>8. TypeOK'
  <2>1. free' \subseteq Frames /\ kernel' \subseteq Frames
    BY <1>1, <1>2 DEF MemoryInv, FramesExclusive, TypeOK
  <2>2. pte' \in [Plugin -> [0 .. (Pages - 1) -> Frames \cup {0}]]
    BY <1>1, <1>3 DEF MemoryInv, FramesExclusive, TypeOK
  <2>3. tables' \in [Plugin -> SUBSET (0 .. (Pages - 1))]
    BY <1>2, <1>3 DEF MemoryInv, FramesExclusive, TypeOK
  <2> QED BY <1>2, <1>3, <1>6, <2>1, <2>2, <2>3 DEF MemoryInv, FramesExclusive, TypeOK
<1>9. /\ FramesExclusive'
      /\ b # 0 /\ pte'[i][0] = b
      /\ \A p \in Plugin, qg \in 0 .. (Pages - 1) : p # i \/ qg # 0 => pte'[p][qg] = pte[p][qg]
  <2>1. b \notin free' \cup kernel' /\ free' \subseteq free /\ kernel' = kernel
    BY <1>1, <1>2, <1>3 DEF MemoryInv, FramesExclusive
  <2> QED BY <1>1, <1>3, <1>4, <1>5, <1>8, <2>1, MapFrame
<1>10. program[i] \in DOMAIN files
  <2>1. files \in Builds /\ Len(files) \in Nat /\ i \in Nat \ {0}
    BY <1>3, UserMemoryAssumption, Sizes DEF MemoryInv, FramesExclusive, TypeOK, Plugin
  <2>2. i < NFiles /\ program[i] = ((i - 1) % Len(files)) + 1
    BY <1>2 DEF ScanInv
  <2>3. Len(files) > 0 /\ i - 1 \in Nat
    BY <2>1, <2>2 DEF NFiles
  <2> QED BY <2>1, <2>2, <2>3, FileOf
<1>11. PageInv'
  <2>1. Mapped(i, 1)'
    <3>1. \A pg \in 0 .. (Pages - 1) : pg < 1 <=> pg = 0
      BY Sizes
    <3>2. \A pg \in 0 .. (Pages - 1) : pte'[i][pg] # 0 <=> pg = 0
      BY <1>3, <1>4, <1>9
    <3> QED BY <1>2, <3>1, <3>2 DEF Mapped
  <2>2. \A p \in Plugin : p > i => Mapped(p, 0)'
    BY <1>2, <1>3, <1>9, Sizes DEF MemoryInv, PageInv, Mapped, Plugin
  <2>3. segs' = segs /\ Len(segs) \in Nat
    BY <1>2, <1>10, SegFacts DEF segs
  <2> QED BY <1>2, <1>6, <1>7, <1>10, <2>1, <2>2, <2>3, Sizes DEF PageInv, Filling
<1>12. ReservedInv'
  BY <1>2 DEF ReservedInv, Reserved
<1>13. IpcBufferMapped'
  BY <1>2, <1>3, <1>9, Sizes DEF MemoryInv, IpcBufferMapped, Plugin
<1> QED BY <1>2, <1>9, <1>11, <1>12, <1>13 DEF MemoryInv, LoaderNeverFaults
----------------------------------------------------------------------------
(* Growing *)

\* What alloc_uvm() works with: the sizes before and after, in pages.
LEMMA GrowthFacts ==
    ASSUME MemoryInv, phase = "alloc_uvm"
    PROVE  /\ i \in Plugin /\ program[i] \in DOMAIN files /\ Len(segs) \in Nat
           /\ seg \in Nat /\ seg <= Len(segs)
           /\ oldSize \in Nat /\ newSize \in Nat
           /\ PGSIZE <= size /\ size <= oldSize
           /\ first_page = PagesOf(size)
           /\ newSize <= Pages * PGSIZE
           /\ seg < Len(segs) => /\ oldSize = size
                                 /\ newSize = segs[seg + 1].vaddr + segs[seg + 1].memsz
                                 /\ newSize <= (Pages - 2) * PGSIZE
           /\ seg = Len(segs) => /\ newSize > oldSize
                                 /\ \E n \in 3 .. Pages : newSize = n * PGSIZE
<1>1. /\ i \in Plugin /\ program[i] \in DOMAIN files
      /\ size \in Nat /\ PGSIZE <= size /\ size <= (Pages - 2) * PGSIZE
      /\ seg \in 0 .. Len(segs)
  <2>1. Pages * PGSIZE \in Int
    BY Sizes
  <2> QED BY <2>1 DEF MemoryInv, FramesExclusive, TypeOK, PageInv, Filling
<1>2. Len(segs) \in Nat /\ seg \in Nat /\ seg <= Len(segs)
  BY <1>1, SegFacts
<1>3. (Pages - 2) * PGSIZE \in Nat /\ (Pages - 2) * PGSIZE <= Pages * PGSIZE
      /\ Pages * PGSIZE \in Nat
  <2>1. Pages - 2 \in Nat /\ Pages \in Nat /\ Pages - 2 <= Pages
    BY Sizes
  <2> DEFINE q == Pages - 2
  <2> HIDE DEF q
  <2>2. q * PGSIZE <= Pages * PGSIZE /\ q * PGSIZE \in Int /\ Pages * PGSIZE \in Int
    BY <2>1, TimesPage DEF q
  <2>3. q * PGSIZE \in Nat /\ Pages * PGSIZE \in Nat
    BY <2>1, PagesOfWhole DEF q
  <2> QED BY <2>2, <2>3 DEF q
<1>4. CASE seg < Len(segs)
  <2>1. oldSize = size /\ newSize = segs[seg + 1].vaddr + segs[seg + 1].memsz
    BY <1>4 DEF oldSize, newSize
  <2>2. seg + 1 \in 1..Len(segs)
    BY <1>2, <1>4
  <2>3. newSize \in Nat /\ newSize <= (Pages - 2) * PGSIZE
    BY <1>1, <2>1, <2>2, SegFacts
  <2>4. newSize <= Pages * PGSIZE
    BY <1>3, <2>3
  <2>5. seg # Len(segs)
    BY <1>2, <1>4
  <2> QED BY <1>1, <1>2, <1>4, <2>1, <2>3, <2>4, <2>5 DEF first_page
<1>5. CASE seg = Len(segs)
  <2> DEFINE P == PagesOf(size)
  <2>1. /\ P \in Nat /\ size <= P * PGSIZE /\ P * PGSIZE \in Nat /\ PagesOf(P * PGSIZE) = P
    BY <1>1, PagesBound, PagesOfWhole
  <2>2. P >= 1
    <3>1. 0 \in Nat /\ 0 * PGSIZE < size
      BY <1>1, Sizes
    <3>2. 0 < P
      BY <1>1, <3>1, PageBelow
    <3> QED BY <2>1, <3>2
  <2>3. P <= Pages - 2
    <3>1. Pages - 2 \in Nat
      BY Sizes
    <3>2. PagesOf(size) <= PagesOf((Pages - 2) * PGSIZE)
      BY <1>1, <1>3, PagesMonotone
    <3>3. PagesOf((Pages - 2) * PGSIZE) = Pages - 2
      <4> DEFINE q == Pages - 2
      <4> HIDE DEF q
      <4>1. PagesOf(q * PGSIZE) = q
        BY <3>1, PagesOfWhole DEF q
      <4> QED BY <4>1 DEF q
    <3> QED BY <3>2, <3>3
  <2>4. oldSize = P * PGSIZE /\ newSize = P * PGSIZE + 2 * PGSIZE
    <3>1. ~(seg < Len(segs))
      BY <1>2, <1>5
    <3> QED BY <3>1 DEF oldSize, newSize
  <2> HIDE DEF P
  <2>5. P + 2 \in 3 .. Pages /\ P + 2 \in Int /\ P \in Int /\ Pages \in Int
    BY <2>1, <2>2, <2>3, Sizes
  <2>6. newSize = (P + 2) * PGSIZE
    <3>1. (P + 2) * PGSIZE = P * PGSIZE + 2 * PGSIZE
      BY <2>5, TimesPage
    <3> QED BY <2>4, <3>1
  <2>7. newSize <= Pages * PGSIZE
    <3> DEFINE q == P + 2
    <3> HIDE DEF q
    <3>1. q * PGSIZE <= Pages * PGSIZE
      BY <2>5, TimesPage DEF q
    <3> QED BY <2>6, <3>1 DEF q
  <2>8. newSize \in Nat /\ newSize > oldSize /\ oldSize \in Nat /\ size <= oldSize
    BY <2>1, <2>4, Sizes
  <2>9. first_page = PagesOf(size)
    BY <2>1, <2>4 DEF first_page, P
  <2>10. \E n \in 3 .. Pages : newSize = n * PGSIZE
    BY <2>5, <2>6
  <2>11. ~(seg < Len(segs))
    BY <1>2, <1>5
  <2> QED BY <1>1, <1>2, <1>5, <2>7, <2>8, <2>9, <2>10, <2>11
<1> QED BY <1>2, <1>4, <1>5
\* A segment inside of what there is.
LEMMA InsideMemory ==
    ASSUME MemoryInv, alloc_uvm_inside
    PROVE  MemoryInv'
<1>1. /\ phase = "alloc_uvm" /\ phase' = "copy_uvm" /\ newSize < oldSize
      /\ UNCHANGED <<files, free, kernel, pte, tables, i, pluginSector, program, todo, seg, size,
                     va, mem, tcbIPCBuffer>>
  BY DEF alloc_uvm_inside, world, memory, spaces, scan, uvm
<1>2. /\ i \in Plugin /\ seg < Len(segs) /\ segs[seg + 1].vaddr + segs[seg + 1].memsz <= size
  <2>1. seg < Len(segs)
    BY <1>1, GrowthFacts
  <2>2. newSize = segs[seg + 1].vaddr + segs[seg + 1].memsz /\ oldSize = size
        /\ newSize \in Nat /\ oldSize \in Nat /\ i \in Plugin
    BY <1>1, <2>1, GrowthFacts
  <2> QED BY <1>1, <2>1, <2>2
<1>3. TypeOK'
  BY <1>1, <1>2 DEF MemoryInv, FramesExclusive, TypeOK
<1>4. FramesExclusive'
  <2>1. free \cap kernel = {}
    BY DEF MemoryInv, FramesExclusive
  <2> QED BY <1>1, <1>3, <2>1, FramesKeep
<1>5. PageInv'
  BY <1>1, <1>2 DEF MemoryInv, PageInv, Mapped, Filling, segs
<1>6. ReservedInv' /\ IpcBufferMapped'
  BY <1>1 DEF MemoryInv, ReservedInv, Reserved, IpcBufferMapped
<1> QED BY <1>1, <1>4, <1>5, <1>6 DEF MemoryInv, LoaderNeverFaults

\* alloc_uvm() reserves frames for all pages up to the new size.
LEMMA GrowMemory ==
    ASSUME MemoryInv, alloc_uvm
    PROVE  MemoryInv'
<1>1. PICK b \in memblock_alloc(uvm_frames) :
          free' = free \ (b .. (b + uvm_frames - 1)) /\ mem' = b
  BY DEF alloc_uvm
<1>2. /\ phase = "alloc_uvm" /\ phase' = "map_pages" /\ newSize >= oldSize
      /\ va' = first_page /\ size' = newSize
      /\ UNCHANGED <<files, kernel, pte, tables, i, pluginSector, program, todo, seg, tcbIPCBuffer>>
  BY DEF alloc_uvm, world, spaces, scan
<1>3. /\ i \in Plugin /\ program[i] \in DOMAIN files /\ Len(segs) \in Nat
      /\ seg \in Nat /\ seg <= Len(segs)
      /\ oldSize \in Nat /\ newSize \in Nat
      /\ PGSIZE <= size /\ size <= oldSize
      /\ first_page = PagesOf(size)
      /\ newSize <= Pages * PGSIZE
      /\ seg < Len(segs) => /\ oldSize = size
                            /\ newSize = segs[seg + 1].vaddr + segs[seg + 1].memsz
                            /\ newSize <= (Pages - 2) * PGSIZE
      /\ seg = Len(segs) => \E n \in 3 .. Pages : newSize = n * PGSIZE
  BY <1>2, GrowthFacts
<1>4. size \in Nat /\ Pages * PGSIZE \in Nat
  BY Sizes DEF MemoryInv, FramesExclusive, TypeOK
<1>5. /\ PagesOf(size) \in Nat /\ PagesOf(newSize) \in Nat
      /\ PagesOf(size) <= PagesOf(newSize) /\ PagesOf(newSize) <= Pages
      /\ PagesOf(newSize) - PagesOf(size) <= uvm_frames /\ uvm_frames \in Nat
  <2>1. PagesOf(size) \in Nat /\ PagesOf(newSize) \in Nat
    BY <1>3, <1>4, PagesBound
  <2>2. PagesOf(size) <= PagesOf(newSize)
    <3>1. size <= newSize
      BY <1>2, <1>3, <1>4
    <3> QED BY <1>3, <1>4, <3>1, PagesMonotone
  <2>3. PagesOf(newSize) <= Pages
    <3>1. PagesOf(newSize) <= PagesOf(Pages * PGSIZE)
      BY <1>3, <1>4, PagesMonotone
    <3>2. PagesOf(Pages * PGSIZE) = Pages
      BY Sizes, PagesOfWhole
    <3> QED BY <3>1, <3>2
  <2>4. /\ PagesOf(newSize) <= PagesOf(oldSize) + PagesOf(newSize - oldSize)
        /\ newSize - oldSize \in Nat
    <3>1. oldSize <= newSize
      BY <1>2, <1>3
    <3> QED BY <1>3, <3>1, EnoughFrames
  <2>5. PagesOf(oldSize) = PagesOf(size) /\ PagesOf(newSize - oldSize) = uvm_frames
    BY <1>3 DEF first_page, uvm_frames
  <2>6. uvm_frames \in Nat
    BY <2>4, PagesBound DEF uvm_frames
  <2> QED BY <2>1, <2>2, <2>3, <2>4, <2>5, <2>6
<1>6. b \in free /\ b \in Nat /\ b .. (b + uvm_frames - 1) \subseteq free
  <2>1. b \in free /\ b .. (b + uvm_frames - 1) \subseteq free
    BY <1>1, BlockIsFree
  <2>2. free \subseteq Nat
    BY Sizes DEF MemoryInv, FramesExclusive, TypeOK
  <2> QED BY <2>1, <2>2
<1>7. TypeOK'
  <2>1. free' \subseteq Frames /\ kernel' \subseteq Frames
    BY <1>1, <1>2 DEF MemoryInv, FramesExclusive, TypeOK
  <2>2. size' \in 0 .. (Pages * PGSIZE) /\ va' \in 0 .. Pages /\ mem' \in Nat
    BY <1>1, <1>2, <1>3, <1>4, <1>5, <1>6, Sizes
  <2> QED BY <1>2, <1>3, <2>1, <2>2 DEF MemoryInv, FramesExclusive, TypeOK
<1>8. FramesExclusive'
  <2>1. free' \cap kernel' = {} /\ free' \cup kernel' \subseteq free \cup kernel
    BY <1>1, <1>2 DEF MemoryInv, FramesExclusive
  <2> QED BY <1>2, <1>7, <2>1, FramesKeep
<1>9. PageInv'
  <2>1. segs' = segs
    BY <1>2 DEF segs
  <2>2. Mapped(i, PagesOf(size))
    BY <1>2 DEF MemoryInv, PageInv
  <2>3. Mapped(i, va)' /\ va' <= PagesOf(size')
    BY <1>2, <1>3, <1>5, <2>2 DEF Mapped
  <2>4. \A p \in Plugin : p > i' => Mapped(p, 0)'
    BY <1>2 DEF MemoryInv, PageInv, Mapped
  <2>5. PGSIZE <= size'
    BY <1>2, <1>3, <1>4, Sizes
  <2>6. seg' \in 0 .. Len(segs')
    BY <1>2, <1>3, <2>1
  <2>7. seg' < Len(segs') => size' <= (Pages - 2) * PGSIZE
    BY <1>2, <1>3, <2>1
  <2>8. IF seg' < Len(segs') THEN segs'[seg' + 1].vaddr + segs'[seg' + 1].memsz <= size'
        ELSE \E n \in 3 .. Pages : size' = n * PGSIZE
    <3>1. seg < Len(segs) \/ seg = Len(segs)
      BY <1>3
    <3>2. CASE seg < Len(segs)
      BY <1>2, <1>3, <2>1, <3>2
    <3>3. CASE seg = Len(segs)
      BY <1>2, <1>3, <2>1, <3>3
    <3> QED BY <3>1, <3>2, <3>3
  <2>9. program'[i'] \in DOMAIN files'
    BY <1>2, <1>3
  <2> QED BY <1>2, <2>3, <2>4, <2>5, <2>6, <2>7, <2>8, <2>9 DEF PageInv, Filling
<1>10. ReservedInv'
  <2> DEFINE B == b .. (b + uvm_frames - 1)
  <2>1. Reserved' \subseteq B
    <3>1. Reserved' = b .. (b + (PagesOf(newSize) - PagesOf(size)) - 1)
      BY <1>1, <1>2, <1>3 DEF Reserved
    <3>2. b + (PagesOf(newSize) - PagesOf(size)) - 1 <= b + uvm_frames - 1
      BY <1>5, <1>6
    <3> QED BY <1>5, <1>6, <3>1, <3>2
  <2>2. B \subseteq free /\ free' = free \ B
    BY <1>1, <1>6
  <2> HIDE DEF B
  <2>3. B \subseteq Frames /\ B \cap kernel = {}
    BY <2>2 DEF MemoryInv, FramesExclusive, TypeOK
  <2>4. \A p \in Plugin, pg \in 0 .. (Pages - 1) : pte[p][pg] \notin B
    <3>1. 0 \notin B
      BY <2>3, Sizes
    <3> QED BY <2>2, <3>1 DEF MemoryInv, FramesExclusive
  <2> QED BY <1>2, <2>1, <2>2, <2>3, <2>4 DEF ReservedInv
<1>11. IpcBufferMapped'
  BY <1>2 DEF MemoryInv, IpcBufferMapped
<1> QED BY <1>2, <1>8, <1>9, <1>10, <1>11 DEF MemoryInv, LoaderNeverFaults
\* What holds while alloc_uvm() maps.
LEMMA MappingFacts ==
    ASSUME MemoryInv, phase = "map_pages"
    PROVE  /\ i \in Plugin /\ size \in Nat /\ va \in Nat /\ mem \in Nat
           /\ PagesOf(size) \in Nat /\ va <= PagesOf(size) /\ PagesOf(size) <= Pages
           /\ va * PGSIZE < size <=> va < PagesOf(size)
           /\ Mapped(i, va)
<1>1. Pages * PGSIZE \in Nat
  BY Sizes
<1>2. /\ i \in Plugin /\ size \in Nat /\ va \in Nat /\ mem \in Nat /\ size <= Pages * PGSIZE
      /\ va <= PagesOf(size) /\ Mapped(i, va)
  BY <1>1 DEF MemoryInv, FramesExclusive, TypeOK, PageInv
<1>3. PagesOf(size) \in Nat /\ (va * PGSIZE < size <=> va < PagesOf(size))
  BY <1>2, PagesBound, PageBelow
<1>4. PagesOf(size) <= Pages
  <2>1. PagesOf(size) <= PagesOf(Pages * PGSIZE)
    BY <1>1, <1>2, PagesMonotone
  <2>2. PagesOf(Pages * PGSIZE) = Pages
    BY Sizes, PagesOfWhole
  <2> QED BY <2>1, <2>2
<1> QED BY <1>2, <1>3, <1>4

\* A table for the next pages comes from frames that are not reserved.
LEMMA TableMemory ==
    ASSUME MemoryInv, page_walk_return_pte
    PROVE  MemoryInv'
<1>1. /\ phase = "map_pages" /\ phase' = phase /\ va * PGSIZE < size
      /\ memblock_alloc_kernel(1)
      /\ tables' = [tables EXCEPT ![i] = @ \cup {va \div NPTE}]
      /\ UNCHANGED <<files, pte, i, pluginSector, program, todo, seg, size, va, mem, tcbIPCBuffer>>
  BY DEF page_walk_return_pte, world, scan, uvm
<1>2. i \in Plugin /\ va \in Nat /\ va < Pages
  BY <1>1, MappingFacts, Sizes
<1>3. va \div NPTE \in 0 .. (Pages - 1)
  <2>1. va \div NPTE \in Nat /\ NPTE * (va \div NPTE) <= va
    BY <1>2, Sizes, Division
  <2>2. ASSUME NEW x \in Nat, NEW n \in Nat \ {0} PROVE x <= n * x
    OBVIOUS
  <2>3. va \div NPTE <= NPTE * (va \div NPTE) /\ NPTE * (va \div NPTE) \in Nat
    BY <2>1, <2>2, Sizes
  <2> QED BY <1>2, <2>1, <2>3, Sizes
<1>4. TypeOK'
  <2>1. free' \subseteq Frames /\ kernel' \subseteq Frames
    BY <1>1, KernelTakes DEF MemoryInv, FramesExclusive, TypeOK
  <2>2. tables' \in [Plugin -> SUBSET (0 .. (Pages - 1))]
    BY <1>1, <1>2, <1>3 DEF MemoryInv, FramesExclusive, TypeOK
  <2> QED BY <1>1, <1>2, <2>1, <2>2 DEF MemoryInv, FramesExclusive, TypeOK
<1>5. FramesExclusive'
  BY <1>1, <1>4, KernelTakes, FramesKeep
<1>6. PageInv'
  BY <1>1, PageKeeps
<1>7. ReservedInv'
  <2>1. Reserved' = Reserved
    BY <1>1 DEF Reserved
  <2>2. free' \cup kernel' = free \cup kernel
    BY <1>1, KernelTakes
  <2> QED BY <1>1, <2>1, <2>2 DEF MemoryInv, ReservedInv
<1>8. IpcBufferMapped'
  BY <1>1 DEF MemoryInv, IpcBufferMapped
<1> QED BY <1>1, <1>5, <1>6, <1>7, <1>8 DEF MemoryInv, LoaderNeverFaults

\* The next reserved frame goes behind the next page, which has none.
LEMMA MapMemory ==
    ASSUME MemoryInv, map_pages
    PROVE  MemoryInv'
<1>1. phase = "map_pages" /\ va * PGSIZE < size
      /\ UNCHANGED <<files, free, kernel, tables, i, pluginSector, program, todo, seg, size,
                     tcbIPCBuffer>>
  BY DEF map_pages, world, memory, scan
<1>2. /\ i \in Plugin /\ size \in Nat /\ va \in Nat /\ mem \in Nat
      /\ PagesOf(size) \in Nat /\ va < PagesOf(size) /\ PagesOf(size) <= Pages
      /\ Mapped(i, va)
  BY <1>1, MappingFacts
<1>3. va \in 0 .. (Pages - 1) /\ va + 1 \in 0 .. Pages
  BY <1>2, Sizes
<1>4. pte[i][va] = 0
  BY <1>2, <1>3 DEF Mapped
<1>5. /\ pte' = [pte EXCEPT ![i][va] = mem] /\ va' = va + 1 /\ mem' = mem + 1 /\ phase' = phase
  BY <1>4 DEF map_pages
<1>6. Reserved = mem .. (mem + (PagesOf(size) - va) - 1)
  BY <1>1 DEF Reserved
<1>7. mem \in Reserved
  BY <1>2, <1>6
<1>8. /\ mem \in Frames /\ mem \notin free \cup kernel
      /\ \A p \in Plugin, qg \in 0 .. (Pages - 1) : pte[p][qg] # mem
  BY <1>7 DEF MemoryInv, ReservedInv
<1>9. TypeOK'
  <2>1. pte' \in [Plugin -> [0 .. (Pages - 1) -> Frames \cup {0}]]
    BY <1>2, <1>3, <1>5, <1>8 DEF MemoryInv, FramesExclusive, TypeOK
  <2>2. va' \in 0 .. Pages /\ mem' \in Nat
    BY <1>2, <1>3, <1>5
  <2> QED BY <1>1, <1>2, <1>5, <2>1, <2>2 DEF MemoryInv, FramesExclusive, TypeOK
<1>10. /\ FramesExclusive'
       /\ mem # 0 /\ pte'[i][va] = mem
       /\ \A p \in Plugin, qg \in 0 .. (Pages - 1) : p # i \/ qg # va => pte'[p][qg] = pte[p][qg]
  <2>1. /\ i \in Plugin /\ va \in 0 .. (Pages - 1) /\ mem \in Frames
        /\ pte[i][va] = 0 /\ pte' = [pte EXCEPT ![i][va] = mem]
        /\ free' \subseteq free /\ kernel' = kernel /\ mem \notin free' \cup kernel'
    BY <1>1, <1>2, <1>3, <1>4, <1>5, <1>8
  <2>2. \A p \in Plugin, qg \in 0 .. (Pages - 1) : pte[p][qg] # mem
    BY <1>8
  <2> QED BY <1>9, <2>1, <2>2, MapFrame
<1>11. PageInv'
  <2>1. Mapped(i, va)'
    <3>1. \A pg \in 0 .. (Pages - 1) : pg < va + 1 <=> pg = va \/ pg < va
      BY <1>2, Sizes
    <3>2. \A pg \in 0 .. (Pages - 1) : pg = va => ~(pg < va)
      BY <1>2
    <3>3. \A pg \in 0 .. (Pages - 1) : pte'[i][pg] # 0 <=> pg = va \/ pg < va
      BY <1>2, <1>3, <1>10 DEF Mapped
    <3> QED BY <1>1, <1>5, <3>1, <3>3 DEF Mapped
  <2>2. va' <= PagesOf(size')
    BY <1>1, <1>2, <1>5
  <2>3. \A p \in Plugin : p > i' => Mapped(p, 0)'
    <3> SUFFICES ASSUME NEW p \in Plugin, p > i PROVE Mapped(p, 0)'
      BY <1>1
    <3>1. p # i
      BY <1>2, Sizes DEF Plugin
    <3>2. Mapped(p, 0)
      BY DEF MemoryInv, PageInv
    <3> QED BY <1>10, <3>1, <3>2 DEF Mapped
  <2>4. segs' = segs
    BY <1>1 DEF segs
  <2> QED BY <1>1, <1>5, <2>1, <2>2, <2>3, <2>4 DEF MemoryInv, PageInv, Filling
<1>12. ReservedInv'
  <2>1. Reserved' = (mem + 1) .. (mem + 1 + (PagesOf(size) - (va + 1)) - 1)
    BY <1>1, <1>5 DEF Reserved
  <2>2. Reserved' \subseteq Reserved /\ mem \notin Reserved'
    BY <1>2, <1>6, <2>1
  <2>3. \A p \in Plugin, pg \in 0 .. (Pages - 1) : pte'[p][pg] \in {pte[p][pg], mem}
    BY <1>10
  <2> QED BY <1>1, <2>2, <2>3 DEF MemoryInv, ReservedInv
<1>13. IpcBufferMapped'
  <2>1. \A p \in Plugin : p < i => p # i
    BY <1>2, Sizes DEF Plugin
  <2>2. IPCPage \in 0 .. (Pages - 1)
    BY Sizes
  <2> QED BY <1>1, <1>10, <2>1, <2>2 DEF MemoryInv, IpcBufferMapped
<1> QED BY <1>1, <1>5, <1>10, <1>11, <1>12, <1>13 DEF MemoryInv, LoaderNeverFaults

LEMMA MappedMemory ==
    ASSUME MemoryInv, map_pages_done
    PROVE  MemoryInv'
<1>1. /\ phase = "map_pages" /\ phase' = "copy_uvm" /\ va * PGSIZE >= size
      /\ UNCHANGED <<files, free, kernel, pte, tables, i, pluginSector, program, todo, seg, size,
                     va, mem, tcbIPCBuffer>>
  BY DEF map_pages_done, world, memory, spaces, scan, uvm
<1>2. i \in Plugin /\ va = PagesOf(size) /\ Mapped(i, va)
  <2>1. va * PGSIZE \in Int /\ size \in Nat
    BY <1>1, MappingFacts, Sizes
  <2>2. ~(va * PGSIZE < size)
    BY <1>1, <2>1
  <2> QED BY <1>1, <2>2, MappingFacts
<1>3. TypeOK'
  BY <1>1, <1>2 DEF MemoryInv, FramesExclusive, TypeOK
<1>4. FramesExclusive'
  <2>1. free \cap kernel = {}
    BY DEF MemoryInv, FramesExclusive
  <2> QED BY <1>1, <1>3, <2>1, FramesKeep
<1>5. PageInv'
  BY <1>1, <1>2 DEF MemoryInv, PageInv, Mapped, Filling, segs
<1>6. ReservedInv' /\ IpcBufferMapped'
  BY <1>1 DEF MemoryInv, ReservedInv, Reserved, IpcBufferMapped
<1> QED BY <1>1, <1>4, <1>5, <1>6 DEF MemoryInv, LoaderNeverFaults
\* All pages that copy_uvm() writes have a frame, and so has the IPC buffer once
\* the stack is there.
LEMMA CopyFacts ==
    ASSUME MemoryInv, phase = "copy_uvm"
    PROVE  /\ i \in Plugin /\ seg \in Nat /\ Len(segs) \in Nat
           /\ \A pg \in copy_pages : page_walk(pg) # 0
           /\ seg = Len(segs) => pte[i][IPCPage] # 0
<1>1. /\ i \in Plugin /\ program[i] \in DOMAIN files /\ Mapped(i, PagesOf(size))
      /\ seg \in 0 .. Len(segs)
      /\ IF seg < Len(segs) THEN segs[seg + 1].vaddr + segs[seg + 1].memsz <= size
         ELSE \E n \in 3 .. Pages : size = n * PGSIZE
  BY DEF MemoryInv, FramesExclusive, TypeOK, PageInv, Filling
<1>2. size \in Nat
  <2>1. Pages * PGSIZE \in Int
    BY Sizes
  <2> QED BY <2>1 DEF MemoryInv, FramesExclusive, TypeOK
<1>3. Len(segs) \in Nat /\ seg \in Nat /\ (seg < Len(segs) \/ seg = Len(segs))
  BY <1>1, SegFacts
<1>4. ASSUME seg < Len(segs), NEW pg \in copy_pages PROVE page_walk(pg) # 0
  <2>1. /\ pg \in 0 .. (Pages - 1)
        /\ pg * PGSIZE < segs[seg + 1].vaddr + segs[seg + 1].memsz
    BY <1>4 DEF copy_pages
  <2>2. segs[seg + 1].vaddr + segs[seg + 1].memsz \in Nat
    BY <1>1, <1>3, <1>4, SegFacts
  <2>3. pg \in Nat /\ pg * PGSIZE \in Int
    BY <2>1, Sizes
  <2>4. pg * PGSIZE < size
    BY <1>1, <1>2, <1>4, <2>1, <2>2, <2>3
  <2>5. pg < PagesOf(size)
    BY <1>2, <2>3, <2>4, PageBelow
  <2> QED BY <1>1, <2>1, <2>5 DEF Mapped, page_walk
<1>5. ASSUME seg = Len(segs), NEW pg \in copy_pages
      PROVE  page_walk(pg) # 0 /\ pte[i][IPCPage] # 0
  <2>1. ~(seg < Len(segs))
    BY <1>3, <1>5
  <2>2. PICK n \in 3 .. Pages : size = n * PGSIZE
    BY <1>1, <2>1
  <2>3. PagesOf(size) = n /\ n \in Nat
    BY <2>2, PagesOfWhole, Sizes
  <2>4. size \div PGSIZE = n
    <3>1. ASSUME NEW q \in Nat, NEW m \in Nat \ {0} PROVE (q * m) \div m = q
      OBVIOUS
    <3> QED BY <2>2, <2>3, <3>1, Sizes
  <2>5. pg = n - 1
    BY <2>1, <2>4 DEF copy_pages
  <2>6. pg \in 0 .. (Pages - 1) /\ pg < n /\ IPCPage \in 0 .. (Pages - 1) /\ IPCPage < n
    BY <2>2, <2>5, Sizes
  <2> QED BY <1>1, <2>3, <2>6 DEF Mapped, page_walk
<1>6. seg = Len(segs) => copy_pages # {}
  BY <1>3 DEF copy_pages
<1> QED BY <1>1, <1>3, <1>4, <1>5, <1>6

LEMMA CopyMemory ==
    ASSUME MemoryInv, copy_uvm
    PROVE  MemoryInv'
<1>1. /\ phase = "copy_uvm"
      /\ UNCHANGED <<files, free, kernel, pte, tables, pluginSector, program, todo, size, va, mem>>
  BY DEF copy_uvm, world, memory, spaces, scan, uvm
<1>2. /\ i \in Plugin /\ seg \in Nat /\ Len(segs) \in Nat
      /\ \A pg \in copy_pages : page_walk(pg) # 0
      /\ seg = Len(segs) => pte[i][IPCPage] # 0
  BY <1>1, CopyFacts
<1>3. \/ /\ seg < Len(segs) /\ seg' = seg + 1 /\ phase' = "alloc_uvm"
         /\ UNCHANGED <<i, tcbIPCBuffer>>
      \/ seg = Len(segs) /\ finish_plugin
  BY <1>2 DEF copy_uvm, next_header
<1>4. free \cap kernel = {}
  BY DEF MemoryInv, FramesExclusive
<1>5. CASE /\ seg < Len(segs) /\ seg' = seg + 1 /\ phase' = "alloc_uvm"
           /\ UNCHANGED <<i, tcbIPCBuffer>>
  <2>1. TypeOK'
    BY <1>1, <1>2, <1>5 DEF MemoryInv, FramesExclusive, TypeOK
  <2>2. FramesExclusive'
    BY <1>1, <1>4, <2>1, FramesKeep
  <2>3. segs' = segs
    BY <1>1, <1>5 DEF segs
  <2>4. seg' \in 0 .. Len(segs')
    BY <1>2, <1>5, <2>3
  <2>5. PageInv'
    BY <1>1, <1>5, <2>4 DEF MemoryInv, PageInv, Mapped, Filling
  <2>6. ReservedInv' /\ IpcBufferMapped'
    BY <1>1, <1>5 DEF MemoryInv, ReservedInv, Reserved, IpcBufferMapped
  <2> QED BY <1>5, <2>2, <2>5, <2>6 DEF MemoryInv, LoaderNeverFaults
<1>6. CASE seg = Len(segs) /\ finish_plugin
  <2>1. /\ tcbIPCBuffer' = [tcbIPCBuffer EXCEPT ![i] = pte[i][IPCPage]]
        /\ i' = i + 1 /\ seg' = seg
        /\ phase' = IF i + 1 <= pluginNum THEN "alloc_proc" ELSE "run"
    BY <1>6 DEF finish_plugin, next_plugin, page_walk_for_others
  <2>2. /\ i \in Int /\ i \in 1 .. pluginNum
        /\ phase' = "alloc_proc" => i' \in Plugin
        /\ i' \in 1 .. (pluginNum + 1)
    BY <1>2, <2>1, Sizes DEF Plugin
  <2>3. IPCPage \in 0 .. (Pages - 1)
    BY Sizes
  <2>4. pte[i][IPCPage] \in Frames \cup {0}
    <3>1. pte \in [Plugin -> [0 .. (Pages - 1) -> Frames \cup {0}]]
      BY DEF MemoryInv, FramesExclusive, TypeOK
    <3>2. pte[i] \in [0 .. (Pages - 1) -> Frames \cup {0}]
      BY <1>2, <3>1
    <3> QED BY <2>3, <3>2
  <2>5. /\ tcbIPCBuffer \in [Plugin -> Frames \cup {0}]
        /\ tcbIPCBuffer' \in [Plugin -> Frames \cup {0}]
    BY <1>2, <2>1, <2>4 DEF MemoryInv, FramesExclusive, TypeOK
  <2>6. phase' \in {"alloc_proc", "run"}
    BY <2>1
  <2>7. TypeOK'
    BY <1>1, <1>2, <2>1, <2>2, <2>5, <2>6 DEF MemoryInv, FramesExclusive, TypeOK
  <2>8. FramesExclusive'
    BY <1>1, <1>4, <2>7, FramesKeep
  <2>9. PageInv'
    <3>1. \A p \in Plugin : p > i + 1 => p > i
      BY <2>2, Sizes DEF Plugin
    <3>2. i + 1 > i
      BY <2>2
    <3>3. \A p \in Plugin : p > i => Mapped(p, 0)
      BY DEF MemoryInv, PageInv
    <3>4. \A p \in Plugin : p > i' => Mapped(p, 0)'
      BY <1>1, <2>1, <3>1, <3>3 DEF Mapped
    <3>5. phase' = "alloc_proc" => Mapped(i, 0)'
      BY <1>1, <2>1, <2>2, <3>2, <3>3 DEF Mapped
    <3> QED BY <2>6, <3>4, <3>5 DEF PageInv, Filling
  <2>10. ReservedInv'
    BY <2>6 DEF ReservedInv, Reserved
  <2>11. IpcBufferMapped'
    <3> SUFFICES ASSUME NEW p \in Plugin, p < i'
                 PROVE  tcbIPCBuffer'[p] # 0 /\ tcbIPCBuffer'[p] = pte[p][IPCPage]
      BY <1>1 DEF IpcBufferMapped
    <3>1. p = i \/ p < i
      BY <2>1, <2>2, Sizes DEF Plugin
    <3>2. CASE p = i
      BY <1>2, <1>6, <2>1, <2>5, <3>2
    <3>3. CASE p # i
      BY <2>1, <2>5, <3>1, <3>3 DEF MemoryInv, IpcBufferMapped
    <3> QED BY <3>2, <3>3
  <2> QED BY <2>6, <2>8, <2>9, <2>10, <2>11 DEF MemoryInv, LoaderNeverFaults
<1> QED BY <1>3, <1>5, <1>6

\* A step that only stops, or nothing at all.
LEMMA StopMemory ==
    ASSUME MemoryInv, alloc_fault \/ ended \/ UNCHANGED vars
    PROVE  MemoryInv'
<1>1. /\ UNCHANGED <<files, free, kernel, pte, tables, i, pluginSector, program, todo, seg, size,
                     va, mem, tcbIPCBuffer>>
      /\ phase' \in {phase, "alloc_fault"}
  BY DEF alloc_fault, ended, vars, world, memory, spaces, scan, uvm
<1>2. phase' # phase => i \in Plugin
  <2>1. phase # "run" \/ phase' = phase
    BY DEF alloc_fault, ended, vars, Wanted
  <2>2. phase = "buffer" => i = 1 /\ 1 \in Plugin
    BY Sizes DEF MemoryInv, PageInv, Plugin
  <2> QED BY <2>1, <2>2 DEF MemoryInv, FramesExclusive, TypeOK
<1>3. TypeOK'
  BY <1>1, <1>2 DEF MemoryInv, FramesExclusive, TypeOK, Stopped
<1>4. FramesExclusive'
  <2>1. free \cap kernel = {}
    BY DEF MemoryInv, FramesExclusive
  <2> QED BY <1>1, <1>3, <2>1, FramesKeep
<1>5. PageInv'
  <2>1. CASE phase' = phase
    BY <1>1, <2>1, PageKeeps
  <2>2. CASE phase' = "alloc_fault"
    BY <1>1, <2>2 DEF MemoryInv, PageInv, Mapped, Filling
  <2> QED BY <1>1, <2>1, <2>2
<1>6. ReservedInv' /\ IpcBufferMapped' /\ LoaderNeverFaults'
  BY <1>1 DEF MemoryInv, ReservedInv, Reserved, IpcBufferMapped, LoaderNeverFaults
<1> QED BY <1>4, <1>5, <1>6 DEF MemoryInv

LEMMA NextMemory == MemoryInv /\ ScanInv /\ [Next]_vars => MemoryInv'
BY KernelFrames, ReadElfMemory, FirstPage, InsideMemory, GrowMemory, TableMemory, MapMemory,
   MappedMemory, CopyMemory, StopMemory DEF Next, Load

LEMMA LoaderInvariant == Spec => [](MemoryInv /\ ScanInv)
<1>1. Init => MemoryInv /\ ScanInv
  BY InitMemory, InitScan
<1>2. MemoryInv /\ ScanInv /\ [Next]_vars => (MemoryInv /\ ScanInv)'
  BY NextMemory, NextScan
<1> QED BY <1>1, <1>2, PTL DEF Spec

----------------------------------------------------------------------------
(* The results *)

\* alloc_uvm(), setup_user_memory_pages() and the page tables never give a frame to
\* two pages, two plugins or a plugin and the kernel.
THEOREM LoaderIsolates == Spec => []FramesExclusive
BY LoaderInvariant, PTL DEF MemoryInv

\* map_pages() never meets a mapped page and copy_uvm() never one without a frame.
THEOREM LoaderFaultFree == Spec => []LoaderNeverFaults
BY LoaderInvariant, PTL DEF MemoryInv

\* tcbIPCBuffer is the frame behind the plugin's IPC buffer, and there is one.
THEOREM LoaderIpcBuffers == Spec => []IpcBufferMapped
BY LoaderInvariant, PTL DEF MemoryInv

\* The search of load_plugin() for ELF headers gives plugin p the p-th file.
THEOREM LoaderOwnProgram == Spec => []OwnProgram
BY LoaderInvariant, PTL DEF ScanInv

\* It runs off the disk or over the end of the buffer only where the files say so.
THEOREM LoaderScanStops == Spec => []ScanStops
BY LoaderInvariant, PTL DEF ScanInv
=============================================================================
