----------------------------- MODULE LogProofs -----------------------------
(***************************************************************************)
(* Proofs about the log, for every set of sectors, every kind of block and *)
(* every size of the log: it holds exactly what was written since the last *)
(* commit, and it implements AtomicDisk, so a transaction survives a crash *)
(* as a whole or not at all.                                               *)
(***************************************************************************)
EXTENDS Log, FiniteSetTheorems, TLAPS

\* Injectivity as the provers use it.
Distinct(head) == \A i, j \in 1 .. Len(head) : head[i] = head[j] => i = j

\* While blocks are copied home the header in memory is the one on disk, and
\* what is behind the tail is home already.
InstallInv ==
    pc = "install" =>
        /\ logHeader = diskHead
        /\ tail <= n + 1
        /\ \A i \in 1 .. (tail - 1) : home[logHeader[i]] = logBlock[i]

LogInv == /\ TypeOK
          /\ Len(diskHead) <= LOGSIZE
          /\ Distinct(logHeader)
          /\ Distinct(diskHead)
          /\ HeadClearWhileRunning
          /\ InstallInv

----------------------------------------------------------------------------
(* Headers *)

\* A sector with an entry in the header reads as its log block.
LEMMA OverlayHit ==
    ASSUME NEW h, NEW l, NEW head \in Seq(Sector), Distinct(head),
           NEW i \in 1 .. Len(head)
    PROVE  Overlay(h, l, head)[head[i]] = l[i]
<1>1. head[i] \in Sector /\ DOMAIN head = 1 .. Len(head)
  OBVIOUS
<1>2. (CHOOSE j \in DOMAIN head : head[j] = head[i]) = i
  BY <1>1 DEF Distinct
<1> QED BY <1>1, <1>2 DEF Overlay

\* A sector without one reads as its home block.
LEMMA OverlayMiss ==
    ASSUME NEW h, NEW l, NEW head \in Seq(Sector), NEW s \in Sector,
           \A i \in 1 .. Len(head) : head[i] # s
    PROVE  Overlay(h, l, head)[s] = h[s]
<1>1. DOMAIN head = 1 .. Len(head)
  OBVIOUS
<1> QED BY <1>1 DEF Overlay

LEMMA EmptyHead == <<>> \in Seq(Sector) /\ Len(<<>>) = 0 /\ Distinct(<<>>)
<1>1. <<>> \in Seq(Sector) /\ Len(<<>>) = 0
  OBVIOUS
<1> QED BY <1>1 DEF Distinct

\* An empty header changes nothing.
LEMMA OverlayEmpty ==
    ASSUME NEW h \in [Sector -> Data], NEW l
    PROVE  Overlay(h, l, <<>>) = h
BY DEF Overlay

\* The entry log_write() uses: the sector's own, or the next unused one.
LEMMA LogIndexFact ==
    ASSUME logHeader \in Seq(Sector), NEW s \in Sector
    PROVE  \/ LogIndex(s) \in 1..n /\ logHeader[LogIndex(s)] = s
           \/ LogIndex(s) = n + 1 /\ \A i \in 1..n : logHeader[i] # s
BY DEF LogIndex, n

\* Overlay is a function on the sectors.
LEMMA OverlayDomain ==
    ASSUME NEW h, NEW l, NEW head
    PROVE  Overlay(h, l, head) = [s \in Sector |-> Overlay(h, l, head)[s]]
BY DEF Overlay

----------------------------------------------------------------------------
(* The invariant *)

LEMMA LogInvInit == Init => LogInv
<1> SUFFICES ASSUME Init PROVE LogInv
  OBVIOUS
<1>1. TypeOK
  <2>1. logHeader \in Seq(Sector) /\ n = 0 /\ diskHead \in Seq(Sector) /\ Len(diskHead) = 0
    BY EmptyHead DEF Init, n
  <2>2. Len(diskHead) <= nlog - 1 /\ n <= nlog - 1 /\ n <= LOGSIZE
    BY <2>1, LogAssumption
  <2>3. tail \in 1 .. nlog
    BY LogAssumption DEF Init
  <2> QED BY <2>1, <2>2, <2>3 DEF Init, TypeOK
<1>2. Len(diskHead) <= LOGSIZE
  BY EmptyHead, LogAssumption DEF Init
<1>3. Distinct(logHeader) /\ Distinct(diskHead)
  BY EmptyHead DEF Init
<1> QED BY <1>1, <1>2, <1>3 DEF Init, LogInv, HeadClearWhileRunning, InstallInv

LEMMA LogInvNext == LogInv /\ [Next]_vars => LogInv'
<1> SUFFICES ASSUME LogInv, [Next]_vars
             PROVE  LogInv'
  OBVIOUS
<1> USE LogAssumption
<1>1. CASE read_head
  BY <1>1 DEF read_head, disk, LogInv, TypeOK, Distinct, HeadClearWhileRunning, InstallInv, n
<1>2. CASE install_trans
  <2>1. TypeOK'
    BY <1>2 DEF install_trans, LogInv, TypeOK, InstallInv, n
  <2>2. InstallInv'
    BY <1>2 DEF install_trans, LogInv, TypeOK, Distinct, InstallInv, n
  <2> QED BY <1>2, <2>1, <2>2 DEF install_trans, LogInv, Distinct, HeadClearWhileRunning
<1>3. CASE clear_log
  <2>1. TypeOK'
    <3>1. /\ logHeader' \in Seq(Sector) /\ n' = 0
          /\ diskHead' \in Seq(Sector) /\ Len(diskHead') = 0
      BY <1>3, EmptyHead DEF clear_log, n
    <3>2. Len(diskHead') <= nlog - 1 /\ n' <= nlog - 1 /\ n' <= LOGSIZE
      BY <3>1
    <3> QED BY <1>3, <3>1, <3>2 DEF clear_log, LogInv, TypeOK
  <2>2. Len(diskHead') <= LOGSIZE /\ Distinct(logHeader') /\ Distinct(diskHead')
    BY <1>3, EmptyHead DEF clear_log
  <2> QED BY <1>3, <2>1, <2>2 DEF clear_log, LogInv, Distinct, HeadClearWhileRunning, InstallInv
<1>4. CASE begin_trans
  BY <1>4 DEF begin_trans, disk, LogInv, TypeOK, Distinct, HeadClearWhileRunning, InstallInv, n
<1>5. ASSUME NEW s \in Sector, NEW v \in Data, log_write(s, v)
      PROVE  LogInv'
  <2>1. CASE ~HasRoom(LogIndex(s))
    BY <1>5, <2>1 DEF log_write, LogInv, TypeOK, Distinct, HeadClearWhileRunning, InstallInv, n
  <2>2. CASE HasRoom(LogIndex(s))
    <3>1. pc = "run" /\ pc' = "run"
      BY <1>5, <2>2 DEF log_write
    <3>2. LogIndex(s) \in 1 .. (n + 1)
      BY LogIndexFact DEF LogInv, TypeOK, n
    <3>3. logBlock' \in [1 .. (nlog - 1) -> Data]
      BY <1>5, <2>2 DEF log_write, LogInv, TypeOK
    <3>4. CASE LogIndex(s) = n + 1
      <4>1. logHeader' = Append(logHeader, s) /\ \A i \in 1..n : logHeader[i] # s
        BY <1>5, <2>2, <3>4, LogIndexFact DEF log_write, LogInv, TypeOK, n
      <4>2. /\ logHeader' \in Seq(Sector) /\ Len(logHeader') = n + 1
            /\ n + 1 <= LOGSIZE /\ n + 1 <= nlog - 1
        BY <2>2, <3>4, <4>1 DEF HasRoom, LogInv, TypeOK, n
      <4>3. Distinct(logHeader')
        BY <4>1, <4>2 DEF LogInv, TypeOK, Distinct, n
      <4> QED BY <1>5, <2>2, <3>1, <3>3, <4>2, <4>3
              DEF log_write, LogInv, TypeOK, Distinct, HeadClearWhileRunning, InstallInv, n
    <3>5. CASE LogIndex(s) # n + 1
      <4>1. logHeader' = logHeader
        BY <1>5, <2>2, <3>5 DEF log_write
      <4> QED BY <1>5, <2>2, <3>1, <3>3, <4>1
              DEF log_write, LogInv, TypeOK, Distinct, HeadClearWhileRunning, InstallInv, n
    <3> QED BY <3>4, <3>5
  <2> QED BY <2>1, <2>2
<1>6. CASE commit_empty
  <2>1. TypeOK'
    BY <1>6 DEF commit_empty, disk, LogInv, TypeOK, n
  <2> QED BY <1>6, <2>1
          DEF commit_empty, disk, LogInv, Distinct, HeadClearWhileRunning, InstallInv
<1>7. CASE commit_trans
  <2>1. TypeOK'
    BY <1>7 DEF commit_trans, LogInv, TypeOK, n
  <2>2. Len(diskHead') <= LOGSIZE /\ Distinct(logHeader') /\ Distinct(diskHead')
    BY <1>7 DEF commit_trans, LogInv, TypeOK, n
  <2>3. InstallInv'
    BY <1>7 DEF commit_trans, LogInv, TypeOK, InstallInv, n
  <2> QED BY <1>7, <2>1, <2>2, <2>3 DEF commit_trans, LogInv, Distinct, HeadClearWhileRunning
<1>8. CASE crash
  <2>1. TypeOK'
    <3>1. logHeader' \in Seq(Sector) /\ n' = 0
      BY <1>8, EmptyHead DEF crash, n
    <3>2. n' <= nlog - 1 /\ n' <= LOGSIZE /\ tail' \in 1 .. nlog
      BY <1>8, <3>1 DEF crash
    <3> QED BY <1>8, <3>1, <3>2 DEF crash, disk, LogInv, TypeOK
  <2>2. Distinct(logHeader')
    BY <1>8, EmptyHead DEF crash
  <2> QED BY <1>8, <2>1, <2>2
          DEF crash, disk, LogInv, Distinct, HeadClearWhileRunning, InstallInv
<1>9. CASE UNCHANGED vars
  BY <1>9 DEF vars, LogInv, TypeOK, Distinct, HeadClearWhileRunning, InstallInv, n
<1> QED BY <1>1, <1>2, <1>3, <1>4, <1>5, <1>6, <1>7, <1>8, <1>9 DEF Next

\* The inductive invariant holds in every reachable state.
THEOREM LogInvariant == Spec => []LogInv
BY LogInvInit, LogInvNext, PTL DEF Spec

\* The headers name sectors of the file system and their blocks lie in the log area.
THEOREM LogTypeCorrect == Spec => []TypeOK
<1>1. LogInv => TypeOK
  BY DEF LogInv
<1> QED BY <1>1, LogInvariant, PTL

\* A header never names a sector twice.
THEOREM LogEntriesDistinct == Spec => []OneEntryPerSector
<1>1. LogInv => OneEntryPerSector
  BY SMTT(30) DEF LogInv, TypeOK, Distinct, OneEntryPerSector, IsInjective
<1> QED BY <1>1, LogInvariant, PTL

\* The header on disk is empty whenever no log function executes.
THEOREM LogHeadClear == Spec => []HeadClearWhileRunning
<1>1. LogInv => HeadClearWhileRunning
  BY DEF LogInv
<1> QED BY <1>1, LogInvariant, PTL

----------------------------------------------------------------------------
(* What the log holds *)

\* A header names as many sectors as it has entries.
LEMMA HeadCount ==
    ASSUME NEW head \in Seq(Sector), Distinct(head)
    PROVE  IsFiniteSet(Range(head)) /\ Cardinality(Range(head)) = Len(head)
<1>1. Len(head) \in Nat /\ DOMAIN head = 1 .. Len(head)
  OBVIOUS
<1>2. head \in [1 .. Len(head) -> Range(head)]
  BY <1>1 DEF Range
<1>3. IsInjective(head)
  BY <1>1 DEF Distinct, IsInjective
<1>4. \A t \in Range(head) : \E i \in 1 .. Len(head) : head[i] = t
  BY <1>1 DEF Range
<1>5. ExistsBijection(1 .. Len(head), Range(head))
  BY <1>2, <1>3, <1>4, Zenon DEF ExistsBijection, Bijection, Injection, Surjection
<1> QED BY <1>1, <1>5, FS_NatBijection, FS_CountingElements

\* A sector is added to the header once, and a sector without room is one more than
\* the header has.
LEMMA WriteHolds ==
    ASSUME LogInv, LogHoldsTransaction, NEW s \in Sector, NEW v \in Data, log_write(s, v)
    PROVE  LogHoldsTransaction'
<1>1. /\ logHeader \in Seq(Sector) /\ Distinct(logHeader) /\ n \in Nat /\ n = Len(logHeader)
      /\ n <= nlog - 1 /\ n <= LOGSIZE
  BY DEF LogInv, TypeOK, n
<1>2. Range(logHeader) = written /\ written' = written \cup {s} /\ pc = "run"
  BY DEF LogHoldsTransaction, log_write
<1>3. CASE HasRoom(LogIndex(s))
  <2>1. pc' = "run"
    BY <1>2, <1>3 DEF log_write
  <2>2. CASE LogIndex(s) = n + 1
    <3>1. logHeader' = Append(logHeader, s)
      BY <1>3, <2>2 DEF log_write
    <3>2. Range(logHeader') = Range(logHeader) \cup {s}
      BY <1>1, <3>1 DEF Range
    <3> QED BY <1>2, <2>1, <3>2 DEF LogHoldsTransaction
  <2>3. CASE LogIndex(s) # n + 1
    <3>1. logHeader' = logHeader /\ LogIndex(s) \in 1..n /\ logHeader[LogIndex(s)] = s
      BY <1>1, <1>3, <2>3, LogIndexFact DEF log_write
    <3>2. s \in Range(logHeader)
      BY <1>1, <3>1 DEF Range
    <3> QED BY <1>2, <2>1, <3>1, <3>2 DEF LogHoldsTransaction
  <2> QED BY <2>2, <2>3
<1>4. CASE ~HasRoom(LogIndex(s))
  <2>1. LogIndex(s) = n + 1 /\ \A i \in 1..n : logHeader[i] # s
    BY <1>1, <1>4, LogIndexFact, LogAssumption DEF HasRoom
  <2>2. s \notin Range(logHeader)
    BY <1>1, <2>1 DEF Range
  <2>3. IsFiniteSet(written) /\ Cardinality(written) = n
    BY <1>1, <1>2, HeadCount
  <2>4. Cardinality(written') = n + 1
    BY <1>2, <2>2, <2>3, FS_AddElement
  <2>5. ~HasRoom(Cardinality(written'))
    BY <1>4, <2>1, <2>4
  <2>6. pc' = "wild"
    BY <1>4 DEF log_write
  <2> QED BY <2>5, <2>6 DEF LogHoldsTransaction, HasRoom
<1> QED BY <1>3, <1>4

LEMMA HoldsNext == LogInv /\ LogHoldsTransaction /\ [Next]_vars => LogHoldsTransaction'
<1> SUFFICES ASSUME LogInv, LogHoldsTransaction, [Next]_vars
             PROVE  LogHoldsTransaction'
  OBVIOUS
<1> USE DEF LogHoldsTransaction, HasRoom
<1>1. CASE read_head \/ install_trans \/ commit_trans \/ crash
  BY <1>1 DEF read_head, install_trans, commit_trans, crash
<1>2. CASE clear_log
  <2>1. Range(logHeader') = {}
    BY <1>2 DEF clear_log, Range
  <2> QED BY <1>2, <2>1 DEF clear_log
<1>3. CASE begin_trans \/ commit_empty
  BY <1>3 DEF begin_trans, commit_empty
<1>4. ASSUME NEW s \in Sector, NEW v \in Data, log_write(s, v)
      PROVE  LogHoldsTransaction'
  BY <1>4, WriteHolds
<1>5. CASE UNCHANGED vars
  BY <1>5 DEF vars
<1> QED BY <1>1, <1>2, <1>3, <1>4, <1>5 DEF Next

\* The header has exactly the sectors written since the last commit, for any sizes of
\* header and area: log_write() overruns them only when more different sectors than they
\* have room for were written.
THEOREM LogHolds == Spec => []LogHoldsTransaction
<1>1. Init => LogHoldsTransaction
  BY DEF Init, LogHoldsTransaction
<1> QED BY <1>1, HoldsNext, LogInvariant, PTL DEF Spec

----------------------------------------------------------------------------
(* The refinement *)

\* Copying an entry home does not change what recovery would restore.
LEMMA InstallKeepsDurable ==
    ASSUME LogInv, install_trans
    PROVE  Durable' = Durable
<1>1. /\ diskHead \in Seq(Sector) /\ Distinct(diskHead)
      /\ logHeader = diskHead /\ tail \in 1 .. Len(diskHead)
  BY DEF LogInv, TypeOK, InstallInv, install_trans, n
<1>2. ASSUME NEW s \in Sector
      PROVE  Durable'[s] = Durable[s]
  <2>1. CASE \E i \in 1 .. Len(diskHead) : diskHead[i] = s
    <3>1. PICK i \in 1 .. Len(diskHead) : diskHead[i] = s
      BY <2>1
    <3>2. Overlay(home', logBlock, diskHead)[s] = Overlay(home, logBlock, diskHead)[s]
      BY <1>1, <3>1, OverlayHit
    <3> QED BY <3>2 DEF Durable, install_trans
  <2>2. CASE \A i \in 1 .. Len(diskHead) : diskHead[i] # s
    <3>1. home'[s] = home[s]
      BY <1>1, <2>2 DEF install_trans, LogInv, TypeOK
    <3>2. Overlay(home', logBlock, diskHead)[s] = Overlay(home, logBlock, diskHead)[s]
      BY <1>1, <2>2, <3>1, OverlayMiss
    <3> QED BY <3>2 DEF Durable, install_trans
  <2> QED BY <2>1, <2>2
<1>3. Durable = [s \in Sector |-> Durable[s]] /\ Durable' = [s \in Sector |-> Durable'[s]]
  BY OverlayDomain DEF Durable
<1> QED BY <1>2, <1>3

\* When the loop has ended, everything in the header is home.
LEMMA InstalledIsDurable ==
    ASSUME LogInv, pc = "install", tail > n
    PROVE  Durable = home
<1>1. /\ diskHead \in Seq(Sector) /\ Distinct(diskHead)
      /\ \A i \in 1 .. Len(diskHead) : home[diskHead[i]] = logBlock[i]
  BY DEF LogInv, TypeOK, InstallInv, n
<1>2. ASSUME NEW s \in Sector
      PROVE  Durable[s] = home[s]
  <2>1. CASE \E i \in 1 .. Len(diskHead) : diskHead[i] = s
    <3>1. PICK i \in 1 .. Len(diskHead) : diskHead[i] = s
      BY <2>1
    <3>2. Overlay(home, logBlock, diskHead)[s] = logBlock[i]
      BY <1>1, <3>1, OverlayHit
    <3> QED BY <1>1, <3>1, <3>2 DEF Durable
  <2>2. CASE \A i \in 1 .. Len(diskHead) : diskHead[i] # s
    BY <1>1, <2>2, OverlayMiss DEF Durable
  <2> QED BY <2>1, <2>2
<1>3. Durable = [s \in Sector |-> Durable[s]] /\ home = [s \in Sector |-> home[s]]
  BY OverlayDomain DEF Durable, LogInv, TypeOK
<1> QED BY <1>2, <1>3

\* A block written to the log is a write of the transaction.
LEMMA LogWriteIsWrite ==
    ASSUME LogInv, NEW s \in Sector, NEW v \in Data,
           log_write(s, v), HasRoom(LogIndex(s))
    PROVE  Overlay(home, logBlock, logHeader)' =
               [Overlay(home, logBlock, logHeader) EXCEPT ![s] = v]
<1> DEFINE k == LogIndex(s)
           old == Overlay(home, logBlock, logHeader)
           new == Overlay(home, logBlock', logHeader')
<1>1. /\ logHeader \in Seq(Sector) /\ Distinct(logHeader)
      /\ logBlock \in [1 .. (nlog - 1) -> Data]
      /\ k \in 1 .. (nlog - 1) /\ n <= nlog - 1
  BY LogIndexFact, LogAssumption DEF LogInv, TypeOK, HasRoom, n
<1>2. logHeader' \in Seq(Sector) /\ Distinct(logHeader')
  <2>1. LogInv'
    BY LogInvNext DEF Next
  <2> QED BY <2>1 DEF LogInv, TypeOK, Distinct
<1>3. /\ k \in 1 .. Len(logHeader') /\ logHeader'[k] = s
      /\ Len(logHeader') >= n
      /\ \A i \in 1..n : logHeader'[i] = logHeader[i]
      /\ \A i \in 1 .. Len(logHeader') : i # k => i \in 1..n
  <2>1. CASE k = n + 1
    <3>1. logHeader' = Append(logHeader, s)
      BY <2>1 DEF log_write
    <3> QED BY <1>1, <2>1, <3>1 DEF n
  <2>2. CASE k # n + 1
    <3>1. logHeader' = logHeader
      BY <2>2 DEF log_write
    <3>2. k \in 1..n /\ logHeader[k] = s
      BY <1>1, <2>2, LogIndexFact
    <3> QED BY <1>1, <3>1, <3>2 DEF n
  <2> QED BY <2>1, <2>2
<1>4. logBlock' = [logBlock EXCEPT ![k] = v] /\ home' = home
  BY DEF log_write
<1>5. ASSUME NEW t \in Sector
      PROVE  new[t] = IF t = s THEN v ELSE old[t]
  <2>1. CASE t = s
    <3>1. new[logHeader'[k]] = logBlock'[k]
      BY <1>2, <1>3, OverlayHit
    <3> QED BY <1>1, <1>3, <1>4, <2>1, <3>1
  <2>2. CASE t # s /\ \E i \in 1..n : logHeader[i] = t
    <3>1. PICK i \in 1..n : logHeader[i] = t
      BY <2>2
    <3>2. i \in 1 .. Len(logHeader') /\ logHeader'[i] = t /\ i # k
      BY <1>1, <1>2, <1>3, <2>2, <3>1 DEF n
    <3>3. new[t] = logBlock'[i]
      BY <1>2, <3>2, OverlayHit
    <3>4. old[logHeader[i]] = logBlock[i]
      <4>1. i \in 1 .. Len(logHeader)
        BY DEF n
      <4>2. logHeader \in Seq(Sector) /\ Distinct(logHeader)
        BY <1>1
      <4> QED BY <4>1, <4>2, OverlayHit
    <3>5. logBlock'[i] = logBlock[i]
      BY <1>1, <1>4, <3>1, <3>2
    <3> QED BY <2>2, <3>1, <3>3, <3>4, <3>5
  <2>3. CASE t # s /\ \A i \in 1..n : logHeader[i] # t
    <3>1. \A i \in 1 .. Len(logHeader') : logHeader'[i] # t
      BY <1>3, <2>3
    <3>2. new[t] = home[t]
      BY <1>2, <3>1, OverlayMiss
    <3>3. old[t] = home[t]
      BY <1>1, <2>3, OverlayMiss DEF n
    <3> QED BY <2>3, <3>2, <3>3
  <2> QED BY <2>1, <2>2, <2>3
<1>6. new = [t \in Sector |-> new[t]] /\ old = [t \in Sector |-> old[t]]
  BY OverlayDomain
<1> HIDE DEF old, new
<1>7. new = [old EXCEPT ![s] = v]
  BY <1>5, <1>6
<1> QED BY <1>4, <1>7 DEF old, new

\* A step that leaves the disk and the header in memory alone is invisible.
LEMMA Invisible ==
    ASSUME UNCHANGED <<disk, logHeader>>,
           (pc' \in {"run", "wild"}) <=> (pc \in {"run", "wild"})
    PROVE  Durable' = Durable /\ View' = View
BY DEF Durable, View, Overlay, disk

\* Every step of the log is a step of AtomicDisk or changes nothing there.
LEMMA LogStep ==
    ASSUME LogInv, [Next]_vars
    PROVE  [Atomic!Next]_(Atomic!diskVars)
<1> USE DEF Atomic!diskVars
<1>1. CASE read_head
  <2>1. Durable' = Durable
    BY <1>1 DEF read_head, disk, Durable
  <2> QED BY <1>1, <2>1 DEF read_head, View
<1>2. CASE install_trans
  BY <1>2, InstallKeepsDurable DEF install_trans, View
<1>3. CASE clear_log
  <2>1. Durable = home /\ View = home
    BY <1>3, InstalledIsDurable DEF clear_log, View
  <2>2. Overlay(home, logBlock, <<>>) = home
    BY OverlayEmpty DEF LogInv, TypeOK
  <2>3. Durable' = home /\ View' = home
    BY <1>3, <2>2 DEF clear_log, Durable, View
  <2> QED BY <2>1, <2>3
<1>4. CASE begin_trans
  BY <1>4, Invisible DEF begin_trans
<1>5. ASSUME NEW s \in Sector, NEW v \in Data, log_write(s, v)
      PROVE  [Atomic!Next]_(Atomic!diskVars)
  <2>1. CASE ~HasRoom(LogIndex(s))
    BY <1>5, <2>1, Invisible DEF log_write, disk
  <2>2. CASE HasRoom(LogIndex(s))
    <3>1. pc = "run" /\ pc' = "run" /\ diskHead = <<>> /\ diskHead' = <<>> /\ home' = home
      BY <1>5, <2>2 DEF log_write, LogInv, HeadClearWhileRunning
    <3>2. Durable = home /\ Durable' = home
      BY <3>1, OverlayEmpty DEF LogInv, TypeOK, Durable
    <3>3. View' = [View EXCEPT ![s] = v]
      BY <1>5, <2>2, <3>1, LogWriteIsWrite DEF View
    <3> QED BY <3>2, <3>3 DEF Atomic!Next, Atomic!Write
  <2> QED BY <2>1, <2>2
<1>6. CASE commit_empty
  BY <1>6, Invisible DEF commit_empty
<1>7. CASE commit_trans
  <2>1. Durable' = View
    BY <1>7 DEF commit_trans, Durable, View
  <2>2. View' = Durable'
    BY <1>7 DEF commit_trans, View
  <2> QED BY <2>1, <2>2 DEF Atomic!Next, Atomic!Commit
<1>8. CASE crash
  <2>1. Durable' = Durable /\ View' = Durable'
    BY <1>8 DEF crash, disk, Durable, View
  <2> QED BY <2>1 DEF Atomic!Next, Atomic!Abort
<1>9. CASE UNCHANGED vars
  BY <1>9, Invisible DEF vars, disk
<1> QED BY <1>1, <1>2, <1>3, <1>4, <1>5, <1>6, <1>7, <1>8, <1>9 DEF Next

\* Crash atomicity for every disk: the log implements AtomicDisk.
THEOREM LogIsAtomic == Spec => ImplementsAtomicDisk
<1>1. Init => Atomic!Init
  <2> SUFFICES ASSUME Init PROVE Atomic!Init
    OBVIOUS
  <2>1. Durable = home /\ View = home
    BY OverlayEmpty DEF Init, Durable, View
  <2> QED BY <2>1 DEF Init, Atomic!Init
<1>2. LogInv /\ [Next]_vars => [Atomic!Next]_(Atomic!diskVars)
  BY LogStep
<1> QED BY <1>1, <1>2, LogInvariant, PTL DEF Spec, ImplementsAtomicDisk, Atomic!Spec
=============================================================================
