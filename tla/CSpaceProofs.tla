---------------------------- MODULE CSpaceProofs ----------------------------
(***************************************************************************)
(* Proofs about capability tables, for every set of pages that boot may be *)
(* given and every retype: a capability leads to the object it was made    *)
(* for, through the shifts and the masks of those who read it.             *)
(***************************************************************************)
EXTENDS CSpace, FiniteSetTheorems, WellFoundedInduction, NaturalsInduction, TLAPS

\* The pages that boot was given, and the slots in them.
Slots(P) == P \X (0 .. (NSlot - 1))
Given == {P \in PageSets : DOMAIN slot = Slots(P) /\ pages \subseteq P}

\* Which pages were given out for what: a page is taken in each of the first seven
\* steps, and a table is never where a TCB object is.
PageInv ==
    /\ step \in 0..9
    /\ Given # {}
    /\ step <= 7 => Cardinality(pages) = 7 - step
    /\ tcbObject \in [Plugin -> Nat] /\ cTable \in [Plugin -> Nat]
    /\ endpoint \in Nat
    /\ \A t \in Plugin : /\ step > t => <<tcbObject[t], 0>> \in DOMAIN slot
                         /\ step > 4 + t => <<cTable[t], 0>> \in DOMAIN slot
                         /\ step <= 4 + t => cTable[t] = 0
                         /\ tcbObject[t] \notin pages /\ cTable[t] \notin pages
    /\ step > 1 => tcbObject[0] # tcbObject[1]
    /\ \A t, u \in Plugin : step > 4 + t => cTable[t] # tcbObject[u]

\* The slots that retypes wrote to.
Retyped == {m.slot : m \in made}

\* What boot put into the slots it filled.  insert_new_cap() does not ask whether a
\* slot is empty, so the endpoint stays only where retypes leave slot 0 alone.
SlotInv ==
    \A t \in Plugin :
        /\ step > 4 + t =>
              \E g \in Garbage : slot[<<tcbObject[t], 0>>]
                                     = CNodeCap(g, ShiftRight(KernelAddress(cTable[t])))
        /\ step > 7 + t /\ <<cTable[t], 0>> \notin Retyped =>
              slot[<<cTable[t], 0>>] = ObjectCap("endpoint", 5..8, KernelAddress(endpoint))

\* The objects that were made and the capabilities to them.
MadeInv ==
    /\ step < 9 => made = {}
    /\ \A m \in made :
          \E t \in Plugin, k \in 0 .. (NSlot - 1), g \in Garbage :
              /\ m.slot = <<cTable[t], k>>
              /\ m.type \in Types
              /\ slot[m.slot] = create_object(m.type, p2v(m.address), g)

CSpaceInv == PageInv /\ SlotInv /\ MadeInv

----------------------------------------------------------------------------
(* Pages *)

LEMMA LeastOf ==
    ASSUME NEW S, S \subseteq Nat, S # {}
    PROVE  \E m \in S : \A y \in S : m <= y
<1> DEFINE R == OpToRel(<, Nat)
<1>1. IsWellFoundedOn(R, Nat)
  BY NatLessThanWellFounded
<1>2. \A x, y \in Nat : <<x, y>> \in R <=> x < y
  BY DEF OpToRel
<1> HIDE DEF R
<1>3. PICK m \in S : \A y \in S : ~(<<y, m>> \in R)
  BY <1>1, WFMin
<1>4. m \in Nat /\ \A y \in S : y \in Nat /\ ~(y < m)
  BY <1>2, <1>3
<1> QED BY <1>3, <1>4

\* The highest of some pages is one of them.
LEMMA HighestPage ==
    ASSUME NEW S, NEW n \in Nat, S \subseteq 0..n, S # {}
    PROVE  Max(S) \in S
<1> DEFINE D == {n - x : x \in S}
<1>1. D \subseteq Nat /\ D # {}
  <2>1. \A x \in S : n - x \in Nat
    OBVIOUS
  <2>2. PICK x \in S : TRUE
    OBVIOUS
  <2> QED BY <2>1, <2>2
<1> HIDE DEF D
<1>2. PICK d \in D : \A y \in D : d <= y
  BY <1>1, LeastOf
<1>3. PICK m \in S : d = n - m
  BY <1>2 DEF D
<1>4. ASSUME NEW x \in S PROVE m >= x
  <2>1. n - x \in D
    BY DEF D
  <2>2. n - m <= n - x
    BY <1>2, <1>3, <2>1
  <2> QED BY <2>2
<1> QED BY <1>3, <1>4 DEF Max

----------------------------------------------------------------------------
(* Words *)

\* Powers of two, one by one: no prover knows them for a variable.
Doubles(k) == 2^k \in Nat \ {0} /\ 2^(k + 1) = 2 * 2^k

LEMMA Doubling == \A k \in 0..28 : Doubles(k)
<1>1. /\ Doubles(0) /\ Doubles(1) /\ Doubles(2) /\ Doubles(3) /\ Doubles(4) /\ Doubles(5) /\ Doubles(6) /\ Doubles(7) /\ Doubles(8) /\ Doubles(9)
      /\ Doubles(10) /\ Doubles(11) /\ Doubles(12) /\ Doubles(13) /\ Doubles(14) /\ Doubles(15) /\ Doubles(16) /\ Doubles(17) /\ Doubles(18) /\ Doubles(19)
      /\ Doubles(20) /\ Doubles(21) /\ Doubles(22) /\ Doubles(23) /\ Doubles(24) /\ Doubles(25) /\ Doubles(26) /\ Doubles(27) /\ Doubles(28)
  BY DEF Doubles
<1>2. 0..28 = {0, 1, 2, 3, 4, 5, 6, 7, 8, 9, 10, 11, 12, 13, 14, 15, 16, 17, 18, 19, 20,
               21, 22, 23, 24, 25, 26, 27, 28}
  OBVIOUS
<1> QED BY <1>1, <1>2, ZenonT(60)

LEMMA Halving ==
    ASSUME NEW a \in Nat, NEW m \in Nat \ {0}
    PROVE  a \div m = 2 * (a \div (2 * m)) + ((a \div m) % 2)
OBVIOUS

\* Induction on a set of numbers, from the least number outside of it.
LEMMA NatSet ==
    ASSUME NEW S, 0 \in S, \A n \in Nat : n \in S => n + 1 \in S
    PROVE  \A n \in Nat : n \in S
<1> SUFFICES ASSUME Nat \ S # {} PROVE FALSE
  OBVIOUS
<1>1. PICK x \in Nat \ S : \A y \in Nat \ S : x <= y
  BY LeastOf
<1>2. x # 0 /\ x - 1 \in Nat /\ (x - 1) + 1 = x /\ ~(x <= x - 1)
  BY <1>1
<1> QED BY <1>1, <1>2

\* p2v() is injective on the 512 MB: numbers with the same 29 bits are equal.
LEMMA SameAddress ==
    ASSUME NEW a \in Nat, NEW b \in Nat, a < 2^29, b < 2^29, p2v(a) = p2v(b)
    PROVE  a = b
<1> DEFINE Equal(k) == a \div 2^k = b \div 2^k
           S == {j \in Nat : j <= 29 => Equal(29 - j)}
<1>1. \A k \in 0..28 : Bit(a, k) = Bit(b, k)
  <2> TAKE k \in 0..28
  <2>1. p2v(a)[k] = Bit(a, k) /\ p2v(b)[k] = Bit(b, k)
    BY DEF p2v, Bits
  <2> QED BY <2>1
<1>2. Equal(29)
  <2>1. a \div 2^29 = 0 /\ b \div 2^29 = 0
    BY SMT
  <2> QED BY <2>1
<1>3. ASSUME NEW k \in 0..28, Equal(k + 1) PROVE Equal(k)
  <2>1. 2^k \in Nat \ {0} /\ 2^(k + 1) = 2 * 2^k
    BY Doubling DEF Doubles
  <2>2. (a \div 2^k) % 2 = (b \div 2^k) % 2
    BY <1>1 DEF Bit
  <2>3. /\ a \div 2^k = 2 * (a \div (2 * 2^k)) + ((a \div 2^k) % 2)
        /\ b \div 2^k = 2 * (b \div (2 * 2^k)) + ((b \div 2^k) % 2)
    BY <2>1, Halving
  <2>4. a \div (2 * 2^k) = b \div (2 * 2^k)
    BY <1>3, <2>1
  <2> QED BY <2>2, <2>3, <2>4
<1> HIDE DEF Equal
<1>4. 0 \in S
  BY <1>2
<1>5. ASSUME NEW j \in Nat, j \in S PROVE j + 1 \in S
  <2> SUFFICES ASSUME j + 1 <= 29 PROVE Equal(29 - (j + 1))
    BY <1>5
  <2> DEFINE k == 29 - (j + 1)
  <2>1. k \in 0..28 /\ k + 1 = 29 - j
    BY <1>5
  <2>2. Equal(k + 1)
    BY <1>5, <2>1
  <2> QED BY <1>3, <2>1, <2>2
<1>6. 29 \in S
  <2> HIDE DEF S
  <2>1. \A n \in Nat : n \in S
    BY <1>4, <1>5, NatSet
  <2> QED BY <2>1
<1>7. Equal(0)
  BY <1>6
<1>8. a \div 1 = a /\ b \div 1 = b /\ 2^0 = 1
  OBVIOUS
<1> QED BY <1>7, <1>8 DEF Equal

\* The address of a page has twelve zeros.
LEMMA PageBits ==
    ASSUME NEW p \in Nat
    PROVE  \A i \in 0..11 : Bit(p * PGSIZE, i) = 0 /\ Bit(0, i) = 0
<1> DEFINE Zero(i) == (p * 4096) \div 2^i % 2 = 0 /\ 0 \div 2^i % 2 = 0
<1>1. /\ Zero(0) /\ Zero(1) /\ Zero(2) /\ Zero(3) /\ Zero(4) /\ Zero(5)
      /\ Zero(6) /\ Zero(7) /\ Zero(8) /\ Zero(9) /\ Zero(10) /\ Zero(11)
  OBVIOUS
<1>2. 0..11 = {0, 1, 2, 3, 4, 5, 6, 7, 8, 9, 10, 11}
  OBVIOUS
<1> HIDE DEF Zero
<1>3. \A i \in 0..11 : Zero(i)
  BY <1>1, <1>2, Zenon
<1> QED BY <1>3 DEF Zero, Bit, PGSIZE

\* The low twelve bits of an address in a page are those of the offset, and the others
\* those of the page.
LEMMA OffsetBits ==
    ASSUME NEW p \in Nat, NEW x \in Nat, x < PGSIZE
    PROVE  /\ \A i \in 0..11 : Bit(p * PGSIZE + x, i) = Bit(x, i)
           /\ \A i \in 12..28 : Bit(p * PGSIZE + x, i) = Bit(p * PGSIZE, i)
<1> DEFINE Low(i) == (p * 4096 + x) \div 2^i % 2 = x \div 2^i % 2
           High(i) == (p * 4096 + x) \div 2^i % 2 = (p * 4096) \div 2^i % 2
<1>0. x < 4096
  BY DEF PGSIZE
<1>1. /\ Low(0) /\ Low(1) /\ Low(2) /\ Low(3) /\ Low(4) /\ Low(5)
      /\ Low(6) /\ Low(7) /\ Low(8) /\ Low(9) /\ Low(10) /\ Low(11)
  <2>1. Low(0) /\ Low(1)
    OBVIOUS
  <2>2. Low(2) /\ Low(3)
    OBVIOUS
  <2>3. Low(4) /\ Low(5)
    OBVIOUS
  <2>4. Low(6) /\ Low(7)
    OBVIOUS
  <2>5. Low(8) /\ Low(9)
    OBVIOUS
  <2>6. Low(10) /\ Low(11)
    OBVIOUS
  <2> QED BY <2>1, <2>2, <2>3, <2>4, <2>5, <2>6
<1>2. High(12)
  BY <1>0
<1>3. High(13) /\ High(14) /\ High(15) /\ High(16)
  <2>1. High(13)
    BY <1>0
  <2>2. High(14)
    BY <1>0
  <2>3. High(15)
    BY <1>0
  <2>4. High(16)
    BY <1>0
  <2> QED BY <2>1, <2>2, <2>3, <2>4
<1>4. High(17) /\ High(18) /\ High(19) /\ High(20)
  BY <1>0
<1>5. High(21) /\ High(22) /\ High(23) /\ High(24)
  BY <1>0
<1>6. High(25) /\ High(26) /\ High(27) /\ High(28)
  BY <1>0
<1>7. 0..11 = {0, 1, 2, 3, 4, 5, 6, 7, 8, 9, 10, 11}
  OBVIOUS
<1>8. 12..28 = {12, 13, 14, 15, 16, 17, 18, 19, 20, 21, 22, 23, 24, 25, 26, 27, 28}
  OBVIOUS
<1> HIDE DEF Low, High
<1>9. \A i \in 0..11 : Low(i)
  BY <1>1, <1>7, Zenon
<1>10. \A i \in 12..28 : High(i)
  BY <1>2, <1>3, <1>4, <1>5, <1>6, <1>8, Zenon
<1> QED BY <1>9, <1>10 DEF Low, High, Bit, PGSIZE

----------------------------------------------------------------------------
(* Capabilities *)

\* The upper bits of a kernel address are ones, so that 48 bits and a mask are enough.
LEMMA EndpointOf ==
    ASSUME NEW type, NEW rights, rights \subseteq 5..8, NEW a
    PROVE  endpoint_of(ObjectCap(type, rights, p2v(a))) = p2v(a)
<1> DEFINE address == p2v(a)
           cap == ObjectCap(type, rights, address)
<1>1. address = [i \in Bits |-> address[i]] /\ \A i \in Bits : i >= 31 => address[i] = 1
  BY DEF p2v, Bits
<1>2. \A i \in 0..47 : cap[i + 16] = address[i]
  BY DEF ObjectCap, Bits
<1> HIDE DEF address, cap
<1>3. endpoint_of(cap) = [i \in Bits |-> address[i]]
  BY <1>1, <1>2 DEF endpoint_of, Bits
<1> QED BY <1>1, <1>3 DEF address, cap

\* The type of a capability that create_object() made for an endpoint.
LEMMA EndpointType ==
    ASSUME NEW a PROVE EndpointCap_capType(ObjectCap("endpoint", 5..8, a)) = CapTag.endpoint
<1> DEFINE cap == ObjectCap("endpoint", 5..8, a)
<1>1. CapTag.endpoint = 4
  BY DEF CapTag
<1>2. cap[0] = 0 /\ cap[1] = 0 /\ cap[2] = 1 /\ cap[3] = 0 /\ cap[4] = 0
  BY <1>1 DEF ObjectCap, Bits, Bit
<1> HIDE DEF cap
<1> QED BY <1>1, <1>2 DEF EndpointCap_capType, cap

\* A table starts on a page, so that shifting its address to and fro loses nothing.
LEMMA TableOf ==
    ASSUME NEW g, NEW p \in Nat
    PROVE  table_of(CNodeCap(g, ShiftRight(KernelAddress(p)))) = KernelAddress(p)
<1> DEFINE address == KernelAddress(p)
           half == ShiftRight(address)
           cap == CNodeCap(g, half)
<1>1. address = [i \in Bits |-> address[i]] /\ \A i \in Bits : i >= 31 => address[i] = 1
  BY DEF KernelAddress, p2v, Bits
<1>2. address[0] = 0
  BY PageBits DEF KernelAddress, p2v, Bits
<1>3. \A i \in 0..62 : half[i] = address[i + 1]
  BY DEF ShiftRight, Bits
<1>4. \A i \in 1..46 : cap[i + 16] = half[i - 1]
  BY DEF CNodeCap, Bits
<1> HIDE DEF address, half, cap
<1>5. \A i \in 1..46 : cap[i + 16] = address[i]
  BY <1>3, <1>4
<1>6. \A i \in Bits : table_of(cap)[i] = address[i]
  BY <1>1, <1>2, <1>5 DEF table_of, capCNodePtr, Bits
<1>7. table_of(cap) = [i \in Bits |-> table_of(cap)[i]]
  BY DEF table_of
<1> QED BY <1>1, <1>6, <1>7 DEF address, half, cap

\* TCB_PTR_CTE_PTR() finds the start of the object.
LEMMA TcbSlot ==
    ASSUME NEW t \in Plugin, tcbObject[t] \in Nat
    PROVE  tcb_slot(t) = <<tcbObject[t], 0>>
<1> DEFINE p == tcbObject[t]
<1>1. 2^(OsTCBBits - 1) = 1024 /\ 2^OsTCBBits = 2048
  BY DEF OsTCBBits
<1>2. p \in Nat
  OBVIOUS
<1> HIDE DEF p
<1>3. (p * 4096 + 1024) % 2048 = 1024 /\ (p * 4096 + 1024) - 1024 = p * 4096
  BY <1>2
<1>4. (p * 4096) \div 4096 = p
  BY <1>2
<1> QED BY <1>1, <1>3, <1>4 DEF tcb_slot, p, PGSIZE

LEMMA SlotNumber == NSlot \in Nat /\ 0 < NSlot /\ NSlot <= 102 /\ 0 \in 0 .. (NSlot - 1)
<1>1. PGSIZE \div SizeofCte = 102
  BY DEF PGSIZE, SizeofCte
<1>2. NSlot \in 1 .. (PGSIZE \div SizeofCte)
  BY CSpaceAssumption, Zenon
<1> QED BY <1>1, <1>2

LEMMA PageNumber ==
    ASSUME NEW P \in PageSets
    PROVE  /\ Cardinality(P) = 7
           /\ P \subseteq 1 .. (2^17 - 1)
           /\ \A p \in P : p \in Nat \ {0} /\ p < 2^17
<1>1. P \subseteq 1 .. (2^17 - 1) /\ Cardinality(P) = 7
  BY CSpaceAssumption, Zenon
<1>2. ASSUME NEW p \in 1 .. (2^17 - 1) PROVE p \in Nat \ {0} /\ p < 2^17
  BY SMT
<1> QED BY <1>1, <1>2, Zenon

LEMMA PageSlot ==
    ASSUME NEW P \in PageSets, NEW p \in P
    PROVE  <<p, 0>> \in Slots(P)
BY SlotNumber DEF Slots

\* No two slots are at the same address.
LEMMA OnlySlot ==
    ASSUME NEW P \in PageSets, DOMAIN slot = Slots(P), NEW p \in P, NEW k \in 0 .. (NSlot - 1)
    PROVE  SlotAt(p2v(p * PGSIZE + k * SizeofCte)) = {<<p, k>>}
<1>0. p \in Nat /\ k \in Nat /\ p < 2^17 /\ k <= 101
  <2>1. p \in Nat /\ p < 2^17
    BY PageNumber
  <2>2. k \in Nat /\ k <= 101
    BY SlotNumber
  <2> QED BY <2>1, <2>2
<1>1. ASSUME NEW s \in Slots(P)
      PROVE  /\ s[1] * PGSIZE + s[2] * SizeofCte \in Nat
             /\ s[1] * PGSIZE + s[2] * SizeofCte < 2^29
             /\ s[1] * PGSIZE + s[2] * SizeofCte = p * PGSIZE + k * SizeofCte
                    => s[1] = p /\ s[2] = k
  <2> DEFINE m == s[1]
             n == s[2]
  <2>1. m \in P /\ n \in 0 .. (NSlot - 1)
    BY DEF Slots
  <2> HIDE DEF m, n
  <2>2. m \in Nat /\ m < 2^17
    BY <2>1, PageNumber
  <2>3. n \in Nat /\ n <= 101
    BY <2>1, SlotNumber
  <2>4. m * 4096 + n * 40 \in Nat
    BY <2>2, <2>3, SMT
  <2>5. m * 4096 + n * 40 < 2^29
    BY <2>2, <2>3, SMT
  <2>6. m * 4096 + n * 40 = p * 4096 + k * 40 => m = p /\ n = k
    BY <2>2, <2>3, <1>0, SMT
  <2>7. PGSIZE = 4096 /\ SizeofCte = 40
    BY DEF PGSIZE, SizeofCte
  <2> QED BY <2>4, <2>5, <2>6, <2>7 DEF m, n
<1> DEFINE t == <<p, k>>
           at == p * PGSIZE + k * SizeofCte
<1>2. t \in Slots(P) /\ t[1] = p /\ t[2] = k
  BY DEF Slots
<1>3. at \in Nat /\ at < 2^29
  BY <1>1, <1>2
<1> HIDE DEF at
<1>4. t \in SlotAt(p2v(at))
  BY <1>2 DEF SlotAt, at
<1>5. ASSUME NEW s \in SlotAt(p2v(at)) PROVE s = t
  <2>1. s \in Slots(P) /\ p2v(s[1] * PGSIZE + s[2] * SizeofCte) = p2v(at)
    BY <1>5 DEF SlotAt
  <2>2. s[1] * PGSIZE + s[2] * SizeofCte = at
    BY <1>1, <1>3, <2>1, SameAddress
  <2>3. s[1] = p /\ s[2] = k /\ s = <<s[1], s[2]>>
    BY <1>1, <2>1, <2>2 DEF Slots, at
  <2> QED BY <2>3
<1> QED BY <1>4, <1>5 DEF at

----------------------------------------------------------------------------
(* Boot *)

LEMMA CSpaceInit == Init => CSpaceInv
<1> SUFFICES ASSUME Init PROVE CSpaceInv
  OBVIOUS
<1>1. /\ pages \in PageSets /\ DOMAIN slot = Slots(pages) /\ step = 0 /\ made = {}
      /\ tcbObject = [t \in Plugin |-> 0] /\ cTable = [t \in Plugin |-> 0] /\ endpoint = 0
  BY DEF Init, Slots
<1>2. Cardinality(pages) = 7 /\ 0 \notin pages
  BY <1>1, PageNumber
<1>3. Given # {}
  BY <1>1 DEF Given
<1>4. PageInv
  BY <1>1, <1>2, <1>3 DEF PageInv, Plugin
<1> QED BY <1>1, <1>4 DEF CSpaceInv, SlotInv, MadeInv, Plugin

\* What memblock_alloc_kernel() returns as long as boot asks for pages.
LEMMA NewPage ==
    ASSUME PageInv, step < 7, NEW P \in Given, memblock_alloc_kernel
    PROVE  /\ page \in pages /\ page \in P /\ page \in Nat \ {0}
           /\ pages' \subseteq pages /\ page \notin pages'
           /\ Cardinality(pages') = 7 - (step + 1)
<1> DEFINE n == 2^17 - 1
<1>1. /\ P \in PageSets /\ pages \subseteq P /\ step \in 0..9 /\ Cardinality(pages) = 7 - step
  BY DEF PageInv, Given
<1>2. n \in Nat /\ pages \subseteq 1..n /\ \A p \in pages : p \in Nat \ {0}
  <2>1. n \in Nat
    BY SMT
  <2> QED BY <1>1, <2>1, PageNumber
<1> HIDE DEF n
<1>3. IsFiniteSet(pages)
  <2>1. IsFiniteSet(1..n)
    BY <1>2, FS_Interval
  <2> QED BY <1>2, <2>1, FS_Subset
<1>4. pages # {}
  BY <1>1, FS_EmptySet
<1>5. page \in pages
  <2>1. pages \subseteq 0..n
    BY <1>2
  <2> QED BY <1>2, <1>4, <2>1, HighestPage DEF page
<1>6. Cardinality(pages \ {page}) = Cardinality(pages) - 1
  BY <1>3, <1>5, FS_RemoveElement
<1>7. page \in Nat \ {0}
  BY <1>2, <1>5
<1> QED BY <1>1, <1>5, <1>6, <1>7 DEF memblock_alloc_kernel

LEMMA TcbKeeps ==
    ASSUME CSpaceInv, NEW t \in Plugin, alloc_tcb(t)
    PROVE  CSpaceInv'
<1>1. /\ step = t /\ step' = t + 1 /\ memblock_alloc_kernel
      /\ tcbObject' = [tcbObject EXCEPT ![t] = page]
      /\ UNCHANGED <<slot, cTable, endpoint, made>>
  BY DEF alloc_tcb
<1>2. PICK P \in Given : P \in PageSets /\ DOMAIN slot = Slots(P) /\ pages \subseteq P
  BY DEF CSpaceInv, PageInv, Given
<1>3. /\ page \in pages /\ page \in P /\ page \in Nat \ {0}
      /\ pages' \subseteq pages /\ page \notin pages'
      /\ Cardinality(pages') = 7 - (step + 1)
  BY <1>1, <1>2, NewPage DEF CSpaceInv, Plugin
<1>4. Given' # {}
  BY <1>1, <1>2, <1>3 DEF Given
<1>5. <<page, 0>> \in DOMAIN slot
  BY <1>2, <1>3, PageSlot
<1>6. PageInv'
  BY <1>1, <1>3, <1>4, <1>5 DEF CSpaceInv, PageInv, Plugin
<1>7. SlotInv' /\ MadeInv'
  BY <1>1 DEF CSpaceInv, SlotInv, MadeInv, Plugin
<1> QED BY <1>6, <1>7 DEF CSpaceInv

LEMMA RootKeeps ==
    ASSUME CSpaceInv, alloc_root \/ alloc_endpoint
    PROVE  CSpaceInv'
<1>1. /\ step \in {2, 6} /\ step' = step + 1 /\ memblock_alloc_kernel
      /\ endpoint' \in {endpoint, page}
      /\ UNCHANGED <<slot, tcbObject, cTable, made>>
  BY DEF alloc_root, alloc_endpoint
<1>2. PICK P \in Given : P \in PageSets /\ DOMAIN slot = Slots(P) /\ pages \subseteq P
  BY DEF CSpaceInv, PageInv, Given
<1>3. /\ page \in Nat \ {0} /\ pages' \subseteq pages /\ Cardinality(pages') = 7 - (step + 1)
  BY <1>1, <1>2, NewPage DEF CSpaceInv
<1>4. Given' # {}
  BY <1>1, <1>2, <1>3 DEF Given
<1>5. PageInv'
  BY <1>1, <1>3, <1>4 DEF CSpaceInv, PageInv, Plugin
<1>6. SlotInv' /\ MadeInv'
  BY <1>1 DEF CSpaceInv, SlotInv, MadeInv, Plugin
<1> QED BY <1>5, <1>6 DEF CSpaceInv

LEMMA RegionKeeps ==
    ASSUME CSpaceInv, init_root
    PROVE  CSpaceInv'
<1>1. /\ step = 3 /\ step' = 4 /\ memblock_alloc_kernel
      /\ DOMAIN slot' = DOMAIN slot
      /\ UNCHANGED <<tcbObject, cTable, endpoint, made>>
  BY DEF init_root
<1>2. PICK P \in Given : P \in PageSets /\ DOMAIN slot = Slots(P) /\ pages \subseteq P
  BY DEF CSpaceInv, PageInv, Given
<1>3. pages' \subseteq pages /\ Cardinality(pages') = 7 - (step + 1)
  BY <1>1, <1>2, NewPage DEF CSpaceInv
<1>4. Given' # {}
  BY <1>1, <1>2, <1>3 DEF Given
<1>5. PageInv'
  BY <1>1, <1>3, <1>4 DEF CSpaceInv, PageInv, Plugin
<1>6. SlotInv' /\ MadeInv'
  BY <1>1 DEF CSpaceInv, SlotInv, MadeInv, Plugin
<1> QED BY <1>5, <1>6 DEF CSpaceInv

\* The capability to a table goes to a TCB object, which is another page than any
\* table.
LEMMA TableKeeps ==
    ASSUME CSpaceInv, NEW t \in Plugin, NEW garbage \in Garbage, init_table(t, garbage)
    PROVE  CSpaceInv'
<1>1. /\ step = 4 + t /\ step' = step + 1 /\ memblock_alloc_kernel
      /\ cTable' = [cTable EXCEPT ![t] = page]
      /\ slot' = [slot EXCEPT ![<<tcbObject[t], 0>>] =
                      CNodeCap(garbage, ShiftRight(KernelAddress(page)))]
      /\ UNCHANGED <<tcbObject, endpoint, made>>
  BY DEF init_table, create_object
<1>2. PICK P \in Given : P \in PageSets /\ DOMAIN slot = Slots(P) /\ pages \subseteq P
  BY DEF CSpaceInv, PageInv, Given
<1>3. /\ page \in pages /\ page \in P /\ page \in Nat \ {0}
      /\ pages' \subseteq pages /\ page \notin pages'
      /\ Cardinality(pages') = 7 - (step + 1)
  BY <1>1, <1>2, NewPage DEF CSpaceInv, Plugin
<1>4. DOMAIN slot' = DOMAIN slot
  BY <1>1
<1>5. Given' # {}
  BY <1>2, <1>3, <1>4 DEF Given
<1>6. <<page, 0>> \in DOMAIN slot
  BY <1>2, <1>3, PageSlot
<1>7. \A u \in Plugin : page # tcbObject[u]
  BY <1>3 DEF CSpaceInv, PageInv
<1>8. PageInv'
  BY <1>1, <1>3, <1>4, <1>5, <1>6, <1>7 DEF CSpaceInv, PageInv, Plugin
<1>9. SlotInv'
  <2>1. /\ <<tcbObject[t], 0>> \in DOMAIN slot /\ tcbObject[0] # tcbObject[1]
        /\ cTable'[t] = page /\ \A u \in Plugin : u # t => cTable'[u] = cTable[u]
    BY <1>1 DEF CSpaceInv, PageInv, Plugin
  <2>2. slot'[<<tcbObject[t], 0>>] = CNodeCap(garbage, ShiftRight(KernelAddress(page)))
    BY <1>1, <2>1
  <2>3. \A u \in Plugin : u # t => slot'[<<tcbObject[u], 0>>] = slot[<<tcbObject[u], 0>>]
    <3> TAKE u \in Plugin
    <3> HAVE u # t
    <3>1. <<tcbObject[u], 0>> # <<tcbObject[t], 0>> /\ <<tcbObject[u], 0>> \in DOMAIN slot
      BY <1>1, <2>1 DEF CSpaceInv, PageInv, Plugin
    <3> QED BY <1>1, <3>1
  <2>4. ASSUME NEW u \in Plugin, step' > 4 + u
        PROVE  \E g \in Garbage : slot'[<<tcbObject'[u], 0>>]
                                     = CNodeCap(g, ShiftRight(KernelAddress(cTable'[u])))
    <3>1. CASE u = t
      BY <1>1, <2>1, <2>2, <3>1
    <3>2. CASE u # t
      <4>1. step > 4 + u
        BY <1>1, <2>4, <3>2 DEF Plugin
      <4>2. PICK g \in Garbage : slot[<<tcbObject[u], 0>>]
                                     = CNodeCap(g, ShiftRight(KernelAddress(cTable[u])))
        BY <4>1 DEF CSpaceInv, SlotInv
      <4> QED BY <1>1, <2>1, <2>3, <3>2, <4>2
    <3> QED BY <3>1, <3>2
  <2>5. \A u \in Plugin : ~(step' > 7 + u)
    BY <1>1 DEF Plugin
  <2> QED BY <2>4, <2>5 DEF SlotInv
<1>10. MadeInv'
  BY <1>1 DEF CSpaceInv, MadeInv, Plugin
<1> QED BY <1>8, <1>9, <1>10 DEF CSpaceInv

\* lookup_slot() leads from a TCB and the number of a slot to that slot of its table
\* and nowhere else.
LEMMA Lookup ==
    ASSUME CSpaceInv, NEW t \in Plugin, step > 4 + t, NEW k \in 0 .. (NSlot - 1)
    PROVE  /\ table_of(slot[tcb_slot(t)]) = KernelAddress(cTable[t])
           /\ SlotAt(lookup_slot(t, SizeofCte * k)) = {<<cTable[t], k>>}
<1>1. /\ tcbObject[t] \in Nat /\ cTable[t] \in Nat /\ <<cTable[t], 0>> \in DOMAIN slot
  BY DEF CSpaceInv, PageInv
<1>2. PICK g \in Garbage : slot[<<tcbObject[t], 0>>]
                               = CNodeCap(g, ShiftRight(KernelAddress(cTable[t])))
  BY DEF CSpaceInv, SlotInv
<1>3. table_of(slot[tcb_slot(t)]) = KernelAddress(cTable[t])
  <2>1. slot[tcb_slot(t)] = CNodeCap(g, ShiftRight(KernelAddress(cTable[t])))
    BY <1>1, <1>2, TcbSlot
  <2> QED BY <1>1, <2>1, TableOf
<1>4. lookup_slot(t, SizeofCte * k) = p2v(cTable[t] * PGSIZE + k * SizeofCte)
  <2> DEFINE x == SizeofCte * k
             p == cTable[t]
             address == KernelAddress(p)
             goal == p2v(p * PGSIZE + x)
  <2>1. x \in Nat /\ x < PGSIZE /\ p \in Nat /\ k * SizeofCte = x
    <3>1. k \in Nat /\ k <= 101
      BY SlotNumber
    <3> QED BY <1>1, <3>1 DEF PGSIZE, SizeofCte
  <2> HIDE DEF x, p
  <2>2. /\ \A i \in 0..11 : Bit(p * PGSIZE + x, i) = Bit(x, i)
        /\ \A i \in 12..28 : Bit(p * PGSIZE + x, i) = Bit(p * PGSIZE, i)
    BY <2>1, OffsetBits
  <2>3. \A i \in Bits :
           /\ goal[i] = IF i >= 31 THEN 1 ELSE IF i < 29 THEN Bit(p * PGSIZE + x, i) ELSE 0
           /\ address[i] = IF i >= 31 THEN 1 ELSE IF i < 29 THEN Bit(p * PGSIZE, i) ELSE 0
    BY DEF p2v, KernelAddress
  <2>4. goal = [i \in Bits |-> goal[i]]
    BY DEF p2v
  <2> HIDE DEF goal, address
  <2>5. \A i \in Bits : (IF i < 12 THEN Bit(x, i) ELSE address[i]) = goal[i]
    BY <2>2, <2>3 DEF Bits
  <2>6. lookup_slot(t, x) = [i \in Bits |-> IF i < 12 THEN Bit(x, i) ELSE address[i]]
    BY <1>3 DEF lookup_slot, address, p
  <2>7. lookup_slot(t, x) = goal
    BY <2>4, <2>5, <2>6
  <2> QED BY <2>1, <2>7 DEF goal, x, p
<1>5. PICK P \in Given : P \in PageSets /\ DOMAIN slot = Slots(P)
  BY DEF CSpaceInv, PageInv, Given
<1>6. cTable[t] \in P
  BY <1>1, <1>5 DEF Slots
<1> QED BY <1>3, <1>4, <1>5, <1>6, OnlySlot

LEMMA LookupFirst ==
    ASSUME CSpaceInv, NEW t \in Plugin, step > 4 + t
    PROVE  /\ table_of(slot[tcb_slot(t)]) = KernelAddress(cTable[t])
           /\ SlotAt(lookup_slot(t, 0)) = {<<cTable[t], 0>>}
<1>1. 0 \in 0 .. (NSlot - 1) /\ SizeofCte * 0 = 0
  BY SlotNumber DEF SizeofCte
<1> QED BY <1>1, Lookup

\* The endpoint goes to the first slot of the table, which is in no TCB object.
LEMMA EndpointKeeps ==
    ASSUME CSpaceInv, NEW t \in Plugin, insert_endpoint(t)
    PROVE  CSpaceInv'
<1> DEFINE cap == ObjectCap("endpoint", 5..8, KernelAddress(endpoint))
<1>1. /\ step = 7 + t /\ step' = step + 1
      /\ UNCHANGED <<pages, tcbObject, cTable, endpoint, made>>
  BY DEF insert_endpoint
<1>2. step > 4 + t
  BY <1>1 DEF Plugin
<1>3. slot' = [slot EXCEPT ![<<cTable[t], 0>>] = cap]
  <2>1. PICK s \in SlotAt(lookup_slot(t, 0)) : slot' = [slot EXCEPT ![s] = cap]
    BY DEF insert_endpoint, insert_new_cap, create_object
  <2>2. s = <<cTable[t], 0>>
    BY <1>2, LookupFirst
  <2> QED BY <2>1, <2>2
<1> HIDE DEF cap
<1>4. DOMAIN slot' = DOMAIN slot
  BY <1>3
<1>5. PageInv'
  <2>1. Given' = Given
    BY <1>1, <1>4 DEF Given
  <2> QED BY <1>1, <1>4, <2>1 DEF CSpaceInv, PageInv, Plugin
<1>6. SlotInv'
  <2>1. ASSUME NEW u \in Plugin
        PROVE  /\ <<tcbObject[u], 0>> \in DOMAIN slot /\ <<cTable[u], 0>> \in DOMAIN slot
               /\ <<tcbObject[u], 0>> # <<cTable[t], 0>>
    BY <1>1 DEF CSpaceInv, PageInv, Plugin
  <2>2. \A u \in Plugin : slot'[<<tcbObject[u], 0>>] = slot[<<tcbObject[u], 0>>]
    BY <1>3, <2>1
  <2>3. slot'[<<cTable[t], 0>>] = cap
    BY <1>3, <2>1
  <2>0. Retyped = {}
    BY <1>1 DEF CSpaceInv, MadeInv, Retyped, Plugin
  <2>4. ASSUME NEW u \in Plugin, step > 7 + u
        PROVE  slot'[<<cTable[u], 0>>] = cap
    <3>1. slot[<<cTable[u], 0>>] = cap
      BY <2>0, <2>4 DEF CSpaceInv, SlotInv, cap
    <3> QED BY <1>3, <2>1, <3>1
  <2>5. \A u \in Plugin : step' > 7 + u => slot'[<<cTable[u], 0>>] = cap
    BY <1>1, <2>3, <2>4 DEF Plugin
  <2>6. \A u \in Plugin : step > 4 + u
    BY <1>1 DEF Plugin
  <2> QED BY <1>1, <2>2, <2>5, <2>6 DEF CSpaceInv, SlotInv, cap
<1>7. MadeInv'
  BY <1>1 DEF CSpaceInv, MadeInv, Plugin
<1> QED BY <1>5, <1>6, <1>7 DEF CSpaceInv

----------------------------------------------------------------------------
(* Retypes *)

\* A retype writes to slots of a table, never to a TCB object, and the slots of the
\* objects it forgets are those it writes.
LEMMA RetypeKeeps ==
    ASSUME CSpaceInv, NEW type \in Types, NEW t \in Plugin, NEW offset \in Offsets,
           NEW length \in Lengths, NEW base \in Bases, NEW garbage \in Garbage,
           invoke_untyped_retype(type, t, offset, length, base, UserSize, garbage)
    PROVE  CSpaceInv'
<1> DEFINE start == region * PGSIZE + base
           hit(s) == s[1] = cTable[t] /\ s[2] \in offset .. (offset + length - 1)
           at(k) == ObjectAt(type, UserSize, start, k)
<1>1. /\ step = 9 /\ offset + length <= NSlot
      /\ slot' = [s \in DOMAIN slot |->
                     IF hit(s) THEN create_object(type, p2v(at(s[2] - offset)), garbage)
                     ELSE slot[s]]
      /\ made' = {m \in made : ~hit(m.slot)}
                 \cup {[slot |-> <<cTable[t], offset + k>>, type |-> type, address |-> at(k)] :
                           k \in 0 .. (length - 1)}
      /\ UNCHANGED <<pages, tcbObject, cTable, endpoint, step>>
  BY DEF invoke_untyped_retype, create_new_objects
<1>2. offset \in Nat /\ length \in Nat /\ NSlot \in Nat
  BY CSpaceAssumption, SlotNumber
<1>3. DOMAIN slot' = DOMAIN slot /\ step' = 9
  BY <1>1
<1>4. PageInv'
  <2>1. Given' = Given
    BY <1>1, <1>3 DEF Given
  <2> QED BY <1>1, <1>3, <2>1 DEF CSpaceInv, PageInv, Plugin
<1>5. ASSUME NEW s \in DOMAIN slot, ~hit(s)
      PROVE  slot'[s] = slot[s] /\ (s \in Retyped => s \in Retyped')
  <2> HIDE DEF hit, at
  <2> QED BY <1>1, <1>5 DEF Retyped
<1>10. ASSUME NEW u \in Plugin, hit(<<cTable[u], 0>>)
       PROVE  <<cTable[u], 0>> \in Retyped'
  <2>1. cTable[u] = cTable[t] /\ offset = 0 /\ 0 \in 0 .. (length - 1)
    BY <1>2, <1>10
  <2> DEFINE m == [slot |-> <<cTable[t], offset + 0>>, type |-> type, address |-> at(0)]
  <2>2. m \in made' /\ m.slot = <<cTable[u], 0>>
    <3> HIDE DEF at, hit
    <3> QED BY <1>1, <2>1
  <2> HIDE DEF m
  <2> QED BY <2>2 DEF Retyped
<1>6. SlotInv'
  <2>1. \A u \in Plugin : /\ <<tcbObject[u], 0>> \in DOMAIN slot /\ tcbObject[u] # cTable[t]
                          /\ <<cTable[u], 0>> \in DOMAIN slot
    BY <1>1 DEF CSpaceInv, PageInv, Plugin
  <2>2. \A u \in Plugin :
            /\ slot'[<<tcbObject[u], 0>>] = slot[<<tcbObject[u], 0>>]
            /\ <<cTable[u], 0>> \notin Retyped' =>
                  /\ slot'[<<cTable[u], 0>>] = slot[<<cTable[u], 0>>]
                  /\ <<cTable[u], 0>> \notin Retyped
    BY <1>5, <1>10, <2>1
  <2>3. UNCHANGED <<tcbObject, cTable, endpoint, step>>
    BY <1>1
  <2> QED BY <2>2, <2>3 DEF CSpaceInv, SlotInv
<1>7. \A u \in Plugin, k \in 0 .. (NSlot - 1) : <<cTable[u], k>> \in DOMAIN slot
  <2>1. PICK P \in Given : DOMAIN slot = Slots(P)
    BY DEF CSpaceInv, PageInv, Given
  <2>2. \A u \in Plugin : cTable[u] \in P
    BY <1>1, <2>1 DEF CSpaceInv, PageInv, Slots, Plugin
  <2> QED BY <2>1, <2>2 DEF Slots
<1>8. ASSUME NEW m \in made'
      PROVE  \E u \in Plugin, k \in 0 .. (NSlot - 1), g \in Garbage :
                 /\ m.slot = <<cTable[u], k>>
                 /\ m.type \in Types
                 /\ slot'[m.slot] = create_object(m.type, p2v(m.address), g)
  <2>1. CASE m \in made /\ ~hit(m.slot)
    <3>1. PICK u \in Plugin, k \in 0 .. (NSlot - 1), g \in Garbage :
               /\ m.slot = <<cTable[u], k>>
               /\ m.type \in Types
               /\ slot[m.slot] = create_object(m.type, p2v(m.address), g)
      BY <2>1 DEF CSpaceInv, MadeInv
    <3>2. m.slot \in DOMAIN slot
      BY <1>7, <3>1
    <3> HIDE DEF hit
    <3>3. slot'[m.slot] = slot[m.slot]
      BY <1>1, <2>1, <3>2
    <3> QED BY <3>1, <3>3
  <2>2. ASSUME NEW k \in 0 .. (length - 1),
               m = [slot |-> <<cTable[t], offset + k>>, type |-> type, address |-> at(k)]
        PROVE  \E u \in Plugin, i \in 0 .. (NSlot - 1), g \in Garbage :
                   /\ m.slot = <<cTable[u], i>>
                   /\ m.type \in Types
                   /\ slot'[m.slot] = create_object(m.type, p2v(m.address), g)
    <3> DEFINE s == <<cTable[t], offset + k>>
    <3>1. /\ offset + k \in 0 .. (NSlot - 1) /\ (offset + k) - offset = k
          /\ offset + k \in offset .. (offset + length - 1)
      BY <1>1, <1>2
    <3>2. s \in DOMAIN slot
      BY <1>7, <3>1
    <3>3. hit(s) /\ s[2] - offset = k
      BY <3>1
    <3>4. m.slot = s /\ m.type = type /\ m.address = at(k)
      BY <2>2
    <3> HIDE DEF s, hit, at
    <3>5. slot'[s] = create_object(type, p2v(at(k)), garbage)
      BY <1>1, <3>2, <3>3
    <3> QED BY <3>1, <3>4, <3>5 DEF s
  <2> QED BY <1>1, <2>1, <2>2
<1>9. MadeInv'
  <2>1. cTable' = cTable
    BY <1>1
  <2> QED BY <1>3, <1>8, <2>1 DEF MadeInv
<1> QED BY <1>4, <1>6, <1>9 DEF CSpaceInv

LEMMA CSpaceNext == CSpaceInv /\ [Next]_vars => CSpaceInv'
<1> SUFFICES ASSUME CSpaceInv, [Next]_vars PROVE CSpaceInv'
  OBVIOUS
<1>1. CASE UNCHANGED vars
  <2>1. Given' = Given
    BY <1>1 DEF vars, Given
  <2> QED BY <1>1, <2>1 DEF vars, CSpaceInv, PageInv, SlotInv, MadeInv, Retyped
<1> QED BY <1>1, TcbKeeps, EndpointKeeps, TableKeeps, RootKeeps, RegionKeeps, RetypeKeeps
        DEF Next

\* The pages of boot, what it put into their slots, and the objects of the retypes.
THEOREM CSpaceInvariant == Spec => []CSpaceInv
BY CSpaceInit, CSpaceNext, PTL DEF Spec

\* Both plugins reach the endpoint of boot through capability pointer 0, on whichever
\* pages of the 512 MB the tables and the endpoint lie and whatever retypes follow,
\* until one of them is told to write to the slot that ipc_test() filled.
THEOREM EndpointShared == Spec => []SameEndpoint
<1>1. CSpaceInv => SameEndpoint
  <2> SUFFICES ASSUME CSpaceInv PROVE SameEndpoint
    OBVIOUS
  <2>1. ASSUME NEW t \in Plugin, cTable[t] # 0
        PROVE  table_of(slot[tcb_slot(t)]) = KernelAddress(cTable[t])
    <3>1. step > 4 + t
      BY <2>1 DEF CSpaceInv, PageInv, Plugin
    <3> QED BY <3>1, LookupFirst
  <2>2. ASSUME step = 9, NEW t \in Plugin, <<cTable[t], 0>> \notin {m.slot : m \in made}
        PROVE  Reaches(t, 0, KernelAddress(endpoint))
    <3>1. step > 4 + t /\ step > 7 + t
      BY <2>2 DEF Plugin
    <3>2. <<cTable[t], 0>> \in SlotAt(lookup_slot(t, 0))
      BY <3>1, LookupFirst
    <3>3. slot[<<cTable[t], 0>>] = ObjectCap("endpoint", 5..8, KernelAddress(endpoint))
      BY <2>2, <3>1 DEF CSpaceInv, SlotInv, Retyped
    <3>4. endpoint_of(slot[<<cTable[t], 0>>]) = KernelAddress(endpoint)
      BY <3>3, EndpointOf DEF KernelAddress
    <3>5. EndpointCap_capType(slot[<<cTable[t], 0>>]) = CapTag.endpoint
      BY <3>3, EndpointType
    <3> QED BY <3>2, <3>4, <3>5 DEF Reaches
  <2> QED BY <2>1, <2>2 DEF SameEndpoint, TableFound
<1> QED BY <1>1, CSpaceInvariant, PTL

\* The endpoint that a retype made is the one that its plugin reaches through the slot
\* of its capability, wherever in memory table and object are, until a retype writes to
\* that slot again: the pointer leads to no other slot, and the address survives the
\* 48 bits of the capability.
THEOREM RetypedEndpointReached == Spec => []EndpointsReached
<1>1. CSpaceInv => EndpointsReached
  <2> SUFFICES ASSUME CSpaceInv, NEW m \in made, NEW t \in Plugin,
                      m.type = "endpoint", m.slot[1] = cTable[t]
               PROVE  /\ SlotAt(lookup_slot(t, SizeofCte * m.slot[2])) = {m.slot}
                      /\ Reaches(t, SizeofCte * m.slot[2], p2v(m.address))
    BY DEF EndpointsReached
  <2>1. PICK u \in Plugin, k \in 0 .. (NSlot - 1), g \in Garbage :
            /\ m.slot = <<cTable[u], k>>
            /\ slot[m.slot] = create_object(m.type, p2v(m.address), g)
    BY DEF CSpaceInv, MadeInv
  <2>2. step > 4 + t
    BY DEF CSpaceInv, PageInv, MadeInv, Plugin
  <2>3. m.slot = <<cTable[t], k>> /\ m.slot[2] = k
    BY <2>1
  <2>4. SlotAt(lookup_slot(t, SizeofCte * k)) = {m.slot}
    BY <2>2, <2>3, Lookup
  <2>5. slot[m.slot] = ObjectCap("endpoint", 5..8, p2v(m.address))
    BY <2>1 DEF create_object
  <2>6. /\ endpoint_of(slot[m.slot]) = p2v(m.address)
        /\ EndpointCap_capType(slot[m.slot]) = CapTag.endpoint
    BY <2>5, EndpointOf, EndpointType
  <2> QED BY <2>3, <2>4, <2>6 DEF Reaches
<1> QED BY <1>1, CSpaceInvariant, PTL
=============================================================================
