--------------------------- MODULE MemBlockProofs ---------------------------
(***************************************************************************)
(* Proofs about the physical memory allocator, for every page size, every  *)
(* memory map of the firmware and every order in which blocks are taken    *)
(* and given back: the arrays stay sorted and merged, the blocks apart,    *)
(* and the walk over both arrays finds the highest place there is.         *)
(***************************************************************************)
EXTENDS MemBlock, FiniteSetTheorems, SequenceTheorems, WellFoundedInduction, TLAPS

Region == [base : Nat, size : Nat]
Entry == [addr : Nat, len : Nat, type : Nat]

\* The bytes of the first n regions.
Cov(rs, n) == UNION {Bytes(rs[i]) : i \in 1..n}

\* Nonempty regions in ascending order, at least g bytes apart.
Apart(rs, g) ==
    /\ rs \in Seq(Region)
    /\ \A i \in 1..Len(rs) : rs[i].size > 0
    /\ \A i, j \in 1..Len(rs) : i < j => REnd(rs[i]) + g <= rs[j].base

----------------------------------------------------------------------------
(* Loops *)

\* A set with 0 in it that is closed under successor has all natural numbers.
LEMMA Induction ==
    ASSUME NEW S, 0 \in S, \A n \in Nat : n \in S => n + 1 \in S
    PROVE  \A n \in Nat : n \in S
<1> SUFFICES ASSUME Nat \ S # {} PROVE FALSE
  OBVIOUS
<1> DEFINE R == OpToRel(<, Nat)
           T == Nat \ S
<1>1. IsWellFoundedOn(R, Nat)
  BY NatLessThanWellFounded
<1>2. \A x, y \in Nat : <<x, y>> \in R <=> x < y
  BY DEF OpToRel
<1>3. T \subseteq Nat /\ T # {}
  OBVIOUS
<1> HIDE DEF R, T
<1>4. PICK x \in T : \A y \in T : ~(<<y, x>> \in R)
  BY <1>1, <1>3, WFMin
<1>5. x \in Nat /\ x \notin S /\ \A y \in Nat : y < x => y \in S
  BY <1>2, <1>4 DEF T
<1>6. x # 0 /\ x - 1 \in Nat /\ x - 1 < x /\ (x - 1) + 1 = x
  BY <1>5
<1> QED BY <1>5, <1>6

\* The states of a loop that makes N rounds: it starts in x, and round n takes it
\* from one state to the next.
IsRun(f, N, S, x, step) ==
    /\ f \in [0..N -> S]
    /\ f[0] = x
    /\ \A n \in 1..N : f[n] = step[<<n, f[n - 1]>>]

\* Such a loop has a run, so that the recursive functions of the model are defined.
LEMMA RunExists ==
    ASSUME NEW S, NEW x \in S, NEW N \in Nat, NEW step \in [(1..N) \X S -> S]
    PROVE  \E f : IsRun(f, N, S, x, step)
<1> DEFINE P(m) == m <= N => \E f : IsRun(f, m, S, x, step)
           Q == {m \in Nat : P(m)}
<1>1. P(0)
  <2> DEFINE f == [k \in 0..0 |-> x]
  <2>1. f \in [0..0 -> S] /\ f[0] = x /\ 1..0 = {}
    OBVIOUS
  <2>2. IsRun(f, 0, S, x, step)
    BY <2>1 DEF IsRun
  <2> QED BY <2>2
<1>2. ASSUME NEW m \in Nat, P(m) PROVE P(m + 1)
  <2> SUFFICES ASSUME m + 1 <= N PROVE \E f : IsRun(f, m + 1, S, x, step)
    OBVIOUS
  <2>1. PICK g : IsRun(g, m, S, x, step)
    BY <1>2
  <2> DEFINE y == step[<<m + 1, g[m]>>]
             h == [k \in 0..(m + 1) |-> IF k <= m THEN g[k] ELSE y]
  <2>2. g \in [0..m -> S] /\ g[0] = x /\ \A n \in 1..m : g[n] = step[<<n, g[n - 1]>>]
    BY <2>1 DEF IsRun
  <2>3. y \in S
    <3>1. <<m + 1, g[m]>> \in (1..N) \X S
      BY <2>2
    <3> QED BY <3>1
  <2>4. h \in [0..(m + 1) -> S] /\ h[0] = x
    <3> HIDE DEF y
    <3> QED BY <2>2, <2>3
  <2>5. ASSUME NEW n \in 1..(m + 1) PROVE h[n] = step[<<n, h[n - 1]>>]
    <3>1. CASE n <= m
      <4>1. h[n] = g[n] /\ h[n - 1] = g[n - 1]
        BY <3>1
      <4> QED BY <4>1, <3>1, <2>2
    <3>2. CASE n = m + 1
      <4>1. h[n] = y /\ h[n - 1] = g[m]
        <5> HIDE DEF y
        <5> QED BY <3>2
      <4> QED BY <4>1, <3>2
    <3> QED BY <3>1, <3>2
  <2> HIDE DEF h
  <2>6. IsRun(h, m + 1, S, x, step)
    BY <2>4, <2>5 DEF IsRun
  <2> QED BY <2>6
<1> HIDE DEF P
<1>3. 0 \in Q /\ \A m \in Nat : m \in Q => m + 1 \in Q
  BY <1>1, <1>2
<1>4. \A m \in Nat : m \in Q
  <2> HIDE DEF Q
  <2> QED BY <1>3, Induction
<1>5. P(N)
  BY <1>4
<1> QED BY <1>5 DEF P

----------------------------------------------------------------------------
(* Regions *)

LEMMA RegionFacts ==
    ASSUME NEW r \in Region
    PROVE  /\ r.base \in Nat /\ r.size \in Nat /\ REnd(r) = r.base + r.size /\ REnd(r) \in Nat
           /\ r = Rgn(r.base, r.size)
           /\ \A x : x \in Bytes(r) <=> x \in Nat /\ r.base <= x /\ x < r.base + r.size
<1>1. r.base \in Nat /\ r.size \in Nat
  BY DEF Region
<1>2. REnd(r) = r.base + r.size
  BY DEF REnd
<1>3. ASSUME NEW x PROVE x \in Bytes(r) <=> x \in Nat /\ r.base <= x /\ x < r.base + r.size
  BY <1>1, <1>2 DEF Bytes
<1>4. r = Rgn(r.base, r.size)
  BY DEF Region, Rgn
<1> QED BY <1>1, <1>2, <1>3, <1>4

LEMMA RgnFacts ==
    ASSUME NEW b \in Nat, NEW s \in Nat
    PROVE  /\ Rgn(b, s) \in Region /\ Rgn(b, s).base = b /\ Rgn(b, s).size = s
           /\ REnd(Rgn(b, s)) = b + s
           /\ Bytes(Rgn(b, s)) = b .. (b + s - 1)
BY DEF Rgn, Region, REnd, Bytes

LEMMA Split ==
    ASSUME NEW a \in Int, NEW b \in Int, NEW c \in Int, a <= b, b <= c
    PROVE  /\ a .. (c - 1) = (a .. (b - 1)) \cup (b .. (c - 1))
           /\ (a .. (b - 1)) \cap (b .. (c - 1)) = {}
OBVIOUS

LEMMA Wider ==
    ASSUME NEW q \in Region, NEW k \in Nat
    PROVE  [q EXCEPT !.size = @ + k] = Rgn(q.base, q.size + k)
BY DEF Region, Rgn

LEMMA CovIs ==
    ASSUME NEW rs, NEW n
    PROVE  \A x : x \in Cov(rs, n) <=> \E i \in 1..n : x \in Bytes(rs[i])
BY DEF Cov

LEMMA CovNone ==
    ASSUME NEW rs
    PROVE  Cov(rs, 0) = {}
BY DEF Cov

LEMMA CovNext ==
    ASSUME NEW rs, NEW n \in Nat \ {0}
    PROVE  Cov(rs, n) = Cov(rs, n - 1) \cup Bytes(rs[n])
<1>1. ASSUME NEW x PROVE x \in Cov(rs, n) <=> x \in Cov(rs, n - 1) \cup Bytes(rs[n])
  <2>1. \A i : i \in 1..n <=> i \in 1..(n - 1) \/ i = n
    OBVIOUS
  <2> QED BY <2>1, CovIs
<1> QED BY <1>1

\* A region behind the others keeps them apart.
LEMMA AppendApart ==
    ASSUME NEW rs, NEW g \in Nat, Apart(rs, g), NEW r \in Region, r.size > 0,
           \A i \in 1..Len(rs) : REnd(rs[i]) + g <= r.base
    PROVE  /\ Apart(Append(rs, r), g)
           /\ Append(rs, r) \in Seq(Region)
           /\ Len(Append(rs, r)) = Len(rs) + 1 /\ Len(rs) \in Nat
           /\ Append(rs, r)[Len(rs) + 1] = r
           /\ \A i \in 1..Len(rs) : Append(rs, r)[i] = rs[i]
           /\ Cov(Append(rs, r), Len(rs) + 1) = Cov(rs, Len(rs)) \cup Bytes(r)
<1> DEFINE q == Append(rs, r)
<1>1. rs \in Seq(Region) /\ Len(rs) \in Nat
  BY DEF Apart
<1>2. q \in Seq(Region) /\ Len(q) = Len(rs) + 1 /\ q[Len(rs) + 1] = r
      /\ \A i \in 1..Len(rs) : q[i] = rs[i]
  BY <1>1, AppendProperties
<1> HIDE DEF q
<1>3. \A i \in 1..Len(q) : q[i].size > 0
  BY <1>1, <1>2 DEF Apart
<1>4. ASSUME NEW i \in 1..Len(q), NEW j \in 1..Len(q), i < j
      PROVE  REnd(q[i]) + g <= q[j].base
  <2>1. i \in 1..Len(rs) /\ q[i] = rs[i]
    BY <1>1, <1>2, <1>4
  <2>2. CASE j = Len(rs) + 1
    BY <2>1, <2>2, <1>2
  <2>3. CASE j # Len(rs) + 1
    <3>1. j \in 1..Len(rs) /\ q[j] = rs[j]
      BY <1>1, <1>2, <2>3
    <3> QED BY <2>1, <3>1, <1>4 DEF Apart
  <2> QED BY <2>2, <2>3
<1>5. Apart(q, g)
  BY <1>2, <1>3, <1>4 DEF Apart
<1>6. Cov(q, Len(rs) + 1) = Cov(rs, Len(rs)) \cup Bytes(r)
  <2>1. Cov(q, Len(rs) + 1) = Cov(q, Len(rs)) \cup Bytes(q[Len(rs) + 1])
    <3>1. Len(rs) + 1 \in Nat \ {0} /\ (Len(rs) + 1) - 1 = Len(rs)
      BY <1>1
    <3> QED BY <3>1, CovNext
  <2>2. Cov(q, Len(rs)) = Cov(rs, Len(rs))
    BY <1>2 DEF Cov
  <2> QED BY <2>1, <2>2, <1>2
<1> QED BY <1>1, <1>2, <1>5, <1>6 DEF q

----------------------------------------------------------------------------
(* Merging *)

\* The array after each round of memblock_merge_regions().
MergeRun(f, rs) ==
    /\ f \in [0..Len(rs) -> Seq(Region)]
    /\ f[0] = <<>>
    /\ \A n \in 1..Len(rs) : f[n] = join(f[n - 1], rs[n])

LEMMA JoinType ==
    ASSUME NEW out \in Seq(Region), NEW r \in Region
    PROVE  join(out, r) \in Seq(Region)
<1>1. Append(out, r) \in Seq(Region)
  BY AppendProperties
<1>2. CASE out # <<>> /\ REnd(out[Len(out)]) = r.base
  <2> DEFINE l == Len(out)
             last == [out[l] EXCEPT !.size = @ + r.size]
  <2>1. l \in 1..Len(out) /\ out[l] \in Region
    <3>1. l \in Nat /\ l # 0
      BY <1>2, EmptySeq
    <3> QED BY <3>1, ElementOfSeq
  <2>2. last \in Region
    <3>1. last = Rgn(out[l].base, out[l].size + r.size)
      BY <2>1, RegionFacts, Wider
    <3>2. out[l].base \in Nat /\ out[l].size + r.size \in Nat
      BY <2>1, RegionFacts
    <3> QED BY <3>1, <3>2, RgnFacts
  <2>3. [out EXCEPT ![l] = last] \in Seq(Region)
    <3> HIDE DEF last, l
    <3> QED BY <2>1, <2>2, ExceptSeq
  <2> QED BY <2>3, <1>2 DEF join
<1>3. CASE ~(out # <<>> /\ REnd(out[Len(out)]) = r.base)
  BY <1>1, <1>3 DEF join
<1> QED BY <1>2, <1>3

LEMMA MergeRuns ==
    ASSUME NEW rs \in Seq(Region)
    PROVE  \E f : MergeRun(f, rs) /\ memblock_merge_regions(rs) = f[Len(rs)]
<1> DEFINE N == Len(rs)
           S == Seq(Region)
           step == [p \in (1..N) \X S |-> join(p[2], rs[p[1]])]
           Body(f) == [n \in 0..N |-> IF n = 0 THEN <<>> ELSE join(f[n - 1], rs[n])]
           loop == CHOOSE f : f = Body(f)
<1>1. N \in Nat /\ <<>> \in S /\ \A n \in 1..N : rs[n] \in Region
  BY ElementOfSeq
<1>2. step \in [(1..N) \X S -> S]
  <2> SUFFICES ASSUME NEW p \in (1..N) \X S PROVE join(p[2], rs[p[1]]) \in S
    OBVIOUS
  <2> QED BY <1>1, JoinType
<1>3. \A n \in 1..N, s \in S : step[<<n, s>>] = join(s, rs[n])
  OBVIOUS
<1> HIDE DEF S, step
<1>4. PICK g : IsRun(g, N, S, <<>>, step)
  BY <1>1, <1>2, RunExists
<1>5. g = Body(g)
  <2>1. g \in [0..N -> S] /\ g[0] = <<>> /\ \A n \in 1..N : g[n] = step[<<n, g[n - 1]>>]
    BY <1>4 DEF IsRun
  <2>2. ASSUME NEW n \in 0..N PROVE g[n] = IF n = 0 THEN <<>> ELSE join(g[n - 1], rs[n])
    <3>1. CASE n = 0
      BY <3>1, <2>1
    <3>2. CASE n # 0
      <4>1. n \in 1..N /\ n - 1 \in 0..N
        BY <3>2
      <4> QED BY <4>1, <2>1, <1>3
    <3> QED BY <3>1, <3>2
  <2> QED BY <2>1, <2>2
<1>6. loop = Body(loop)
  BY <1>5
<1>7. memblock_merge_regions(rs) = loop[N]
  BY DEF memblock_merge_regions
<1> HIDE DEF loop
<1>8. loop[0] = <<>> /\ \A n \in 1..N : loop[n] = join(loop[n - 1], rs[n])
  BY <1>6, <1>1
<1>9. \A m \in 0..N : loop[m] \in S
  <2> DEFINE Q == {m \in Nat : m <= N => loop[m] \in S}
  <2>1. 0 \in Q
    BY <1>1, <1>8
  <2>2. ASSUME NEW m \in Nat, m \in Q PROVE m + 1 \in Q
    <3> SUFFICES ASSUME m + 1 <= N PROVE loop[m + 1] \in S
      OBVIOUS
    <3>1. loop[m] \in S /\ m + 1 \in 1..N /\ (m + 1) - 1 = m
      BY <2>2, <1>1
    <3>2. loop[m + 1] = join(loop[m], rs[m + 1])
      BY <3>1, <1>8
    <3> QED BY <3>1, <3>2, <1>1, JoinType DEF S
  <2> HIDE DEF Q
  <2>3. \A m \in Nat : m \in Q
    BY <2>1, <2>2, Induction
  <2> QED BY <2>3, <1>1 DEF Q
<1>10. loop \in [0..N -> S]
  BY <1>6, <1>9
<1>11. MergeRun(loop, rs)
  BY <1>8, <1>10 DEF MergeRun, S
<1> QED BY <1>7, <1>11

\* What the rounds keep: the regions joined so far do not touch, they have the bytes
\* of those they were made from, and the last one ends where the last of those does.
Joined(out, rs, n) ==
    /\ Apart(out, 1)
    /\ Cov(out, Len(out)) = Cov(rs, n)
    /\ n = 0 => out = <<>>
    /\ n > 0 => out # <<>> /\ REnd(out[Len(out)]) = REnd(rs[n])

LEMMA InApart ==
    ASSUME NEW rs, NEW g, Apart(rs, g)
    PROVE  /\ rs \in Seq(Region) /\ Len(rs) \in Nat
           /\ \A i \in 1..Len(rs) :
                  /\ rs[i] \in Region /\ rs[i].base \in Nat /\ rs[i].size \in Nat \ {0}
                  /\ REnd(rs[i]) = rs[i].base + rs[i].size
<1>1. rs \in Seq(Region) /\ Len(rs) \in Nat
  BY DEF Apart
<1>2. ASSUME NEW i \in 1..Len(rs)
      PROVE  /\ rs[i] \in Region /\ rs[i].base \in Nat /\ rs[i].size \in Nat \ {0}
             /\ REnd(rs[i]) = rs[i].base + rs[i].size
  <2>1. rs[i] \in Region
    BY <1>1, ElementOfSeq
  <2>2. rs[i].size > 0
    BY DEF Apart
  <2> QED BY <2>1, <2>2, RegionFacts
<1> QED BY <1>1, <1>2

LEMMA EndType ==
    ASSUME NEW rs, NEW g, Apart(rs, g), NEW i \in 1..Len(rs)
    PROVE  rs[i] \in Region /\ rs[i].base \in Nat /\ REnd(rs[i]) \in Nat
<1>1. rs[i] \in Region
  BY InApart
<1> QED BY <1>1, RegionFacts

LEMMA JoinStep ==
    ASSUME NEW rs, Apart(rs, 0), NEW n \in 1..Len(rs), NEW out, Joined(out, rs, n - 1)
    PROVE  Joined(join(out, rs[n]), rs, n)
<1> DEFINE r == rs[n]
           l == Len(out)
<1>1. r \in Region /\ r.base \in Nat /\ r.size \in Nat \ {0} /\ REnd(r) = r.base + r.size
  BY InApart
<1>2. Apart(out, 1) /\ Cov(out, l) = Cov(rs, n - 1)
  BY DEF Joined
<1>3. Len(rs) \in Nat /\ n \in Nat \ {0} /\ out \in Seq(Region) /\ l \in Nat
  BY <1>2, InApart
<1>4. Cov(rs, n) = Cov(out, l) \cup Bytes(r)
  BY <1>2, <1>3, CovNext
<1>5. CASE out # <<>> /\ REnd(out[l]) = r.base
  <2>1. l \in 1..l /\ out[l] \in Region /\ out[l].base \in Nat /\ out[l].size \in Nat \ {0}
        /\ REnd(out[l]) = out[l].base + out[l].size
    <3>1. l \in 1..l
      BY <1>3, <1>5, EmptySeq
    <3> QED BY <3>1, <1>2, InApart
  <2> DEFINE w == Rgn(out[l].base, out[l].size + r.size)
             q == [out EXCEPT ![l] = w]
  <2>2. join(out, r) = q
    <3>1. [out[l] EXCEPT !.size = @ + r.size] = w
      BY <2>1, <1>1, Wider
    <3>2. join(out, r) = [out EXCEPT ![l] = [out[l] EXCEPT !.size = @ + r.size]]
      BY <1>5 DEF join
    <3> HIDE DEF l, r, w
    <3> QED BY <3>1, <3>2
  <2>3. w \in Region /\ w.base = out[l].base /\ w.size = out[l].size + r.size
        /\ w.size > 0 /\ REnd(w) = REnd(r)
    <3>1. out[l].size + r.size \in Nat
      <4> DEFINE x == out[l].size
                 y == r.size
      <4>1. x \in Nat /\ y \in Nat
        BY <2>1, <1>1
      <4> HIDE DEF x, y
      <4>2. x + y \in Nat
        BY <4>1
      <4> QED BY <4>2 DEF x, y
    <3>2. w \in Region /\ w.base = out[l].base /\ w.size = out[l].size + r.size
          /\ REnd(w) = out[l].base + (out[l].size + r.size)
      <4> DEFINE x == out[l].base
                 y == out[l].size + r.size
      <4>1. x \in Nat /\ y \in Nat
        BY <2>1, <3>1
      <4> HIDE DEF x, y
      <4>2. Rgn(x, y) \in Region /\ Rgn(x, y).base = x /\ Rgn(x, y).size = y
            /\ REnd(Rgn(x, y)) = x + y
        BY <4>1, RgnFacts
      <4> QED BY <4>2 DEF x, y
    <3> HIDE DEF w, l, r
    <3> QED BY <3>2, <2>1, <1>1, <1>5
  <2> HIDE DEF w
  <2>4. q \in Seq(Region) /\ Len(q) = l /\ q[l] = w /\ \A i \in 1..l : i # l => q[i] = out[i]
    <3>1. q \in Seq(Region) /\ Len(q) = l
      BY <1>3, <2>1, <2>3, ExceptSeq
    <3>2. DOMAIN out = 1..l
      BY <1>3, LenProperties
    <3> QED BY <3>1, <3>2, <2>1
  <2> HIDE DEF q
  <2>5. Apart(q, 1)
    <3>1. \A i \in 1..Len(q) : q[i].size > 0
      BY <1>2, <2>3, <2>4 DEF Apart
    <3>2. ASSUME NEW i \in 1..Len(q), NEW j \in 1..Len(q), i < j
          PROVE  REnd(q[i]) + 1 <= q[j].base
      <4>1. i \in 1..l /\ j \in 1..l /\ i # l
        BY <2>4, <3>2, <1>3
      <4>2. q[i] = out[i] /\ q[j].base = out[j].base
        BY <2>3, <2>4, <4>1
      <4>3. REnd(out[i]) + 1 <= out[j].base
        BY <1>2, <4>1, <3>2 DEF Apart
      <4> QED BY <4>2, <4>3
    <3> QED BY <2>4, <3>1, <3>2 DEF Apart
  <2>6. Cov(q, l) = Cov(out, l) \cup Bytes(r)
    <3>1. Cov(q, l) = Cov(q, l - 1) \cup Bytes(w) /\ Cov(out, l) = Cov(out, l - 1) \cup Bytes(out[l])
      BY <2>1, <2>4, CovNext
    <3>2. Cov(q, l - 1) = Cov(out, l - 1)
      <4>1. \A i \in 1..(l - 1) : q[i] = out[i]
        BY <2>4, <1>3
      <4> QED BY <4>1 DEF Cov
    <3>3. Bytes(w) = Bytes(out[l]) \cup Bytes(r)
      <4> DEFINE a == out[l].base
                 b == r.base
                 c == REnd(r)
      <4>3. a \in Nat /\ out[l].size \in Nat /\ b = a + out[l].size
        BY <1>5, <2>1
      <4>4. b \in Nat /\ r.size \in Nat /\ c = b + r.size
        BY <1>1, RegionFacts
      <4>1. a \in Nat /\ b \in Nat /\ c \in Nat /\ a <= b /\ b <= c
        <5> DEFINE x == out[l].size
                   y == r.size
        <5>1. a \in Nat /\ x \in Nat /\ b = a + x /\ y \in Nat /\ c = b + y
          BY <4>3, <4>4
        <5> HIDE DEF a, b, c, x, y
        <5> QED BY <5>1
      <4>2. Bytes(w) = a .. (c - 1) /\ Bytes(out[l]) = a .. (b - 1) /\ Bytes(r) = b .. (c - 1)
        BY <1>5, <2>3 DEF Bytes
      <4> HIDE DEF a, b, c
      <4> QED BY <4>1, <4>2, Split
    <3> QED BY <3>1, <3>2, <3>3
  <2>7. q # <<>>
    BY <2>1, <2>4, EmptySeq
  <2> HIDE DEF l, r
  <2>8. Joined(q, rs, n)
    BY <2>3, <2>4, <2>5, <2>6, <2>7, <1>3, <1>4 DEF Joined, r
  <2> QED BY <2>2, <2>8 DEF r
<1>6. CASE ~(out # <<>> /\ REnd(out[l]) = r.base)
  <2>1. join(out, r) = Append(out, r)
    BY <1>6 DEF join
  <2>2. ASSUME NEW i \in 1..l PROVE REnd(out[i]) + 1 <= r.base
    <3>1. l \in 1..l /\ out # <<>> /\ REnd(out[l]) # r.base
      BY <1>3, <1>6, EmptySeq
    <3>2. n - 1 > 0 /\ REnd(out[l]) = REnd(rs[n - 1])
      BY <3>1, <1>3 DEF Joined
    <3>3. REnd(rs[n - 1]) <= r.base
      <4>1. n - 1 \in 1..Len(rs) /\ n - 1 < n
        BY <3>2, <1>3
      <4>2. REnd(rs[n - 1]) + 0 <= rs[n].base
        BY <4>1 DEF Apart
      <4>3. REnd(rs[n - 1]) \in Nat
        BY <4>1, InApart
      <4> QED BY <4>2, <4>3
    <3>4. REnd(out[l]) + 1 <= r.base
      <4>1. REnd(out[l]) \in Nat
        BY <3>1, <1>2, InApart
      <4> QED BY <4>1, <3>1, <3>2, <3>3, <1>1
    <3>5. CASE i = l
      BY <3>4, <3>5
    <3>6. CASE i # l
      <4>1. REnd(out[i]) + 1 <= out[l].base
        BY <1>2, <1>3, <3>1, <3>6 DEF Apart
      <4>2. /\ out[l].base \in Nat /\ out[l].size \in Nat
            /\ REnd(out[l]) = out[l].base + out[l].size
        BY <1>2, <3>1, InApart
      <4>3. out[i].base \in Nat /\ out[i].size \in Nat /\ REnd(out[i]) = out[i].base + out[i].size
        BY <1>2, InApart
      <4> DEFINE e == REnd(out[i])
                 b == out[l].base
                 c == REnd(out[l])
                 d == r.base
      <4>4. e \in Nat /\ b \in Nat /\ c \in Nat /\ d \in Nat /\ b <= c
        <5>1. d \in Nat
          BY <1>1
        <5>2. e \in Nat
          BY <4>3
        <5>3. b \in Nat /\ c \in Nat /\ b <= c
          BY <4>2
        <5> HIDE DEF b, c, d, e
        <5> QED BY <5>1, <5>2, <5>3
      <4>5. e + 1 <= b /\ c + 1 <= d
        BY <4>1, <3>4
      <4> HIDE DEF b, c, d, e
      <4>6. e + 1 <= d
        BY <4>4, <4>5
      <4> QED BY <4>6 DEF d, e
    <3> QED BY <3>5, <3>6
  <2> DEFINE q == Append(out, r)
  <2>3. /\ Apart(q, 1) /\ Len(q) = l + 1 /\ q[l + 1] = r
        /\ Cov(q, l + 1) = Cov(out, l) \cup Bytes(r)
    BY <1>1, <1>2, <2>2, AppendApart
  <2>4. q # <<>>
    BY <1>3, AppendProperties
  <2> HIDE DEF q, l, r
  <2>5. Joined(q, rs, n)
    BY <2>3, <2>4, <1>3, <1>4 DEF Joined, r
  <2> QED BY <2>1, <2>5 DEF q, r
<1> QED BY <1>5, <1>6

\* Merging leaves the bytes alone, and no two regions that touch.
LEMMA MergeApart ==
    ASSUME NEW rs, Apart(rs, 0), Len(rs) > 0
    PROVE  LET m == memblock_merge_regions(rs)
           IN  Apart(m, 1) /\ Len(m) > 0 /\ Cov(m, Len(m)) = Cov(rs, Len(rs))
<1>1. rs \in Seq(Region) /\ Len(rs) \in Nat
  BY InApart
<1>2. PICK f : MergeRun(f, rs) /\ memblock_merge_regions(rs) = f[Len(rs)]
  BY <1>1, MergeRuns
<1> DEFINE Q == {m \in Nat : m <= Len(rs) => Joined(f[m], rs, m)}
<1>3. 0 \in Q
  <2>1. f[0] = <<>>
    BY <1>2 DEF MergeRun
  <2>2. Apart(<<>>, 1)
    BY EmptySeq DEF Apart
  <2>3. Cov(<<>>, Len(<<>>)) = Cov(rs, 0)
    BY CovNone
  <2>4. Joined(<<>>, rs, 0)
    BY <2>2, <2>3 DEF Joined
  <2> QED BY <2>1, <2>4
<1>4. ASSUME NEW m \in Nat, m \in Q PROVE m + 1 \in Q
  <2> SUFFICES ASSUME m + 1 <= Len(rs) PROVE Joined(f[m + 1], rs, m + 1)
    OBVIOUS
  <2>1. m + 1 \in 1..Len(rs) /\ (m + 1) - 1 = m /\ Joined(f[m], rs, m)
    BY <1>1, <1>4
  <2>2. f[m + 1] = join(f[m], rs[m + 1])
    BY <1>2, <2>1 DEF MergeRun
  <2>3. Joined(join(f[m], rs[m + 1]), rs, m + 1)
    BY <2>1, JoinStep
  <2> QED BY <2>2, <2>3
<1> HIDE DEF Q
<1>5. \A m \in Nat : m \in Q
  BY <1>3, <1>4, Induction
<1>6. Joined(f[Len(rs)], rs, Len(rs))
  BY <1>1, <1>5 DEF Q
<1> DEFINE m == f[Len(rs)]
<1>7. Apart(m, 1) /\ m # <<>> /\ Cov(m, Len(m)) = Cov(rs, Len(rs))
  BY <1>6 DEF Joined
<1>8. Len(m) > 0
  <2>1. m \in Seq(Region) /\ Len(m) \in Nat
    BY <1>7, InApart
  <2> QED BY <2>1, <1>7, EmptySeq
<1> QED BY <1>2, <1>7, <1>8

----------------------------------------------------------------------------
(* Inserting *)

LEMMA MinMaxIs ==
    ASSUME NEW a \in Int, NEW b \in Int
    PROVE  /\ Min({a, b}) = IF a <= b THEN a ELSE b
           /\ Max({a, b}) = IF a <= b THEN b ELSE a
<1>1. \A x \in {a, b} : x \in Int
  OBVIOUS
<1>2. Min({a, b}) = IF a <= b THEN a ELSE b
  BY DEF Min
<1>3. Max({a, b}) = IF a <= b THEN b ELSE a
  BY DEF Max
<1> QED BY <1>2, <1>3

Pass == [base : Nat, out : Seq(Region), total : Nat]

LEMMA InsertIs ==
    ASSUME NEW s \in Pass, NEW upto \in Nat
    PROVE  LET t == memblock_insert_region(s, upto)
           IN  /\ t \in Pass /\ t.base = s.base
               /\ s.base < upto => /\ t.out = Append(s.out, Rgn(s.base, upto - s.base))
                                   /\ t.total = s.total + (upto - s.base)
               /\ ~(s.base < upto) => t.out = s.out /\ t.total = s.total
<1>1. CASE s.base < upto
  <2> DEFINE o == Append(s.out, Rgn(s.base, upto - s.base))
             c == s.total + (upto - s.base)
             t == [base |-> s.base, out |-> o, total |-> c]
  <2>1. s.base \in Nat /\ s.out \in Seq(Region) /\ s.total \in Nat
    BY DEF Pass
  <2>2. o \in Seq(Region) /\ c \in Nat
    <3>1. upto - s.base \in Nat
      BY <1>1, <2>1
    <3>2. Rgn(s.base, upto - s.base) \in Region
      BY <2>1, <3>1, RgnFacts
    <3> QED BY <2>1, <3>1, <3>2, AppendProperties
  <2>3. memblock_insert_region(s, upto) = t
    <3>1. memblock_insert_region(s, upto) = [s EXCEPT !.out = o, !.total = c]
      BY <1>1 DEF memblock_insert_region
    <3> HIDE DEF o, c
    <3> QED BY <3>1 DEF Pass
  <2> HIDE DEF o, c
  <2>4. t \in Pass /\ t.base = s.base /\ t.out = o /\ t.total = c
    BY <2>1, <2>2 DEF Pass
  <2> QED BY <1>1, <2>3, <2>4 DEF o, c
<1>2. CASE ~(s.base < upto)
  BY <1>2 DEF memblock_insert_region
<1> QED BY <1>1, <1>2

\* What a round of memblock_add_regions() does, when t is what it inserted.
PassedBy(p, t, s, r, end) ==
    /\ r.base >= end => p.base = end /\ p.out = Append(t.out, r) /\ p.total = t.total
    /\ r.base < end /\ REnd(r) <= s.base =>
          p.base = s.base /\ p.out = Append(s.out, r) /\ p.total = s.total
    /\ r.base < end /\ s.base < REnd(r) =>
          /\ p.base = IF REnd(r) <= end THEN REnd(r) ELSE end
          /\ p.out = Append(t.out, r) /\ p.total = t.total

LEMMA PassIs ==
    ASSUME NEW s \in Pass, NEW r \in Region, NEW end \in Nat
    PROVE  /\ pass(s, r, end) \in Pass
           /\ PassedBy(pass(s, r, end),
                       memblock_insert_region(s, IF r.base >= end THEN end ELSE r.base),
                       s, r, end)
<1> DEFINE t == memblock_insert_region(s, IF r.base >= end THEN end ELSE r.base)
           p == pass(s, r, end)
           m == IF REnd(r) <= end THEN REnd(r) ELSE end
<1>1. r.base \in Nat /\ REnd(r) \in Nat /\ s.base \in Nat /\ m \in Nat
  BY RegionFacts DEF Pass
<1>2. t \in Pass
  BY <1>1, InsertIs
<1>3. CASE r.base >= end
  <2>1. p = [t EXCEPT !.out = Append(@, r), !.base = end]
    BY <1>3 DEF pass
  <2> HIDE DEF t, p
  <2>2. Append(t.out, r) \in Seq(Region)
    BY <1>2, AppendProperties DEF Pass
  <2>3. p = [base |-> end, out |-> Append(t.out, r), total |-> t.total]
    BY <1>2, <2>1 DEF Pass
  <2>4. p \in Pass /\ p.base = end /\ p.out = Append(t.out, r) /\ p.total = t.total
    BY <1>2, <2>2, <2>3 DEF Pass
  <2>5. PassedBy(p, t, s, r, end)
    BY <1>1, <1>3, <2>4 DEF PassedBy
  <2> QED BY <2>4, <2>5 DEF t, p
<1>4. CASE r.base < end /\ REnd(r) <= s.base
  <2>1. p = [s EXCEPT !.out = Append(@, r)]
    BY <1>1, <1>4 DEF pass
  <2> HIDE DEF p, t
  <2>2. Append(s.out, r) \in Seq(Region)
    BY AppendProperties DEF Pass
  <2>3. p = [base |-> s.base, out |-> Append(s.out, r), total |-> s.total]
    BY <2>1 DEF Pass
  <2>4. p \in Pass /\ p.base = s.base /\ p.out = Append(s.out, r) /\ p.total = s.total
    BY <2>2, <2>3 DEF Pass
  <2>5. PassedBy(p, t, s, r, end)
    BY <1>1, <1>4, <2>4 DEF PassedBy
  <2> QED BY <2>4, <2>5 DEF t, p
<1>5. CASE r.base < end /\ s.base < REnd(r)
  <2>1. p = [t EXCEPT !.out = Append(@, r), !.base = m]
    <3>1. Min({REnd(r), end}) = m
      BY <1>1, MinMaxIs
    <3>2. p = [t EXCEPT !.out = Append(@, r), !.base = Min({REnd(r), end})]
      <4>1. ~(r.base >= end) /\ ~(REnd(r) <= s.base)
        BY <1>1, <1>5
      <4> QED BY <4>1 DEF pass
    <3> HIDE DEF m, p, t
    <3> QED BY <3>1, <3>2
  <2> HIDE DEF t, p, m
  <2>2. Append(t.out, r) \in Seq(Region)
    BY <1>2, AppendProperties DEF Pass
  <2>3. p = [base |-> m, out |-> Append(t.out, r), total |-> t.total]
    BY <1>2, <2>1 DEF Pass
  <2>4. p \in Pass /\ p.base = m /\ p.out = Append(t.out, r) /\ p.total = t.total
    BY <1>1, <1>2, <2>2, <2>3 DEF Pass
  <2>5. PassedBy(p, t, s, r, end)
    BY <1>1, <1>5, <2>4 DEF PassedBy, m
  <2> QED BY <2>4, <2>5 DEF t, p
<1> QED BY <1>1, <1>3, <1>4, <1>5

LEMMA PassType ==
    ASSUME NEW s \in Pass, NEW r \in Region, NEW end \in Nat
    PROVE  pass(s, r, end) \in Pass
BY PassIs

\* The states between the rounds of memblock_add_regions().
InsertRun(f, rs, base, total, end) ==
    /\ f \in [0..Len(rs) -> Pass]
    /\ f[0] = [base |-> base, out |-> <<>>, total |-> total]
    /\ \A n \in 1..Len(rs) : f[n] = pass(f[n - 1], rs[n], end)

LEMMA InsertRuns ==
    ASSUME NEW type, type.regions \in Seq(Region), type.total_size \in Nat,
           NEW base \in Nat, NEW end \in Nat
    PROVE  \E f : /\ InsertRun(f, type.regions, base, type.total_size, end)
                  /\ insert_uncovered(type, base, end)
                        = memblock_insert_region(f[Len(type.regions)], end)
<1> DEFINE rs == type.regions
           N == Len(rs)
           x == [base |-> base, out |-> <<>>, total |-> type.total_size]
           step == [p \in (1..N) \X Pass |-> pass(p[2], rs[p[1]], end)]
           Body(f) == [n \in 0..N |-> IF n = 0 THEN x ELSE pass(f[n - 1], rs[n], end)]
           loop == CHOOSE f : f = Body(f)
<1>1. N \in Nat /\ x \in Pass /\ \A n \in 1..N : rs[n] \in Region
  BY ElementOfSeq DEF Pass
<1>2. step \in [(1..N) \X Pass -> Pass]
  <2> SUFFICES ASSUME NEW p \in (1..N) \X Pass PROVE pass(p[2], rs[p[1]], end) \in Pass
    OBVIOUS
  <2>1. p[2] \in Pass /\ rs[p[1]] \in Region
    BY <1>1
  <2> QED BY <2>1, PassType
<1>3. \A n \in 1..N, s \in Pass : step[<<n, s>>] = pass(s, rs[n], end)
  OBVIOUS
<1>7. insert_uncovered(type, base, end) = memblock_insert_region(loop[N], end)
  BY DEF insert_uncovered
<1> HIDE DEF step, x
<1>4. PICK g : IsRun(g, N, Pass, x, step)
  <2> HIDE DEF N, rs
  <2> QED BY <1>1, <1>2, RunExists
<1>5. g = Body(g)
  <2>1. g \in [0..N -> Pass] /\ g[0] = x /\ \A n \in 1..N : g[n] = step[<<n, g[n - 1]>>]
    BY <1>4 DEF IsRun
  <2>2. ASSUME NEW n \in 0..N PROVE g[n] = IF n = 0 THEN x ELSE pass(g[n - 1], rs[n], end)
    <3>1. CASE n = 0
      BY <3>1, <2>1
    <3>2. CASE n # 0
      <4>1. n \in 1..N /\ n - 1 \in 0..N
        BY <3>2
      <4> QED BY <4>1, <2>1, <1>3
    <3> QED BY <3>1, <3>2
  <2> QED BY <2>1, <2>2
<1>6. loop = Body(loop)
  BY <1>5
<1> HIDE DEF loop
<1>8. loop[0] = x /\ \A n \in 1..N : loop[n] = pass(loop[n - 1], rs[n], end)
  <2> HIDE DEF N, rs
  <2> QED BY <1>6, <1>1
<1>9. \A m \in 0..N : loop[m] \in Pass
  <2> DEFINE Q == {m \in Nat : m <= N => loop[m] \in Pass}
  <2>1. 0 \in Q
    BY <1>1, <1>8
  <2>2. ASSUME NEW m \in Nat, m \in Q PROVE m + 1 \in Q
    <3> SUFFICES ASSUME m + 1 <= N PROVE loop[m + 1] \in Pass
      OBVIOUS
    <3>1. loop[m] \in Pass /\ m + 1 \in 1..N /\ (m + 1) - 1 = m
      BY <2>2, <1>1
    <3>2. loop[m + 1] = pass(loop[m], rs[m + 1], end) /\ rs[m + 1] \in Region
      BY <3>1, <1>8, <1>1
    <3> QED BY <3>1, <3>2, PassType
  <2> HIDE DEF Q
  <2>3. \A m \in Nat : m \in Q
    BY <2>1, <2>2, Induction
  <2> QED BY <2>3, <1>1 DEF Q
<1>10. loop \in [0..N -> Pass]
  BY <1>6, <1>9
<1>11. InsertRun(loop, rs, base, type.total_size, end)
  BY <1>8, <1>10 DEF InsertRun, x
<1> QED BY <1>7, <1>11

\* The regions of o end at or before byte e.
EndBy(o, e) == \A i \in 1..Len(o) : REnd(o[i]) <= e

\* The regions of o lie before those of rs behind the first n.
Before(o, rs, n) == \A i \in 1..Len(o), j \in 1..Len(rs) : j > n => REnd(o[i]) <= rs[j].base

\* The regions behind the first n start at or behind byte e.
RoomTo(rs, n, e) == \A j \in 1..Len(rs) : j > n => e <= rs[j].base

\* All bytes of the new and the old array.
Bytes2(o, rs) == Cov(rs, Len(rs)) \cup Cov(o, Len(o))

\* What the rounds keep, when b is where the rest of the new range starts, o the new
\* array and c the count of bytes: o has the first n regions and the new range up to b.
Passing(b, o, c, rs, n, base, end) ==
    /\ b \in Nat /\ base <= b /\ b <= end
    /\ Apart(o, 0)
    /\ Before(o, rs, n)
    /\ b < end => EndBy(o, b)
    /\ Cov(o, Len(o)) = Cov(rs, n) \cup (base .. (b - 1))
    /\ IsFiniteSet(Bytes2(o, rs)) /\ c = Cardinality(Bytes2(o, rs))

\* What an insertion does: the new array o becomes q, with the bytes from b to upto.
Inserted(q, c, rs, n, o, b, upto) ==
    /\ Apart(q, 0) /\ Before(q, rs, n)
    /\ Cov(q, Len(q)) = Cov(o, Len(o)) \cup (b .. (upto - 1))
    /\ IsFiniteSet(Bytes2(q, rs)) /\ c = Cardinality(Bytes2(q, rs))

\* Inserting the part up to an address before the other regions.
LEMMA InsertPiece ==
    ASSUME NEW rs, Apart(rs, 0), NEW n \in 0..Len(rs), NEW base \in Nat, NEW end \in Nat,
           NEW b \in Nat, NEW o, NEW c, Passing(b, o, c, rs, n, base, end),
           NEW upto \in Nat, b < upto, upto <= end, RoomTo(rs, n, upto)
    PROVE  /\ Inserted(Append(o, Rgn(b, upto - b)), c + (upto - b), rs, n, o, b, upto)
           /\ EndBy(Append(o, Rgn(b, upto - b)), upto)
<1> DEFINE r == Rgn(b, upto - b)
           q == Append(o, r)
<1>1. b \in Nat /\ b < end /\ EndBy(o, b) /\ Apart(o, 0) /\ Before(o, rs, n)
  BY DEF Passing
<1>2. o \in Seq(Region) /\ Len(o) \in Nat /\ Len(rs) \in Nat
  BY <1>1, InApart
<1>3. r \in Region /\ r.base = b /\ r.size = upto - b /\ r.size > 0 /\ REnd(r) = upto
      /\ Bytes(r) = b .. (upto - 1)
  <2>1. upto - b \in Nat /\ b + (upto - b) = upto /\ upto - b > 0
    BY <1>1
  <2>2. /\ r \in Region /\ r.base = b /\ r.size = upto - b
        /\ REnd(r) = b + (upto - b) /\ Bytes(r) = b .. (b + (upto - b) - 1)
    BY <2>1, <1>1, RgnFacts
  <2> HIDE DEF r
  <2> QED BY <2>1, <2>2
<1> HIDE DEF r
<1>4. \A i \in 1..Len(o) : REnd(o[i]) \in Nat /\ REnd(o[i]) <= b
  <2> SUFFICES ASSUME NEW i \in 1..Len(o) PROVE REnd(o[i]) \in Nat /\ REnd(o[i]) <= b
    OBVIOUS
  <2>1. REnd(o[i]) \in Nat
    BY <1>1, EndType
  <2> QED BY <2>1, <1>1 DEF EndBy
<1>5. \A i \in 1..Len(o) : REnd(o[i]) + 0 <= r.base
  BY <1>3, <1>4
<1>6. /\ Apart(q, 0) /\ Len(q) = Len(o) + 1 /\ q[Len(o) + 1] = r
      /\ \A i \in 1..Len(o) : q[i] = o[i]
      /\ Cov(q, Len(o) + 1) = Cov(o, Len(o)) \cup Bytes(r)
  <2>1. 0 \in Nat
    OBVIOUS
  <2>2. Apart(o, 0) /\ r \in Region /\ r.size > 0
    BY <1>1, <1>3
  <2> QED BY <1>5, <2>1, <2>2, AppendApart
<1> HIDE DEF q
<1>7. EndBy(q, upto)
  <2> SUFFICES ASSUME NEW i \in 1..Len(q) PROVE REnd(q[i]) <= upto
    BY DEF EndBy
  <2>1. CASE i = Len(o) + 1
    BY <2>1, <1>6, <1>3
  <2>2. CASE i # Len(o) + 1
    <3>1. i \in 1..Len(o) /\ q[i] = o[i]
      BY <2>2, <1>6, <1>2
    <3> QED BY <3>1, <1>4, <1>1
  <2> QED BY <2>1, <2>2
<1>8. Before(q, rs, n)
  <2> SUFFICES ASSUME NEW i \in 1..Len(q), NEW j \in 1..Len(rs), j > n
               PROVE  REnd(q[i]) <= rs[j].base
    BY DEF Before
  <2>1. REnd(q[i]) <= upto /\ upto <= rs[j].base
    BY <1>7 DEF EndBy, RoomTo
  <2>2. REnd(q[i]) \in Nat /\ rs[j].base \in Nat
    BY <1>6, EndType
  <2> QED BY <2>1, <2>2
<1>9. Cov(q, Len(q)) = Cov(o, Len(o)) \cup (b .. (upto - 1))
  BY <1>3, <1>6
<1> DEFINE V == Bytes2(o, rs)
           I == b .. (upto - 1)
<1>10. V \cap I = {}
  <2> SUFFICES ASSUME NEW x \in I, x \in V PROVE FALSE
    OBVIOUS
  <2>1. x \in Nat /\ b <= x /\ x < upto
    BY <1>1
  <2>2. x \notin Cov(o, Len(o))
    <3> SUFFICES ASSUME NEW i \in 1..Len(o), x \in Bytes(o[i]) PROVE FALSE
      BY CovIs
    <3>1. o[i] \in Region /\ REnd(o[i]) \in Nat
      BY <1>1, EndType
    <3>2. x < REnd(o[i])
      BY <3>1, RegionFacts
    <3> QED BY <3>1, <3>2, <1>4, <2>1, <1>1
  <2>3. x \in Cov(rs, Len(rs))
    BY <2>2 DEF Bytes2
  <2>4. PICK j \in 1..Len(rs) : x \in Bytes(rs[j])
    BY <2>3, CovIs
  <2>5. j > n
    <3> SUFFICES ASSUME ~(j > n) PROVE FALSE
      OBVIOUS
    <3>1. j \in 1..n
      OBVIOUS
    <3>2. x \in Cov(rs, n)
      BY <3>1, <2>4, CovIs
    <3>3. x \in Cov(o, Len(o))
      BY <3>2 DEF Passing
    <3> QED BY <3>3, <2>2
  <2>6. rs[j] \in Region /\ rs[j].base \in Nat
    BY InApart
  <2>7. rs[j].base <= x
    BY <2>4, <2>6, RegionFacts
  <2>8. upto <= rs[j].base
    BY <2>5 DEF RoomTo
  <2> QED BY <2>1, <2>6, <2>7, <2>8
<1>11. Bytes2(q, rs) = V \cup I
  BY <1>9 DEF Bytes2
<1>12. IsFiniteSet(V) /\ c = Cardinality(V)
  BY DEF Passing
<1>13. IsFiniteSet(I) /\ Cardinality(I) = upto - b
  <2>1. b \in Int /\ upto - 1 \in Int /\ ~(b > upto - 1) /\ (upto - 1) - b + 1 = upto - b
    BY <1>1
  <2> QED BY <2>1, FS_Interval
<1> HIDE DEF V, I
<1>14. /\ IsFiniteSet(V \cup I)
       /\ Cardinality(V \cup I) = Cardinality(V) + Cardinality(I) - Cardinality(V \cap I)
  <2>1. IsFiniteSet(V) /\ IsFiniteSet(I)
    BY <1>12, <1>13
  <2> QED BY <2>1, FS_Union
<1>15. Cardinality(V \cup I) = c + (upto - b)
  <2>1. Cardinality(V \cap I) = 0 /\ Cardinality(V) \in Nat
    BY <1>10, <1>12, FS_EmptySet, FS_CardinalityType
  <2> QED BY <1>1, <1>12, <1>13, <1>14, <2>1
<1>16. Inserted(q, c + (upto - b), rs, n, o, b, upto)
  BY <1>6, <1>8, <1>9, <1>11, <1>14, <1>15 DEF Inserted
<1> QED BY <1>7, <1>16 DEF q, r

\* The same, when there may be nothing to insert.
LEMMA InsertStep ==
    ASSUME NEW rs, Apart(rs, 0), NEW n \in 0..Len(rs), NEW base \in Nat, NEW end \in Nat,
           NEW s \in Pass, Passing(s.base, s.out, s.total, rs, n, base, end),
           NEW upto \in Nat, upto <= end,
           RoomTo(rs, n, upto), NEW t, t = memblock_insert_region(s, upto)
    PROVE  /\ t \in Pass /\ t.base = s.base
           /\ Inserted(t.out, t.total, rs, n, s.out, s.base, upto)
           /\ s.base < end => EndBy(t.out, IF s.base < upto THEN upto ELSE s.base)
<1>1. /\ t \in Pass /\ t.base = s.base
      /\ s.base < upto => /\ t.out = Append(s.out, Rgn(s.base, upto - s.base))
                          /\ t.total = s.total + (upto - s.base)
      /\ ~(s.base < upto) => t.out = s.out /\ t.total = s.total
  BY InsertIs
<1>2. CASE s.base < upto
  <2>1. t.out = Append(s.out, Rgn(s.base, upto - s.base)) /\ t.total = s.total + (upto - s.base)
    BY <1>1, <1>2
  <2>2. Inserted(t.out, t.total, rs, n, s.out, s.base, upto) /\ EndBy(t.out, upto)
    <3> DEFINE b == s.base
               o == s.out
               c == s.total
    <3>1. Passing(b, o, c, rs, n, base, end) /\ b < upto /\ b \in Nat
      BY <1>2 DEF Pass
    <3> HIDE DEF b, o, c
    <3>2. /\ Inserted(Append(o, Rgn(b, upto - b)), c + (upto - b), rs, n, o, b, upto)
          /\ EndBy(Append(o, Rgn(b, upto - b)), upto)
      BY <3>1, InsertPiece
    <3> QED BY <3>2, <2>1 DEF b, o, c
  <2> QED BY <1>1, <1>2, <2>2
<1>3. CASE ~(s.base < upto)
  <2>1. t.out = s.out /\ t.total = s.total
    BY <1>1, <1>3
  <2>2. s.base .. (upto - 1) = {}
    BY <1>3 DEF Pass
  <2>3. /\ Apart(s.out, 0) /\ Before(s.out, rs, n) /\ (s.base < end => EndBy(s.out, s.base))
        /\ IsFiniteSet(Bytes2(s.out, rs)) /\ s.total = Cardinality(Bytes2(s.out, rs))
    BY DEF Passing
  <2>4. Inserted(s.out, s.total, rs, n, s.out, s.base, upto)
    BY <2>2, <2>3 DEF Inserted
  <2> QED BY <1>1, <1>3, <2>1, <2>3, <2>4
<1> QED BY <1>2, <1>3

\* Region n of rs follows those of the new array.
LEMMA AppendNext ==
    ASSUME NEW rs, Apart(rs, 0), NEW n \in 1..Len(rs), NEW o, Apart(o, 0), Before(o, rs, n - 1)
    PROVE  /\ Apart(Append(o, rs[n]), 0) /\ Before(Append(o, rs[n]), rs, n)
           /\ Cov(Append(o, rs[n]), Len(Append(o, rs[n]))) = Cov(o, Len(o)) \cup Bytes(rs[n])
           /\ Bytes2(Append(o, rs[n]), rs) = Bytes2(o, rs)
           /\ \A e \in Nat : EndBy(o, e) /\ REnd(rs[n]) <= e => EndBy(Append(o, rs[n]), e)
<1> DEFINE r == rs[n]
           q == Append(o, r)
<1>1. r \in Region /\ r.base \in Nat /\ r.size \in Nat \ {0} /\ REnd(r) \in Nat
  <2>1. r \in Region /\ r.base \in Nat /\ r.size \in Nat \ {0}
    BY InApart
  <2> QED BY <2>1, RegionFacts
<1>2. Len(o) \in Nat /\ Len(rs) \in Nat
  BY InApart
<1>3. \A i \in 1..Len(o) : REnd(o[i]) \in Nat /\ REnd(o[i]) + 0 <= r.base
  <2> SUFFICES ASSUME NEW i \in 1..Len(o) PROVE REnd(o[i]) \in Nat /\ REnd(o[i]) + 0 <= r.base
    OBVIOUS
  <2>1. REnd(o[i]) \in Nat
    BY EndType
  <2>2. n > n - 1
    BY <1>2
  <2>3. REnd(o[i]) <= r.base
    BY <2>2 DEF Before
  <2> QED BY <2>1, <2>3
<1>4. /\ Apart(q, 0) /\ Len(q) = Len(o) + 1 /\ q[Len(o) + 1] = r
      /\ \A i \in 1..Len(o) : q[i] = o[i]
      /\ Cov(q, Len(o) + 1) = Cov(o, Len(o)) \cup Bytes(r)
  <2> HIDE DEF r
  <2> QED BY <1>1, <1>3, AppendApart
<1> HIDE DEF q
<1>5. \A i \in 1..Len(q) : (i = Len(o) + 1 /\ q[i] = r) \/ (i \in 1..Len(o) /\ q[i] = o[i])
  <2> HIDE DEF r
  <2> QED BY <1>2, <1>4
<1>6. Before(q, rs, n)
  <2> SUFFICES ASSUME NEW i \in 1..Len(q), NEW j \in 1..Len(rs), j > n
               PROVE  REnd(q[i]) <= rs[j].base
    BY DEF Before
  <2>1. CASE i = Len(o) + 1 /\ q[i] = r
    <3>1. REnd(rs[n]) + 0 <= rs[j].base
      BY DEF Apart
    <3> QED BY <3>1, <2>1, <1>1
  <2>2. CASE i \in 1..Len(o) /\ q[i] = o[i]
    <3>1. j > n - 1
      BY <1>2
    <3> QED BY <2>2, <3>1 DEF Before
  <2> QED BY <2>1, <2>2, <1>5
<1>7. Bytes2(q, rs) = Bytes2(o, rs)
  <2>1. Bytes(r) \subseteq Cov(rs, Len(rs))
    BY CovIs
  <2> QED BY <2>1, <1>4 DEF Bytes2
<1>8. \A e \in Nat : EndBy(o, e) /\ REnd(r) <= e => EndBy(q, e)
  BY <1>5 DEF EndBy
<1> QED BY <1>4, <1>6, <1>7, <1>8 DEF q

LEMMA PassStep ==
    ASSUME NEW rs, Apart(rs, 0), NEW n \in 1..Len(rs), NEW base \in Nat, NEW end \in Nat,
           NEW s \in Pass, Passing(s.base, s.out, s.total, rs, n - 1, base, end)
    PROVE  Passing(pass(s, rs[n], end).base, pass(s, rs[n], end).out,
                   pass(s, rs[n], end).total, rs, n, base, end)
<1> DEFINE r == rs[n]
           p == pass(s, r, end)
           u == IF r.base >= end THEN end ELSE r.base
           t == memblock_insert_region(s, u)
           b == s.base
           e == REnd(r)
<1>1. r \in Region /\ r.base \in Nat /\ r.size \in Nat \ {0} /\ e = r.base + r.size /\ e \in Nat
  <2>1. r \in Region /\ r.base \in Nat /\ r.size \in Nat \ {0}
    BY InApart
  <2> QED BY <2>1, RegionFacts
<1>2. n - 1 \in 0..Len(rs) /\ Len(rs) \in Nat /\ n \in Nat \ {0}
  BY InApart
<1>3. b \in Nat /\ base <= b /\ b <= end /\ (b < end => EndBy(s.out, b))
      /\ Apart(s.out, 0) /\ Before(s.out, rs, n - 1)
      /\ Cov(s.out, Len(s.out)) = Cov(rs, n - 1) \cup (base .. (b - 1))
      /\ IsFiniteSet(Bytes2(s.out, rs)) /\ s.total = Cardinality(Bytes2(s.out, rs))
  BY DEF Passing
<1>4. u \in Nat /\ u <= end /\ u <= r.base /\ RoomTo(rs, n - 1, u)
  <2>1. u \in Nat /\ u <= end /\ u <= r.base
    BY <1>1
  <2>2. ASSUME NEW j \in 1..Len(rs), j > n - 1 PROVE u <= rs[j].base
    <3>1. CASE j = n
      BY <3>1, <2>1
    <3>2. CASE j > n
      <4>1. REnd(rs[n]) + 0 <= rs[j].base
        BY <3>2 DEF Apart
      <4>2. rs[j].base \in Nat
        BY EndType
      <4> DEFINE x == rs[j].base
                 y == REnd(rs[n])
                 z == rs[n].base
      <4>3. z \in Nat /\ y \in Nat /\ z <= y /\ u \in Nat /\ u <= z
        BY <1>1, <2>1
      <4>4. x \in Nat /\ y + 0 <= x
        BY <4>1, <4>2
      <4> HIDE DEF u, x, y, z
      <4>5. u <= x
        BY <4>3, <4>4
      <4> QED BY <4>5 DEF x
    <3> QED BY <2>2, <3>1, <3>2, <1>2
  <2> QED BY <2>1, <2>2 DEF RoomTo
<1>5. /\ t \in Pass /\ t.base = b
      /\ Inserted(t.out, t.total, rs, n - 1, s.out, b, u)
      /\ b < end => EndBy(t.out, IF b < u THEN u ELSE b)
  <2> HIDE DEF u
  <2> QED BY <1>2, <1>4, InsertStep
<1>6. /\ Apart(t.out, 0) /\ Before(t.out, rs, n - 1)
      /\ Cov(t.out, Len(t.out)) = Cov(s.out, Len(s.out)) \cup (b .. (u - 1))
      /\ IsFiniteSet(Bytes2(t.out, rs)) /\ t.total = Cardinality(Bytes2(t.out, rs))
  BY <1>5 DEF Inserted
<1>7. Cov(rs, n) = Cov(rs, n - 1) \cup Bytes(r)
  BY <1>2, CovNext
<1>8. Bytes(r) = r.base .. (e - 1)
  BY <1>1 DEF Bytes
<1>9. /\ r.base >= end => p.base = end /\ p.out = Append(t.out, r) /\ p.total = t.total
      /\ r.base < end /\ e <= b => p.base = b /\ p.out = Append(s.out, r) /\ p.total = s.total
      /\ r.base < end /\ b < e => /\ p.base = IF e <= end THEN e ELSE end
                                  /\ p.out = Append(t.out, r) /\ p.total = t.total
  <2>1. r \in Region /\ s \in Pass /\ end \in Nat
    BY <1>1
  <2> HIDE DEF r
  <2>2. PassedBy(p, t, s, r, end)
    BY <2>1, PassIs
  <2> HIDE DEF p, t
  <2> QED BY <2>2 DEF PassedBy
<1>10. CASE r.base < end /\ e <= b
  <2> DEFINE q == Append(s.out, r)
  <2>1. p.base = b /\ p.out = q /\ p.total = s.total
    BY <1>9, <1>10
  <2>2. /\ Apart(q, 0) /\ Before(q, rs, n)
        /\ Cov(q, Len(q)) = Cov(s.out, Len(s.out)) \cup Bytes(r)
        /\ Bytes2(q, rs) = Bytes2(s.out, rs)
        /\ \A x \in Nat : EndBy(s.out, x) /\ e <= x => EndBy(q, x)
    BY <1>3, AppendNext
  <2> HIDE DEF q
  <2>3. Cov(q, Len(q)) = Cov(rs, n) \cup (base .. (b - 1))
    BY <2>2, <1>3, <1>7
  <2>4. b < end => EndBy(q, b)
    BY <2>2, <1>3, <1>10
  <2>5. Passing(b, q, s.total, rs, n, base, end)
    BY <1>3, <2>2, <2>3, <2>4 DEF Passing
  <2> QED BY <2>1, <2>5
<1>11. CASE r.base >= end \/ (r.base < end /\ b < e)
  <2> DEFINE q == Append(t.out, r)
             d == IF r.base < end /\ e <= end THEN e ELSE end
  <2>1. p.base = d /\ p.out = q /\ p.total = t.total
    <3>1. CASE r.base >= end
      <4>1. ~(r.base < end)
        BY <1>1, <3>1
      <4> HIDE DEF p, t, r, e, b
      <4> QED BY <1>9, <3>1, <4>1
    <3>2. CASE r.base < end /\ b < e
      <4> HIDE DEF p, t, r, e, b
      <4> QED BY <1>9, <3>2
    <3> QED BY <1>11, <3>1, <3>2
  <2>2. /\ Apart(q, 0) /\ Before(q, rs, n)
        /\ Cov(q, Len(q)) = Cov(t.out, Len(t.out)) \cup Bytes(r)
        /\ Bytes2(q, rs) = Bytes2(t.out, rs)
        /\ \A x \in Nat : EndBy(t.out, x) /\ e <= x => EndBy(q, x)
    <3> HIDE DEF t
    <3> QED BY <1>6, AppendNext
  <2>3. d \in Nat /\ base <= d /\ d <= end /\ b <= d
    BY <1>1, <1>3, <1>11
  <2>4. d < end => EndBy(q, d)
    <3> SUFFICES ASSUME d < end PROVE EndBy(q, d)
      OBVIOUS
    <3>1. r.base < end /\ b < e /\ e = d /\ u = r.base /\ b < end
      BY <1>1, <1>3, <1>11
    <3>2. EndBy(t.out, IF b < u THEN u ELSE b)
      BY <3>1, <1>5
    <3>3. EndBy(t.out, d)
      <4> DEFINE w == IF b < u THEN u ELSE b
      <4>1. w \in Nat /\ w <= d
        BY <3>1, <1>1, <1>3
      <4>2. \A i \in 1..Len(t.out) : REnd(t.out[i]) \in Nat /\ REnd(t.out[i]) <= w
        <5> HIDE DEF w, t
        <5> SUFFICES ASSUME NEW i \in 1..Len(t.out) PROVE REnd(t.out[i]) \in Nat /\ REnd(t.out[i]) <= w
          OBVIOUS
        <5>1. REnd(t.out[i]) \in Nat
          BY <1>6, EndType
        <5> QED BY <5>1, <3>2 DEF EndBy, w
      <4> HIDE DEF w, d, t
      <4> QED BY <4>1, <4>2, <2>3 DEF EndBy
    <3> HIDE DEF q, d, t
    <3> QED BY <2>2, <2>3, <3>1, <3>3
  <2>5. Cov(q, Len(q)) = Cov(rs, n) \cup (base .. (d - 1))
    <3>1. Cov(q, Len(q)) = (Cov(rs, n) \cup (base .. (b - 1))) \cup (b .. (u - 1))
      <4> HIDE DEF q, t, u
      <4> QED BY <2>2, <1>3, <1>6, <1>7
    <3>2. Bytes(r) \subseteq Cov(rs, n)
      BY <1>7
    <3>3. (base .. (b - 1)) \cup (b .. (d - 1)) = base .. (d - 1)
      <4> HIDE DEF d, b
      <4> QED BY <1>3, <2>3, Split
    <3>4. b .. (u - 1) \subseteq b .. (d - 1)
      <4>1. u <= d
        BY <1>1, <1>4
      <4> HIDE DEF u, d, b
      <4> QED BY <4>1, <1>3, <1>4, <2>3
    <3>5. b .. (d - 1) \subseteq (b .. (u - 1)) \cup Bytes(r)
      <4>1. r.base >= end => u = d
        BY <1>1
      <4>2. r.base < end => u = r.base /\ d <= e
        BY <1>1
      <4> HIDE DEF u, d, b, e
      <4>3. CASE r.base >= end
        BY <4>1, <4>3
      <4>4. CASE r.base < end
        <5>1. u = r.base /\ d <= e /\ Bytes(r) = u .. (e - 1)
          BY <4>2, <4>4, <1>8
        <5>2. u \in Nat /\ d \in Nat /\ e \in Nat /\ b \in Nat
          BY <1>1, <1>3, <1>4, <2>3
        <5> HIDE DEF r
        <5> QED BY <5>1, <5>2
      <4> QED BY <4>3, <4>4, <1>1
    <3> HIDE DEF q, t, u, d, b, e, r
    <3> QED BY <3>1, <3>2, <3>3, <3>4, <3>5
  <2> HIDE DEF q, d
  <2>6. Passing(d, q, t.total, rs, n, base, end)
    BY <1>6, <2>2, <2>3, <2>4, <2>5 DEF Passing
  <2> QED BY <2>1, <2>6
<1> HIDE DEF b, e, r
<1> QED BY <1>10, <1>11, <1>1, <1>3 DEF r

\* An array is sound: it has regions that do not touch, or none, and counts their bytes.
Good(type) ==
    /\ type \in Types
    /\ type.regions = NoRegions \/ (Apart(type.regions, 1) /\ Len(type.regions) > 0)
    /\ IsFiniteSet(Covered(type)) /\ type.total_size = Cardinality(Covered(type))

LEMMA CoveredIs ==
    ASSUME NEW type, type.regions \in Seq(Region)
    PROVE  Covered(type) = Cov(type.regions, Len(type.regions))
<1>1. DOMAIN type.regions = 1..Len(type.regions)
  BY LenProperties
<1> QED BY <1>1 DEF Covered, Cov

LEMMA NoRegionsFacts ==
    /\ NoRegions \in Seq(Region) /\ Len(NoRegions) = 1
    /\ NoRegions[1] = Rgn(0, 0) /\ NoRegions[1].size = 0
    /\ Cov(NoRegions, 1) = {}
<1>1. Rgn(0, 0) \in Region /\ Rgn(0, 0).size = 0 /\ Bytes(Rgn(0, 0)) = {}
  <2>1. Rgn(0, 0) \in Region /\ Rgn(0, 0).size = 0 /\ Bytes(Rgn(0, 0)) = 0 .. (0 + 0 - 1)
    BY RgnFacts
  <2> QED BY <2>1
<1>2. NoRegions \in Seq(Region) /\ Len(NoRegions) = 1 /\ NoRegions[1] = Rgn(0, 0)
  BY <1>1 DEF NoRegions
<1>3. Cov(NoRegions, 1) = Cov(NoRegions, 0) \cup Bytes(NoRegions[1])
  <2>1. 1 \in Nat \ {0} /\ 1 - 1 = 0
    OBVIOUS
  <2> QED BY <2>1, CovNext
<1> QED BY <1>1, <1>2, <1>3, CovNone

LEMMA CloserApart ==
    ASSUME NEW rs, Apart(rs, 1)
    PROVE  Apart(rs, 0)
<1>1. ASSUME NEW i \in 1..Len(rs), NEW j \in 1..Len(rs), i < j
      PROVE  REnd(rs[i]) + 0 <= rs[j].base
  <2>1. REnd(rs[i]) + 1 <= rs[j].base
    BY <1>1 DEF Apart
  <2>2. REnd(rs[i]) \in Nat /\ rs[j].base \in Nat
    BY EndType
  <2> QED BY <2>1, <2>2
<1> QED BY <1>1 DEF Apart

LEMMA GoodFacts ==
    ASSUME NEW type, Good(type)
    PROVE  /\ type.regions \in Seq(Region) /\ Len(type.regions) \in Nat
           /\ Len(type.regions) > 0 /\ type.total_size \in Nat
           /\ Covered(type) = Cov(type.regions, Len(type.regions))
<1>1. type.regions \in Seq(Region) /\ type.total_size \in Nat
  BY DEF Good, Types, Region
<1>2. Len(type.regions) \in Nat
  BY <1>1, LenProperties
<1>3. Len(type.regions) > 0
  <2>1. type.regions = NoRegions \/ Len(type.regions) > 0
    BY DEF Good
  <2> QED BY <2>1, NoRegionsFacts
<1> QED BY <1>1, <1>2, <1>3, CoveredIs

\* The regions after the loop: they have the bytes of the array and of the new range.
LEMMA Uncovered ==
    ASSUME NEW type, Good(type), Apart(type.regions, 1),
           NEW base \in Nat, NEW end \in Nat, base < end
    PROVE  LET s == insert_uncovered(type, base, end)
           IN  /\ Apart(s.out, 0) /\ Len(s.out) > 0
               /\ Cov(s.out, Len(s.out)) = Covered(type) \cup (base .. (end - 1))
               /\ IsFiniteSet(Cov(s.out, Len(s.out)))
               /\ s.total = Cardinality(Cov(s.out, Len(s.out)))
<1> DEFINE rs == type.regions
           N == Len(rs)
           U == Covered(type)
<1>1. rs \in Seq(Region) /\ N \in Nat /\ N > 0 /\ type.total_size \in Nat /\ U = Cov(rs, N)
  BY GoodFacts
<1>2. Apart(rs, 0)
  BY CloserApart
<1>3. IsFiniteSet(U) /\ type.total_size = Cardinality(U)
  BY DEF Good
<1>4. PICK f : /\ InsertRun(f, rs, base, type.total_size, end)
               /\ insert_uncovered(type, base, end) = memblock_insert_region(f[N], end)
  BY <1>1, InsertRuns
<1>5. /\ f \in [0..N -> Pass]
      /\ f[0] = [base |-> base, out |-> <<>>, total |-> type.total_size]
      /\ \A n \in 1..N : f[n] = pass(f[n - 1], rs[n], end)
  BY <1>4 DEF InsertRun
<1> DEFINE P(m) == Passing(f[m].base, f[m].out, f[m].total, rs, m, base, end)
           Q == {m \in Nat : m <= N => P(m)}
<1> HIDE DEF N, rs, U
<1>6. P(0)
  <2>1. f[0].base = base /\ f[0].out = <<>> /\ f[0].total = type.total_size
    BY <1>5
  <2>2. Apart(<<>>, 0) /\ Before(<<>>, rs, 0) /\ EndBy(<<>>, base)
    BY EmptySeq DEF Apart, Before, EndBy
  <2>3. Cov(<<>>, Len(<<>>)) = {} /\ Cov(rs, 0) = {} /\ base .. (base - 1) = {}
    BY CovNone
  <2>4. Bytes2(<<>>, rs) = U
    BY <2>3, <1>1 DEF Bytes2, N
  <2>5. Passing(base, <<>>, type.total_size, rs, 0, base, end)
    BY <2>2, <2>3, <2>4, <1>3 DEF Passing
  <2> QED BY <2>1, <2>5
<1>7. ASSUME NEW m \in Nat, m + 1 <= N, P(m) PROVE P(m + 1)
  <2>1. m + 1 \in 1..Len(rs) /\ (m + 1) - 1 = m /\ m \in 0..N
    BY <1>1, <1>7 DEF N
  <2>2. f[m] \in Pass
    BY <2>1, <1>5
  <2>3. f[m + 1] = pass(f[m], rs[m + 1], end)
    BY <2>1, <1>5 DEF N
  <2>4. Passing(pass(f[m], rs[m + 1], end).base, pass(f[m], rs[m + 1], end).out,
                pass(f[m], rs[m + 1], end).total, rs, m + 1, base, end)
    BY <2>1, <2>2, <1>2, <1>7, PassStep
  <2> QED BY <2>3, <2>4
<1> HIDE DEF P
<1>8. P(N)
  <2>1. 0 \in Q /\ \A m \in Nat : m \in Q => m + 1 \in Q
    BY <1>1, <1>6, <1>7
  <2>2. \A m \in Nat : m \in Q
    <3> HIDE DEF Q
    <3> QED BY <2>1, Induction
  <2> QED BY <2>2, <1>1
<1> DEFINE s == f[N]
           t == memblock_insert_region(s, end)
<1>9. s \in Pass /\ Passing(s.base, s.out, s.total, rs, N, base, end)
  BY <1>1, <1>5, <1>8 DEF P
<1>10. RoomTo(rs, N, end)
  BY <1>1 DEF RoomTo, N
<1>11. t \in Pass /\ Inserted(t.out, t.total, rs, N, s.out, s.base, end)
  <2>1. N \in 0..Len(rs) /\ end <= end
    BY <1>1 DEF N
  <2> HIDE DEF s
  <2> QED BY <2>1, <1>2, <1>9, <1>10, InsertStep
<1>12. s.base \in Nat /\ base <= s.base /\ s.base <= end
       /\ Cov(s.out, Len(s.out)) = Cov(rs, N) \cup (base .. (s.base - 1))
  BY <1>9 DEF Passing
<1>13. /\ Apart(t.out, 0) /\ IsFiniteSet(Bytes2(t.out, rs)) /\ t.total = Cardinality(Bytes2(t.out, rs))
       /\ Cov(t.out, Len(t.out)) = Cov(s.out, Len(s.out)) \cup (s.base .. (end - 1))
  BY <1>11 DEF Inserted
<1> HIDE DEF t
<1>14. Cov(t.out, Len(t.out)) = U \cup (base .. (end - 1))
  <2> DEFINE d == s.base
  <2>1. (base .. (d - 1)) \cup (d .. (end - 1)) = base .. (end - 1)
    <3> HIDE DEF d
    <3>1. d \in Nat /\ base <= d /\ d <= end
      BY <1>12 DEF d
    <3> QED BY <3>1, Split
  <2> HIDE DEF s
  <2> QED BY <2>1, <1>1, <1>12, <1>13
<1>15. Bytes2(t.out, rs) = Cov(t.out, Len(t.out))
  BY <1>1, <1>14 DEF Bytes2, N
<1>16. Len(t.out) > 0
  <2>1. base \in Cov(t.out, Len(t.out))
    BY <1>14
  <2>2. PICK i \in 1..Len(t.out) : base \in Bytes(t.out[i])
    BY <2>1, CovIs
  <2>3. Len(t.out) \in Nat
    BY <1>13, InApart
  <2> QED BY <2>2, <2>3
<1> QED BY <1>4, <1>13, <1>14, <1>15, <1>16 DEF t, U

\* An array with these regions and their bytes counted.
LEMMA MakeGood ==
    ASSUME NEW rs, rs = NoRegions \/ (Apart(rs, 1) /\ Len(rs) > 0), NEW c,
           IsFiniteSet(Cov(rs, Len(rs))), c = Cardinality(Cov(rs, Len(rs)))
    PROVE  /\ Good([regions |-> rs, total_size |-> c])
           /\ Covered([regions |-> rs, total_size |-> c]) = Cov(rs, Len(rs))
<1> DEFINE type == [regions |-> rs, total_size |-> c]
<1>1. rs \in Seq(Region)
  BY NoRegionsFacts, InApart
<1>2. c \in Nat
  BY FS_CardinalityType
<1>3. type.regions = rs /\ type.total_size = c /\ type \in Types
  BY <1>1, <1>2 DEF Types, Region
<1>4. Covered(type) = Cov(rs, Len(rs))
  BY <1>1, <1>3, CoveredIs
<1> HIDE DEF type
<1>5. Good(type)
  BY <1>3, <1>4 DEF Good
<1> QED BY <1>4, <1>5 DEF type

\* Adding a range keeps an array sound and adds the bytes of the range.
LEMMA AddRegions ==
    ASSUME NEW type, Good(type), NEW base \in Nat, NEW size \in Nat
    PROVE  LET a == memblock_add_regions(type, base, size)
           IN  /\ Good(a.type)
               /\ Covered(a.type) = Covered(type) \cup (base .. (base + size - 1))
<1> DEFINE a == memblock_add_regions(type, base, size)
           rs == type.regions
           s == insert_uncovered(type, base, base + size)
           I == base .. (base + size - 1)
<1>1. rs \in Seq(Region) /\ Len(rs) \in Nat /\ Len(rs) > 0 /\ Covered(type) = Cov(rs, Len(rs))
  BY GoodFacts
<1>2. Head(rs) = rs[1]
  BY <1>1
<1>3. CASE size = 0
  <2>1. a.type = type /\ I = {}
    BY <1>3 DEF memblock_add_regions
  <2> HIDE DEF a, I
  <2> QED BY <2>1 DEF a, I
<1>4. CASE size # 0 /\ rs = NoRegions
  <2> DEFINE q == <<Rgn(base, size)>>
  <2>1. Head(rs).size = 0
    BY <1>2, <1>4, NoRegionsFacts
  <2>2. [rs EXCEPT ![1] = Rgn(base, size)] = q
    BY <1>4 DEF NoRegions
  <2>3. a = [type |-> [regions |-> [rs EXCEPT ![1] = Rgn(base, size)], total_size |-> size],
             peak |-> Len(rs)]
    BY <1>4, <2>1 DEF memblock_add_regions
  <2>4. a.type = [regions |-> q, total_size |-> size]
    <3> HIDE DEF q, a, rs
    <3> QED BY <2>2, <2>3
  <2>5. /\ Rgn(base, size) \in Region /\ Rgn(base, size).size = size
        /\ Bytes(Rgn(base, size)) = I
    BY RgnFacts
  <2>6. q \in Seq(Region) /\ Len(q) = 1 /\ q[1] = Rgn(base, size)
    BY <2>5
  <2> HIDE DEF q, I
  <2>7. Apart(q, 1) /\ Len(q) > 0
    BY <1>4, <2>5, <2>6 DEF Apart
  <2>8. Cov(q, Len(q)) = I
    <3>1. Cov(q, 1) = Cov(q, 0) \cup Bytes(q[1])
      <4>1. 1 \in Nat \ {0} /\ 1 - 1 = 0
        OBVIOUS
      <4> QED BY <4>1, CovNext
    <3> QED BY <3>1, <2>5, <2>6, CovNone
  <2>9. IsFiniteSet(I) /\ size = Cardinality(I)
    <3>1. base \in Int /\ base + size - 1 \in Int /\ ~(base > base + size - 1)
          /\ (base + size - 1) - base + 1 = size
      BY <1>4
    <3> QED BY <3>1, FS_Interval DEF I
  <2>10. Good([regions |-> q, total_size |-> size])
         /\ Covered([regions |-> q, total_size |-> size]) = I
    BY <2>7, <2>8, <2>9, MakeGood
  <2>11. Covered(type) = {}
    BY <1>1, <1>4, NoRegionsFacts
  <2> HIDE DEF a
  <2> QED BY <2>4, <2>10, <2>11 DEF a, I
<1>5. CASE size # 0 /\ rs # NoRegions
  <2>1. Apart(rs, 1)
    BY <1>5 DEF Good
  <2>2. base + size \in Nat /\ base < base + size
    BY <1>5
  <2>3. /\ Apart(s.out, 0) /\ Len(s.out) > 0
        /\ Cov(s.out, Len(s.out)) = Covered(type) \cup I
        /\ IsFiniteSet(Cov(s.out, Len(s.out))) /\ s.total = Cardinality(Cov(s.out, Len(s.out)))
    <3> DEFINE e == base + size
               u == insert_uncovered(type, base, e)
    <3>1. e \in Nat /\ base < e
      BY <2>2
    <3> HIDE DEF e
    <3>2. /\ Apart(u.out, 0) /\ Len(u.out) > 0
          /\ Cov(u.out, Len(u.out)) = Covered(type) \cup (base .. (e - 1))
          /\ IsFiniteSet(Cov(u.out, Len(u.out)))
          /\ u.total = Cardinality(Cov(u.out, Len(u.out)))
      BY <2>1, <3>1, Uncovered
    <3> HIDE DEF u
    <3>3. s = u /\ I = base .. (e - 1)
      BY DEF u, e
    <3> HIDE DEF s, I
    <3> QED BY <3>2, <3>3
  <2>4. Head(rs).size # 0
    <3>1. 1 \in 1..Len(rs)
      BY <1>1
    <3>2. rs[1].size \in Nat \ {0}
      BY <2>1, <3>1, InApart
    <3> QED BY <1>2, <3>2
  <2>5. CASE s.out = rs
    <3>1. a.type = type
      BY <1>5, <2>4, <2>5 DEF memblock_add_regions
    <3> HIDE DEF a, s, I
    <3> QED BY <1>1, <2>3, <2>5, <3>1 DEF a, I
  <2>6. CASE s.out # rs
    <3> DEFINE m == memblock_merge_regions(s.out)
    <3>1. a.type = [regions |-> m, total_size |-> s.total]
      BY <1>5, <2>4, <2>6 DEF memblock_add_regions
    <3>2. Apart(m, 1) /\ Len(m) > 0 /\ Cov(m, Len(m)) = Cov(s.out, Len(s.out))
      <4> HIDE DEF s
      <4> QED BY <2>3, MergeApart
    <3> HIDE DEF a, s, I, m
    <3>3. Good([regions |-> m, total_size |-> s.total])
          /\ Covered([regions |-> m, total_size |-> s.total]) = Cov(m, Len(m))
      BY <2>3, <3>2, MakeGood
    <3> QED BY <2>3, <3>1, <3>2, <3>3 DEF a, I
  <2> QED BY <2>5, <2>6
<1> QED BY <1>3, <1>4, <1>5

----------------------------------------------------------------------------
(* Removing *)

PutIf(c, o, p) == IF c THEN Append(o, p) ELSE o

\* A region, or none, is put behind the others.
LEMMA PutApart ==
    ASSUME NEW o, Apart(o, 1), NEW c \in BOOLEAN, NEW p,
           c => p \in Region /\ p.size > 0 /\ EndBy(o, p.base - 1)
    PROVE  /\ Apart(PutIf(c, o, p), 1)
           /\ Cov(PutIf(c, o, p), Len(PutIf(c, o, p)))
                 = Cov(o, Len(o)) \cup (IF c THEN Bytes(p) ELSE {})
           /\ \A e \in Int : EndBy(o, e) /\ (c => REnd(p) <= e) => EndBy(PutIf(c, o, p), e)
<1>1. CASE ~c
  BY <1>1 DEF PutIf
<1>2. CASE c
  <2> DEFINE q == Append(o, p)
             l == Len(o)
  <2>1. p \in Region /\ p.size > 0 /\ EndBy(o, p.base - 1)
    BY <1>2
  <2>2. l \in Nat
    BY InApart
  <2>3. \A i \in 1..l : REnd(o[i]) + 1 <= p.base
    <3> SUFFICES ASSUME NEW i \in 1..l PROVE REnd(o[i]) + 1 <= p.base
      OBVIOUS
    <3>1. REnd(o[i]) \in Nat
      BY EndType
    <3>2. REnd(o[i]) <= p.base - 1
      BY <2>1 DEF EndBy
    <3>3. p.base \in Nat
      BY <2>1, RegionFacts
    <3> QED BY <3>1, <3>2, <3>3
  <2>4. /\ Apart(q, 1) /\ Len(q) = l + 1 /\ q[l + 1] = p
        /\ \A i \in 1..l : q[i] = o[i]
        /\ Cov(q, l + 1) = Cov(o, l) \cup Bytes(p)
    <3>1. 1 \in Nat
      OBVIOUS
    <3> QED BY <2>1, <2>3, <3>1, AppendApart
  <2> HIDE DEF q, l
  <2>5. ASSUME NEW e \in Int, EndBy(o, e), REnd(p) <= e PROVE EndBy(q, e)
    <3> SUFFICES ASSUME NEW i \in 1..(l + 1) PROVE REnd(q[i]) <= e
      BY <2>4 DEF EndBy
    <3>1. CASE i = l + 1
      BY <3>1, <2>4, <2>5
    <3>2. CASE i # l + 1
      <4>1. i \in 1..l
        BY <3>2, <2>2
      <4> QED BY <4>1, <2>4, <2>5 DEF EndBy, l
    <3> QED BY <3>1, <3>2
  <2>6. PutIf(c, o, p) = q
    BY <1>2 DEF PutIf, q
  <2>7. Cov(q, Len(q)) = Cov(o, Len(o)) \cup Bytes(p)
    BY <2>4 DEF l
  <2> QED BY <1>2, <2>4, <2>5, <2>6, <2>7
<1> QED BY <1>1, <1>2

Low(r, base) == Rgn(r.base, Min({REnd(r), base}) - r.base)
High(r, end) == Rgn(Max({r.base, end}), REnd(r) - Max({r.base, end}))

LEMMA Concats ==
    ASSUME NEW S, NEW o \in Seq(S), NEW p, NEW q
    PROVE  /\ o \o (<<>> \o <<>>) = o
           /\ p \in S => o \o (<<p>> \o <<>>) = Append(o, p)
           /\ q \in S => o \o (<<>> \o <<q>>) = Append(o, q)
           /\ p \in S /\ q \in S => o \o (<<p>> \o <<q>>) = Append(Append(o, p), q)
<1>1. <<>> \in Seq(S) /\ (p \in S => <<p>> \in Seq(S)) /\ (q \in S => <<q>> \in Seq(S))
  OBVIOUS
<1>2. o \o (<<>> \o <<>>) = o
  BY <1>1, ConcatEmptySeq
<1>3. ASSUME p \in S PROVE o \o (<<p>> \o <<>>) = Append(o, p)
  BY <1>1, <1>3, ConcatEmptySeq, AppendIsConcat
<1>4. ASSUME q \in S PROVE o \o (<<>> \o <<q>>) = Append(o, q)
  BY <1>1, <1>4, ConcatEmptySeq, AppendIsConcat
<1>5. ASSUME p \in S, q \in S PROVE o \o (<<p>> \o <<q>>) = Append(Append(o, p), q)
  <2>1. Append(o, p) = o \o <<p>> /\ Append(o, p) \in Seq(S)
    BY <1>5, AppendIsConcat, AppendProperties
  <2>2. Append(Append(o, p), q) = (o \o <<p>>) \o <<q>>
    BY <2>1, <1>5, AppendIsConcat
  <2> QED BY <1>1, <1>5, <2>2, ConcatAssociative
<1> QED BY <1>2, <1>3, <1>4, <1>5

\* What is left of a region when the range [base, end) is taken out.
LEMMA Pieces ==
    ASSUME NEW r \in Region, r.size > 0, NEW base \in Nat, NEW end \in Nat, base < end
    PROVE  /\ r.base < base => /\ Low(r, base) \in Region /\ Low(r, base).size > 0
                               /\ Low(r, base).base = r.base
                               /\ REnd(Low(r, base)) <= REnd(r) /\ REnd(Low(r, base)) <= base
           /\ REnd(r) > end => /\ High(r, end) \in Region /\ High(r, end).size > 0
                               /\ r.base <= High(r, end).base /\ end <= High(r, end).base
                               /\ REnd(High(r, end)) = REnd(r)
           /\ (IF r.base < base THEN Bytes(Low(r, base)) ELSE {})
                 \cup (IF REnd(r) > end THEN Bytes(High(r, end)) ELSE {})
                 = Bytes(r) \ (base .. (end - 1))
<1> DEFINE b == r.base
           e == REnd(r)
           lo == IF e <= base THEN e ELSE base
           hi == IF b <= end THEN end ELSE b
<1>1. b \in Nat /\ e \in Nat /\ b < e /\ Bytes(r) = b .. (e - 1)
  BY RegionFacts DEF Bytes
<1> HIDE DEF b, e
<1>2. Min({e, base}) = lo /\ Max({b, end}) = hi
  <2>1. base \in Int /\ end \in Int /\ b \in Int /\ e \in Int
    BY <1>1
  <2>2. Min({e, base}) = lo
    BY <2>1, MinMaxIs
  <2>3. Max({b, end}) = hi
    BY <2>1, MinMaxIs
  <2> QED BY <2>2, <2>3
<1>3. lo \in Nat /\ hi \in Nat /\ (b < base => lo - b \in Nat) /\ (e > end => e - hi \in Nat)
  BY <1>1
<1>4. Low(r, base) = Rgn(b, lo - b) /\ High(r, end) = Rgn(hi, e - hi)
  BY <1>2 DEF Low, High, b, e
<1>5. ASSUME b < base
      PROVE  /\ Low(r, base) \in Region /\ Low(r, base).size = lo - b /\ Low(r, base).base = b
             /\ REnd(Low(r, base)) = lo /\ Bytes(Low(r, base)) = b .. (lo - 1)
  <2> DEFINE k == lo - b
  <2>1. k \in Nat /\ b + k = lo
    BY <1>1, <1>3, <1>5
  <2>2. Low(r, base) = Rgn(b, k)
    BY <1>4
  <2> HIDE DEF k, lo
  <2>3. /\ Rgn(b, k) \in Region /\ Rgn(b, k).base = b /\ Rgn(b, k).size = k
        /\ REnd(Rgn(b, k)) = b + k /\ Bytes(Rgn(b, k)) = b .. (b + k - 1)
    BY <1>1, <2>1, RgnFacts
  <2>4. b + k - 1 = lo - 1
    BY <1>1, <2>1
  <2> QED BY <2>1, <2>2, <2>3, <2>4 DEF k
<1>6. ASSUME e > end
      PROVE  /\ High(r, end) \in Region /\ High(r, end).size = e - hi /\ High(r, end).base = hi
             /\ REnd(High(r, end)) = e /\ Bytes(High(r, end)) = hi .. (e - 1)
  <2> DEFINE k == e - hi
  <2>1. k \in Nat /\ hi + k = e
    BY <1>1, <1>3, <1>6
  <2>2. High(r, end) = Rgn(hi, k)
    BY <1>4
  <2>4. hi \in Nat
    BY <1>3
  <2> HIDE DEF k, hi
  <2>3. /\ Rgn(hi, k) \in Region /\ Rgn(hi, k).base = hi /\ Rgn(hi, k).size = k
        /\ REnd(Rgn(hi, k)) = hi + k /\ Bytes(Rgn(hi, k)) = hi .. (hi + k - 1)
    BY <2>4, <2>1, RgnFacts
  <2>5. hi + k - 1 = e - 1
    BY <1>1, <2>1, <2>4
  <2> QED BY <2>1, <2>2, <2>3, <2>5 DEF k
<1>7. (IF b < base THEN b .. (lo - 1) ELSE {}) \cup (IF e > end THEN hi .. (e - 1) ELSE {})
         = (b .. (e - 1)) \ (base .. (end - 1))
  BY <1>1
<1>8. (b < base => lo - b > 0 /\ lo <= e /\ lo <= base)
      /\ (e > end => e - hi > 0 /\ b <= hi /\ end <= hi)
  BY <1>1
<1> HIDE DEF lo, hi
<1>9. (IF b < base THEN Bytes(Low(r, base)) ELSE {})
         \cup (IF e > end THEN Bytes(High(r, end)) ELSE {}) = Bytes(r) \ (base .. (end - 1))
  BY <1>1, <1>5, <1>6, <1>7
<1> QED BY <1>5, <1>6, <1>8, <1>9 DEF b, e

Cut == [out : Seq(Region), total : Int, peak : Nat]

\* What a round of memblock_remove_range() does.
CutOut(t, s, r, base, end) ==
    /\ t \in Cut
    /\ t.out = PutIf(REnd(r) > end, PutIf(r.base < base, s.out, Low(r, base)), High(r, end))
    /\ t.total = s.total - Cardinality(Bytes(r) \cap (base .. (end - 1)))

LEMMA RemoveIs ==
    ASSUME NEW s \in Cut, NEW r \in Region, r.size > 0,
           NEW base \in Nat, NEW end \in Nat, base < end
    PROVE  CutOut(remove(s, r, base, end), s, r, base, end)
<1> DEFINE L == r.base < base
           H == REnd(r) > end
           lo == Low(r, base)
           hi == High(r, end)
           os == outside(r, base, end)
           ns == inside(r, base, end)
<1>1. s.out \in Seq(Region) /\ s.total \in Int /\ s.peak \in Nat
  BY DEF Cut
<1>2. os = (IF L THEN <<lo>> ELSE <<>>) \o (IF H THEN <<hi>> ELSE <<>>)
  BY DEF outside, Low, High
<1>3. (L => lo \in Region) /\ (H => hi \in Region)
  BY Pieces
<1>4. s.out \o os = PutIf(H, PutIf(L, s.out, lo), hi)
  <2> HIDE DEF lo, hi, L, H, os
  <2>1. CASE L /\ H
    <3>1. os = <<lo>> \o <<hi>>
      BY <2>1, <1>2
    <3>2. s.out \o (<<lo>> \o <<hi>>) = Append(Append(s.out, lo), hi)
      BY <2>1, <1>1, <1>3, Concats
    <3> QED BY <2>1, <3>1, <3>2 DEF PutIf
  <2>2. CASE L /\ ~H
    BY <2>2, <1>1, <1>2, <1>3, Concats DEF PutIf
  <2>3. CASE ~L /\ H
    BY <2>3, <1>1, <1>2, <1>3, Concats DEF PutIf
  <2>4. CASE ~L /\ ~H
    BY <2>4, <1>1, <1>2, <1>3, Concats DEF PutIf
  <2> QED BY <2>1, <2>2, <2>3, <2>4
<1>5. os \in Seq(Region) /\ Len(os) \in Nat
  <2> HIDE DEF lo, hi, L, H, os
  <2>1. (IF L THEN <<lo>> ELSE <<>>) \in Seq(Region) /\ (IF H THEN <<hi>> ELSE <<>>) \in Seq(Region)
    BY <1>3
  <2> QED BY <2>1, <1>2, ConcatProperties
<1>6. ns = Cardinality(Bytes(r) \cap (base .. (end - 1))) /\ ns \in Nat
  <2> DEFINE b == r.base
             e == REnd(r)
             from == IF b <= base THEN base ELSE b
             to == IF e <= end THEN e ELSE end
  <2>1. b \in Nat /\ e \in Nat /\ b < e /\ Bytes(r) = b .. (e - 1)
    BY RegionFacts DEF Bytes
  <2>9. ns = IF Max({b, base}) < Min({e, end}) THEN Min({e, end}) - Max({b, base}) ELSE 0
    BY DEF inside
  <2> HIDE DEF b, e, ns
  <2>2. Max({b, base}) = from /\ Min({e, end}) = to
    <3>1. base \in Int /\ end \in Int /\ b \in Int /\ e \in Int
      BY <2>1
    <3>2. Max({b, base}) = from
      BY <3>1, MinMaxIs
    <3>3. Min({e, end}) = to
      BY <3>1, MinMaxIs
    <3> QED BY <3>2, <3>3
  <2>3. ns = IF from < to THEN to - from ELSE 0
    BY <2>2, <2>9
  <2>4. (b .. (e - 1)) \cap (base .. (end - 1)) = from .. (to - 1)
    BY <2>1
  <2>5. from \in Int /\ to \in Int /\ to - 1 \in Int
    BY <2>1
  <2> HIDE DEF from, to
  <2> DEFINE t1 == to - 1
  <2>6. Cardinality(from .. t1) = IF from > t1 THEN 0 ELSE t1 - from + 1
    <3>1. t1 \in Int
      BY <2>5
    <3> HIDE DEF t1
    <3> QED BY <3>1, <2>5, FS_Interval
  <2>7. Cardinality(from .. t1) = ns
    <3> DEFINE k == Cardinality(from .. t1)
    <3> HIDE DEF k
    <3> QED BY <2>3, <2>5, <2>6 DEF k
  <2>8. Bytes(r) \cap (base .. (end - 1)) = from .. t1
    BY <2>1, <2>4
  <2>10. ns \in Nat
    BY <2>3, <2>5
  <2> HIDE DEF t1
  <2> QED BY <2>7, <2>8, <2>10
<1>7. remove(s, r, base, end) =
         [out |-> s.out \o os, total |-> s.total - ns,
          peak |-> s.peak + Len(os) + (IF ns > 0 THEN 1 ELSE 0)]
  BY DEF remove
<1>8. s.out \o os \in Seq(Region)
  <2> HIDE DEF os
  <2> QED BY <1>1, <1>5, ConcatProperties
<1> HIDE DEF os, ns
<1>9. s.total - ns \in Int /\ s.peak + Len(os) + (IF ns > 0 THEN 1 ELSE 0) \in Nat
  BY <1>1, <1>5, <1>6
<1>10. remove(s, r, base, end) \in Cut
  <2> DEFINE x == s.out \o os
             y == s.total - ns
             z == s.peak + Len(os) + (IF ns > 0 THEN 1 ELSE 0)
  <2>1. x \in Seq(Region) /\ y \in Int /\ z \in Nat
    BY <1>8, <1>9
  <2>2. remove(s, r, base, end) = [out |-> x, total |-> y, peak |-> z]
    BY <1>7
  <2> HIDE DEF x, y, z
  <2> QED BY <2>1, <2>2 DEF Cut
<1>11. remove(s, r, base, end).out = s.out \o os /\ remove(s, r, base, end).total = s.total - ns
  BY <1>7
<1> QED BY <1>4, <1>6, <1>10, <1>11 DEF CutOut

RemoveRun(f, rs, total, base, end) ==
    /\ f \in [0..Len(rs) -> Cut]
    /\ f[0] = [out |-> <<>>, total |-> total, peak |-> 0]
    /\ \A n \in 1..Len(rs) : f[n] = remove(f[n - 1], rs[n], base, end)

LEMMA RemoveRuns ==
    ASSUME NEW type, Apart(type.regions, 1), type.total_size \in Nat,
           NEW base \in Nat, NEW size \in Nat, size # 0
    PROVE  \E f : /\ RemoveRun(f, type.regions, type.total_size, base, base + size)
                  /\ memblock_remove_range(type, base, size).type
                        = [regions |-> IF f[Len(type.regions)].out = <<>> THEN NoRegions
                                       ELSE f[Len(type.regions)].out,
                           total_size |-> f[Len(type.regions)].total]
<1> DEFINE rs == type.regions
           N == Len(rs)
           end == base + size
           x == [out |-> <<>>, total |-> type.total_size, peak |-> 0]
           step == [p \in (1..N) \X Cut |-> remove(p[2], rs[p[1]], base, end)]
           Body(f) == [n \in 0..N |-> IF n = 0 THEN x ELSE remove(f[n - 1], rs[n], base, end)]
           loop == CHOOSE f : f = Body(f)
<1>1. N \in Nat /\ x \in Cut /\ \A n \in 1..N : rs[n] \in Region /\ rs[n].size > 0
  BY InApart DEF Cut
<1>0. end \in Nat /\ base < end
  OBVIOUS
<1>7. memblock_remove_range(type, base, size).type
         = [regions |-> IF loop[N].out = <<>> THEN NoRegions ELSE loop[N].out,
            total_size |-> loop[N].total]
  BY DEF memblock_remove_range
<1> HIDE DEF end
<1>12. \A n \in 1..N, s \in Cut : remove(s, rs[n], base, end) \in Cut
  BY <1>1, <1>0, RemoveIs DEF CutOut
<1>2. step \in [(1..N) \X Cut -> Cut]
  <2> SUFFICES ASSUME NEW p \in (1..N) \X Cut PROVE remove(p[2], rs[p[1]], base, end) \in Cut
    OBVIOUS
  <2>1. p[2] \in Cut /\ p[1] \in 1..N
    OBVIOUS
  <2> HIDE DEF N, rs
  <2> QED BY <2>1, <1>12
<1>3. \A n \in 1..N, s \in Cut : step[<<n, s>>] = remove(s, rs[n], base, end)
  OBVIOUS
<1> HIDE DEF step, x
<1>4. PICK g : IsRun(g, N, Cut, x, step)
  <2> HIDE DEF N, rs
  <2> QED BY <1>1, <1>2, RunExists
<1>5. g = Body(g)
  <2>1. g \in [0..N -> Cut] /\ g[0] = x /\ \A n \in 1..N : g[n] = step[<<n, g[n - 1]>>]
    BY <1>4 DEF IsRun
  <2>2. ASSUME NEW n \in 0..N
        PROVE  g[n] = IF n = 0 THEN x ELSE remove(g[n - 1], rs[n], base, end)
    <3>1. CASE n = 0
      BY <3>1, <2>1
    <3>2. CASE n # 0
      <4>1. n \in 1..N /\ n - 1 \in 0..N
        BY <3>2
      <4> QED BY <4>1, <2>1, <1>3
    <3> QED BY <3>1, <3>2
  <2> QED BY <2>1, <2>2
<1>6. loop = Body(loop)
  BY <1>5
<1> HIDE DEF loop
<1>8. loop[0] = x /\ \A n \in 1..N : loop[n] = remove(loop[n - 1], rs[n], base, end)
  <2> HIDE DEF N, rs
  <2> QED BY <1>6, <1>1
<1>9. \A m \in 0..N : loop[m] \in Cut
  <2> DEFINE Q == {m \in Nat : m <= N => loop[m] \in Cut}
  <2>1. 0 \in Q
    BY <1>1, <1>8
  <2>2. ASSUME NEW m \in Nat, m \in Q PROVE m + 1 \in Q
    <3> SUFFICES ASSUME m + 1 <= N PROVE loop[m + 1] \in Cut
      OBVIOUS
    <3>1. loop[m] \in Cut /\ m + 1 \in 1..N /\ (m + 1) - 1 = m
      BY <2>2, <1>1
    <3>2. loop[m + 1] = remove(loop[m], rs[m + 1], base, end)
      BY <3>1, <1>8
    <3> QED BY <3>1, <3>2, <1>12
  <2> HIDE DEF Q
  <2>3. \A m \in Nat : m \in Q
    BY <2>1, <2>2, Induction
  <2> QED BY <2>3, <1>1 DEF Q
<1>10. loop \in [0..N -> Cut]
  BY <1>6, <1>9
<1>11. RemoveRun(loop, rs, type.total_size, base, end)
  BY <1>8, <1>10 DEF RemoveRun, x
<1> QED BY <1>7, <1>11 DEF end

\* The regions of o end before those of rs behind the first n, with a byte between.
Clear(o, rs, n) == \A j \in 1..Len(rs) : j > n => EndBy(o, rs[j].base - 1)

\* What the rounds keep: o has the bytes of the first n regions that are not in the range I,
\* and c counts all bytes but those of the first n regions in I.
Kept(o, c, rs, n, I) ==
    /\ Apart(o, 1)
    /\ Clear(o, rs, n)
    /\ Cov(o, Len(o)) = Cov(rs, n) \ I
    /\ IsFiniteSet(Cov(rs, n) \cap I)
    /\ c = Cardinality(Cov(rs, Len(rs))) - Cardinality(Cov(rs, n) \cap I)

\* The regions before region n end before its bytes.
LEMMA ApartBytes ==
    ASSUME NEW rs, NEW g \in Nat, Apart(rs, g), NEW n \in 1..Len(rs)
    PROVE  Cov(rs, n - 1) \cap Bytes(rs[n]) = {}
<1> SUFFICES ASSUME NEW x, x \in Cov(rs, n - 1), x \in Bytes(rs[n]) PROVE FALSE
  OBVIOUS
<1>1. PICK i \in 1..(n - 1) : x \in Bytes(rs[i])
  BY CovIs
<1>2. i \in 1..Len(rs) /\ i < n
  BY InApart
<1>3. rs[i] \in Region /\ rs[n] \in Region
  BY <1>2, InApart
<1>4. REnd(rs[i]) + g <= rs[n].base
  BY <1>2 DEF Apart
<1>5. x \in Nat /\ x < REnd(rs[i]) /\ rs[n].base <= x /\ rs[n].base \in Nat /\ REnd(rs[i]) \in Nat
  BY <1>1, <1>3, RegionFacts
<1> QED BY <1>4, <1>5

LEMMA RemoveStep ==
    ASSUME NEW rs, Apart(rs, 1), NEW n \in 1..Len(rs), NEW base \in Nat, NEW end \in Nat,
           base < end, IsFiniteSet(Cov(rs, Len(rs))),
           NEW s \in Cut, Kept(s.out, s.total, rs, n - 1, base .. (end - 1))
    PROVE  LET t == remove(s, rs[n], base, end)
           IN  Kept(t.out, t.total, rs, n, base .. (end - 1))
<1> DEFINE r == rs[n]
           t == remove(s, r, base, end)
           o == s.out
           L == r.base < base
           H == REnd(r) > end
           lo == Low(r, base)
           hi == High(r, end)
           p == PutIf(L, o, lo)
           q == PutIf(H, p, hi)
           I == base .. (end - 1)
<1>1. r \in Region /\ r.size > 0 /\ r.base \in Nat /\ REnd(r) = r.base + r.size /\ REnd(r) \in Nat
  BY InApart, RegionFacts
<1>2. /\ t \in Cut /\ t.out = q /\ t.total = s.total - Cardinality(Bytes(r) \cap I)
  <2>1. r \in Region /\ r.size > 0
    BY <1>1
  <2> HIDE DEF r
  <2>2. CutOut(t, s, r, base, end)
    BY <2>1, RemoveIs
  <2> HIDE DEF t
  <2> QED BY <2>2, Zenon DEF CutOut
<1>3. /\ L => /\ lo \in Region /\ lo.size > 0 /\ lo.base = r.base
              /\ REnd(lo) <= REnd(r) /\ REnd(lo) <= base
      /\ H => /\ hi \in Region /\ hi.size > 0 /\ r.base <= hi.base /\ end <= hi.base
              /\ REnd(hi) = REnd(r)
      /\ (IF L THEN Bytes(lo) ELSE {}) \cup (IF H THEN Bytes(hi) ELSE {}) = Bytes(r) \ I
  <2> HIDE DEF r
  <2> QED BY <1>1, Pieces
<1>4. /\ Apart(o, 1) /\ Clear(o, rs, n - 1) /\ Cov(o, Len(o)) = Cov(rs, n - 1) \ I
      /\ IsFiniteSet(Cov(rs, n - 1) \cap I)
      /\ s.total = Cardinality(Cov(rs, Len(rs))) - Cardinality(Cov(rs, n - 1) \cap I)
  BY DEF Kept
<1>5. EndBy(o, r.base - 1)
  <2>1. n > n - 1
    OBVIOUS
  <2> QED BY <2>1, <1>4 DEF Clear
<1>6. \A i \in 1..Len(o) : REnd(o[i]) \in Nat
  BY <1>4, EndType
<1>7. (L => lo.base \in Nat /\ REnd(lo) \in Nat) /\ (H => hi.base \in Nat)
  <2> HIDE DEF lo, hi, L, H
  <2> QED BY <1>3, RegionFacts
<1> HIDE DEF lo, hi, L, H, q, p, r, t, I, o
<1>8. L \in BOOLEAN /\ H \in BOOLEAN
  BY DEF L, H
<1>9. /\ Apart(p, 1) /\ Cov(p, Len(p)) = Cov(o, Len(o)) \cup (IF L THEN Bytes(lo) ELSE {})
      /\ \A e \in Int : EndBy(o, e) /\ (L => REnd(lo) <= e) => EndBy(p, e)
  <2>1. L => lo \in Region /\ lo.size > 0 /\ EndBy(o, lo.base - 1)
    BY <1>3, <1>5
  <2> QED BY <1>4, <1>8, <2>1, PutApart DEF p
<1>10. H => EndBy(p, hi.base - 1)
  <2> SUFFICES ASSUME H PROVE EndBy(p, hi.base - 1)
    OBVIOUS
  <2> DEFINE e == hi.base - 1
  <2>1. e \in Int /\ r.base - 1 <= e /\ end - 1 <= e
    BY <1>1, <1>3, <1>7
  <2>2. EndBy(o, e)
    <3> SUFFICES ASSUME NEW i \in 1..Len(o) PROVE REnd(o[i]) <= e
      BY DEF EndBy
    <3>1. REnd(o[i]) <= r.base - 1
      BY <1>5 DEF EndBy
    <3> HIDE DEF e
    <3> QED BY <3>1, <2>1, <1>6, <1>1
  <2>3. L => REnd(lo) <= e
    <3> HIDE DEF e
    <3> QED BY <1>3, <1>7, <2>1
  <2> HIDE DEF e
  <2>4. EndBy(p, e)
    BY <2>1, <2>2, <2>3, <1>9
  <2> QED BY <2>4 DEF e
<1>11. /\ Apart(q, 1) /\ Cov(q, Len(q)) = Cov(p, Len(p)) \cup (IF H THEN Bytes(hi) ELSE {})
       /\ \A e \in Int : EndBy(p, e) /\ (H => REnd(hi) <= e) => EndBy(q, e)
  <2>1. H => hi \in Region /\ hi.size > 0 /\ EndBy(p, hi.base - 1)
    BY <1>3, <1>10
  <2> QED BY <1>8, <1>9, <2>1, PutApart DEF q
<1>12. Clear(q, rs, n)
  <2> SUFFICES ASSUME NEW j \in 1..Len(rs), j > n PROVE EndBy(q, rs[j].base - 1)
    BY DEF Clear
  <2> DEFINE e == rs[j].base - 1
  <2>1. REnd(r) + 1 <= rs[j].base /\ rs[j].base \in Nat
    BY InApart DEF Apart, r
  <2>2. e \in Int /\ REnd(r) <= e
    BY <2>1, <1>1
  <2>3. j > n - 1
    OBVIOUS
  <2>4. EndBy(o, e)
    BY <2>3, <1>4 DEF Clear
  <2> HIDE DEF e
  <2>5. L => REnd(lo) <= e
    BY <1>3, <1>7, <1>1, <2>2
  <2>6. EndBy(p, e)
    BY <2>2, <2>4, <2>5, <1>9
  <2>7. H => REnd(hi) <= e
    BY <1>3, <2>2
  <2>8. EndBy(q, e)
    BY <2>2, <2>6, <2>7, <1>11
  <2> QED BY <2>8 DEF e
<1>13. Cov(rs, n) = Cov(rs, n - 1) \cup Bytes(r)
  BY CovNext DEF r
<1>14. Cov(q, Len(q)) = Cov(rs, n) \ I
  BY <1>3, <1>4, <1>9, <1>11, <1>13
<1>15. Cov(rs, n - 1) \cap Bytes(r) = {}
  BY ApartBytes DEF r
<1>16. IsFiniteSet(Bytes(r) \cap I)
  <2>1. Bytes(r) \subseteq Cov(rs, Len(rs))
    BY CovIs DEF r
  <2> QED BY <2>1, FS_Subset
<1>17. /\ IsFiniteSet(Cov(rs, n) \cap I)
       /\ t.total = Cardinality(Cov(rs, Len(rs))) - Cardinality(Cov(rs, n) \cap I)
  <2> DEFINE X == Cov(rs, n - 1) \cap I
             Y == Bytes(r) \cap I
             W == Cov(rs, n) \cap I
             u == Cardinality(Cov(rs, Len(rs)))
             x == Cardinality(X)
             y == Cardinality(Y)
  <2>1. W = X \cup Y /\ X \cap Y = {}
    BY <1>13, <1>15
  <2> HIDE DEF W
  <2>2. IsFiniteSet(X) /\ IsFiniteSet(Y)
    BY <1>4, <1>16
  <2>6. t.total = s.total - y /\ s.total = u - x
    BY <1>2, <1>4
  <2> HIDE DEF X, Y
  <2>3. IsFiniteSet(W) /\ Cardinality(W) = Cardinality(X) + Cardinality(Y) - Cardinality({})
    BY <2>1, <2>2, FS_Union
  <2>4. Cardinality({}) = 0 /\ x \in Nat /\ y \in Nat /\ u \in Nat
    BY <2>2, FS_EmptySet, FS_CardinalityType
  <2>5. Cardinality(W) = x + y
    BY <2>3, <2>4
  <2> HIDE DEF x, y, u
  <2>7. t.total = u - (x + y)
    BY <2>4, <2>6
  <2> QED BY <2>3, <2>5, <2>7 DEF W, u
<1>18. Kept(q, t.total, rs, n, I)
  BY <1>11, <1>12, <1>14, <1>17 DEF Kept
<1> QED BY <1>18, <1>2 DEF t, r, I

\* memblock_remove_range() takes the range out of the array, and nothing else.
LEMMA RemoveRange ==
    ASSUME NEW type, Good(type), NEW base \in Nat, NEW size \in Nat, size # 0,
           type.regions # NoRegions
    PROVE  LET a == memblock_remove_range(type, base, size)
           IN  /\ Good(a.type)
               /\ Covered(a.type) = Covered(type) \ (base .. (base + size - 1))
<1> DEFINE a == memblock_remove_range(type, base, size)
           rs == type.regions
           N == Len(rs)
           end == base + size
           I == base .. (end - 1)
           U == Covered(type)
<1>1. /\ rs \in Seq(Region) /\ N \in Nat /\ N > 0 /\ type.total_size \in Nat
      /\ U = Cov(rs, N)
  BY GoodFacts
<1>2. Apart(rs, 1) /\ IsFiniteSet(U) /\ type.total_size = Cardinality(U)
  BY DEF Good
<1>3. end \in Nat /\ base < end
  OBVIOUS
<1>4. PICK f : /\ RemoveRun(f, rs, type.total_size, base, end)
               /\ a.type = [regions |-> IF f[N].out = <<>> THEN NoRegions ELSE f[N].out,
                            total_size |-> f[N].total]
  BY <1>1, <1>2, RemoveRuns
<1> HIDE DEF a, I, U, N, end, rs
<1>5. /\ \A m \in 0..N : f[m] \in Cut
      /\ f[0] = [out |-> <<>>, total |-> type.total_size, peak |-> 0]
      /\ \A n \in 1..N : f[n] = remove(f[n - 1], rs[n], base, end)
  BY <1>4 DEF RemoveRun, N
<1>6. \A m \in Nat : m \in {k \in Nat : k <= N => Kept(f[k].out, f[k].total, rs, k, I)}
  <2> DEFINE Q == {k \in Nat : k <= N => Kept(f[k].out, f[k].total, rs, k, I)}
  <2>1. 0 \in Q
    <3>1. f[0].out = <<>> /\ f[0].total = type.total_size
      BY <1>5
    <3>2. Apart(<<>>, 1) /\ Len(<<>>) = 0
      BY DEF Apart
    <3>3. Cov(<<>>, 0) = {} /\ Cov(rs, 0) = {}
      BY CovNone
    <3>4. Clear(<<>>, rs, 0)
      BY <3>2 DEF Clear, EndBy
    <3>5. Cov(rs, 0) \cap I = {} /\ IsFiniteSet({}) /\ Cardinality({}) = 0
      BY <3>3, FS_EmptySet
    <3>6. type.total_size = Cardinality(Cov(rs, Len(rs))) - 0
      <4>1. Cardinality(U) \in Nat
        BY <1>2, FS_CardinalityType
      <4> QED BY <1>1, <1>2, <4>1 DEF N
    <3>7. Kept(f[0].out, f[0].total, rs, 0, I)
      BY <3>1, <3>2, <3>3, <3>4, <3>5, <3>6 DEF Kept
    <3> QED BY <3>7
  <2>2. ASSUME NEW m \in Nat, m \in Q PROVE m + 1 \in Q
    <3> SUFFICES ASSUME m + 1 <= N PROVE Kept(f[m + 1].out, f[m + 1].total, rs, m + 1, I)
      OBVIOUS
    <3> DEFINE n == m + 1
    <3>1. n \in 1..N /\ n - 1 = m /\ m \in 0..N /\ m <= N
      BY <1>1
    <3>2. Kept(f[m].out, f[m].total, rs, m, I)
      BY <2>2, <3>1
    <3> HIDE DEF n
    <3>3. f[m] \in Cut /\ f[n] = remove(f[m], rs[n], base, end)
      BY <3>1, <1>5
    <3>4. IsFiniteSet(Cov(rs, Len(rs)))
      BY <1>1, <1>2 DEF N
    <3> DEFINE s == f[m]
    <3>5. s \in Cut /\ Kept(s.out, s.total, rs, n - 1, base .. (end - 1))
      BY <3>1, <3>2, <3>3 DEF I
    <3> HIDE DEF s
    <3>6. Kept(remove(s, rs[n], base, end).out, remove(s, rs[n], base, end).total, rs, n,
               base .. (end - 1))
      BY <3>1, <3>4, <3>5, <1>2, <1>3, RemoveStep DEF N
    <3> QED BY <3>3, <3>6 DEF s, n, I
  <2> HIDE DEF Q
  <2>3. \A m \in Nat : m \in Q
    BY <2>1, <2>2, Induction
  <2> QED BY <2>3 DEF Q
<1>7. Kept(f[N].out, f[N].total, rs, N, I)
  BY <1>6, <1>1
<1> DEFINE o == f[N].out
           c == f[N].total
<1>8. Apart(o, 1) /\ Cov(o, Len(o)) = U \ I /\ c = Cardinality(U) - Cardinality(U \cap I)
  BY <1>7, <1>1 DEF Kept, N
<1> HIDE DEF o, c
<1>9. IsFiniteSet(U \ I) /\ c = Cardinality(U \ I)
  BY <1>2, <1>8, FS_Difference
<1>10. CASE o = <<>>
  <2>1. U \ I = {}
    <3>1. Cov(<<>>, Len(<<>>)) = {}
      BY CovNone
    <3> QED BY <1>8, <1>10, <3>1
  <2>2. a.type = [regions |-> NoRegions, total_size |-> c]
    BY <1>4, <1>10 DEF o, c
  <2>3. Cov(NoRegions, Len(NoRegions)) = {}
    BY NoRegionsFacts
  <2>4. /\ Good([regions |-> NoRegions, total_size |-> c])
        /\ Covered([regions |-> NoRegions, total_size |-> c]) = {}
    BY <1>9, <2>1, <2>3, MakeGood
  <2> QED BY <2>1, <2>2, <2>4 DEF U, I, end, a
<1>11. CASE o # <<>>
  <2>1. a.type = [regions |-> o, total_size |-> c]
    BY <1>4, <1>11 DEF o, c
  <2>2. Len(o) > 0
    BY <1>8, <1>11, InApart
  <2>3. /\ Good([regions |-> o, total_size |-> c])
        /\ Covered([regions |-> o, total_size |-> c]) = U \ I
    BY <1>8, <1>9, <2>2, MakeGood
  <2> QED BY <2>1, <2>3 DEF U, I, end, a
<1> QED BY <1>10, <1>11

----------------------------------------------------------------------------
(* Alignment *)

LEMMA PageSize == PGSIZE \in Nat /\ PGSIZE > 0 /\ ULLONG_MAX \in Nat
BY MemBlockAssumption

LEMMA Division ==
    ASSUME NEW x \in Nat
    PROVE  /\ x \div PGSIZE \in Nat /\ x % PGSIZE \in 0 .. (PGSIZE - 1)
           /\ x = PGSIZE * (x \div PGSIZE) + (x % PGSIZE)
           /\ PGSIZE * (x \div PGSIZE) \in Nat
BY PageSize

\* A multiple of the page size between two multiples that follow each other.
LEMMA NoneBetween ==
    ASSUME NEW p \in Nat, NEW q \in Nat, PGSIZE * p < PGSIZE * q
    PROVE  PGSIZE * p + PGSIZE <= PGSIZE * q
<1>1. p < q
  BY PageSize
<1>2. PGSIZE * (p + 1) <= PGSIZE * q
  BY <1>1, PageSize
<1>3. PGSIZE * (p + 1) = PGSIZE * p + PGSIZE
  BY PageSize
<1> QED BY <1>2, <1>3

LEMMA Multiple ==
    ASSUME NEW q \in Nat
    PROVE  (PGSIZE * q) % PGSIZE = 0
<1> DEFINE x == PGSIZE * q
           p == x \div PGSIZE
           r == x % PGSIZE
           y == PGSIZE * p
<1>1. x \in Nat /\ PGSIZE \in Nat /\ PGSIZE > 0
  BY PageSize
<1>2. p \in Nat /\ r \in 0 .. (PGSIZE - 1) /\ x = y + r /\ y \in Nat
  <2> HIDE DEF x
  <2> QED BY <1>1, Division
<1> HIDE DEF p, r
<1>3. ~(y < x)
  <2> SUFFICES ASSUME y < x PROVE FALSE
    OBVIOUS
  <2>1. y + PGSIZE <= x
    BY <1>2, NoneBetween
  <2> HIDE DEF x, y
  <2> QED BY <1>1, <1>2, <2>1
<1> HIDE DEF x, y
<1>4. r = 0
  BY <1>1, <1>2, <1>3
<1> QED BY <1>4 DEF r, x

LEMMA RoundDown ==
    ASSUME NEW x \in Nat
    PROVE  LET y == round_down(x, PGSIZE)
           IN  /\ y \in Nat /\ y <= x /\ y % PGSIZE = 0
               /\ \A c \in Nat : c % PGSIZE = 0 /\ c <= x => c <= y
<1> DEFINE q == x \div PGSIZE
           r == x % PGSIZE
           y == PGSIZE * q
<1>1. PGSIZE \in Nat /\ PGSIZE > 0
  BY PageSize
<1>2. q \in Nat /\ r \in 0 .. (PGSIZE - 1) /\ x = y + r /\ y \in Nat
  BY Division
<1>3. round_down(x, PGSIZE) = y
  <2>1. round_down(x, PGSIZE) = x - r
    BY DEF round_down
  <2> HIDE DEF y, r
  <2> QED BY <1>1, <1>2, <2>1
<1>4. y % PGSIZE = 0
  BY <1>2, Multiple
<1>5. ASSUME NEW c \in Nat, c % PGSIZE = 0, c <= x PROVE c <= y
  <2> DEFINE p == c \div PGSIZE
             z == PGSIZE * p
  <2>1. p \in Nat /\ c = z + (c % PGSIZE) /\ z \in Nat
    BY Division
  <2>2. c = z
    <3> HIDE DEF z
    <3> QED BY <2>1, <1>5
  <2>3. ~(y < z)
    <3> SUFFICES ASSUME y < z PROVE FALSE
      OBVIOUS
    <3>1. y + PGSIZE <= z
      <4> HIDE DEF p, q
      <4> QED BY <1>2, <2>1, NoneBetween
    <3> HIDE DEF y, z, r
    <3> QED BY <1>1, <1>2, <1>5, <2>1, <2>2, <3>1
  <2> HIDE DEF y, z
  <2> QED BY <1>2, <2>1, <2>2, <2>3
<1>6. y <= x
  <2> HIDE DEF y, r
  <2> QED BY <1>1, <1>2
<1> HIDE DEF y
<1> QED BY <1>2, <1>3, <1>4, <1>5, <1>6

----------------------------------------------------------------------------
(* Searching *)

LEMMA ClampIs ==
    ASSUME NEW v \in Nat, NEW lo \in Nat, NEW hi \in Nat, lo <= hi
    PROVE  clamp(v, lo, hi) = IF v <= lo THEN lo ELSE IF v <= hi THEN v ELSE hi
<1> DEFINE u == IF v <= lo THEN lo ELSE v
<1>1. u \in Nat
  OBVIOUS
<1>2. Max({v, lo}) = u
  BY MinMaxIs
<1>3. clamp(v, lo, hi) = Min({u, hi})
  BY <1>2 DEF clamp
<1>4. Min({u, hi}) = IF u <= hi THEN u ELSE hi
  <2> HIDE DEF u
  <2> QED BY <1>1, MinMaxIs
<1> QED BY <1>3, <1>4

Candidate(from, to, hi, size) ==
    candidate(clamp(from, PGSIZE, hi), clamp(to, PGSIZE, hi), size, PGSIZE)

\* A candidate is an aligned place in the range, behind page 0, and the highest there is.
LEMMA CandidateIs ==
    ASSUME NEW from \in Nat, NEW to \in Nat, NEW hi \in Nat, PGSIZE <= hi, NEW size \in Nat
    PROVE  LET k == Candidate(from, to, hi, size)
           IN  /\ k \in Nat
               /\ k # 0 => /\ k >= PGSIZE /\ k % PGSIZE = 0
                           /\ size > 0 => from <= k /\ k + size <= to
               /\ \A c \in Nat, s \in Nat \ {0} :
                     /\ s >= size /\ c >= PGSIZE /\ c % PGSIZE = 0
                     /\ from <= c /\ c + s <= to /\ c + s <= hi
                     => k # 0 /\ c <= k
<1> DEFINE k == Candidate(from, to, hi, size)
           f == IF from <= PGSIZE THEN PGSIZE ELSE IF from <= hi THEN from ELSE hi
           t == IF to <= PGSIZE THEN PGSIZE ELSE IF to <= hi THEN to ELSE hi
           y == round_down(t - size, PGSIZE)
<1>1. PGSIZE \in Nat /\ PGSIZE > 0
  BY PageSize
<1>2. clamp(from, PGSIZE, hi) = f
  BY <1>1, ClampIs
<1>3. clamp(to, PGSIZE, hi) = t
  BY <1>1, ClampIs
<1>4. k = IF t < size \/ y < f THEN 0 ELSE y
  BY <1>2, <1>3 DEF Candidate, candidate
<1>5. f \in Nat /\ t \in Nat /\ f >= PGSIZE
  BY <1>1
<1>6. t >= size => /\ y \in Nat /\ y <= t - size /\ y % PGSIZE = 0
                   /\ \A c \in Nat : c % PGSIZE = 0 /\ c <= t - size => c <= y
  <2> SUFFICES ASSUME t >= size
               PROVE  /\ y \in Nat /\ y <= t - size /\ y % PGSIZE = 0
                      /\ \A c \in Nat : c % PGSIZE = 0 /\ c <= t - size => c <= y
    OBVIOUS
  <2> DEFINE x == t - size
  <2>1. x \in Nat
    BY <1>5
  <2> HIDE DEF t, x
  <2>2. /\ round_down(x, PGSIZE) \in Nat /\ round_down(x, PGSIZE) <= x
        /\ round_down(x, PGSIZE) % PGSIZE = 0
        /\ \A c \in Nat : c % PGSIZE = 0 /\ c <= x => c <= round_down(x, PGSIZE)
    BY <2>1, RoundDown
  <2> QED BY <2>2 DEF x
<1> HIDE DEF y, k
<1>7. k \in Nat
  <2> HIDE DEF t, f
  <2> QED BY <1>4, <1>5, <1>6
<1>8. ASSUME k # 0
      PROVE  k >= PGSIZE /\ k % PGSIZE = 0 /\ (size > 0 => from <= k /\ k + size <= to)
  <2>1. t >= size /\ y >= f /\ k = y
    <3>1. y \in Nat \/ t < size
      <4> HIDE DEF t, f
      <4> QED BY <1>5, <1>6
    <3> HIDE DEF t, f
    <3> QED BY <1>4, <1>5, <1>8, <3>1
  <2>2. k \in Nat /\ k <= t - size /\ k % PGSIZE = 0
    BY <2>1, <1>6
  <2>3. k >= PGSIZE
    <3> HIDE DEF t, f
    <3> QED BY <1>1, <1>5, <2>1, <2>2
  <2>4. size > 0 => from <= k /\ k + size <= to
    BY <1>1, <2>1, <2>2
  <2> QED BY <2>2, <2>3, <2>4
<1>9. ASSUME NEW c \in Nat, NEW s \in Nat \ {0}, s >= size, c >= PGSIZE, c % PGSIZE = 0,
             from <= c, c + s <= to, c + s <= hi
      PROVE  k # 0 /\ c <= k
  <2>1. t >= c + s /\ f <= c
    BY <1>1, <1>9
  <2> HIDE DEF t, f
  <2>2. t >= size /\ c <= t - size
    BY <2>1, <1>5, <1>9
  <2>3. c <= y /\ y \in Nat
    BY <2>2, <1>6, <1>9
  <2>4. k = y
    BY <1>4, <1>5, <2>1, <2>2, <2>3
  <2> QED BY <2>3, <2>4, <1>1, <1>9
<1> QED BY <1>7, <1>8, <1>9 DEF k

\* A sorted array below an address, with what an array without regions has in common.
Sorted(rs, lim) ==
    /\ rs \in Seq(Region) /\ Len(rs) \in Nat /\ Len(rs) > 0
    /\ \A i \in 1..Len(rs) :
          /\ rs[i] \in Region /\ rs[i].base \in Nat /\ REnd(rs[i]) \in Nat
          /\ rs[i].base <= REnd(rs[i]) /\ REnd(rs[i]) <= lim
          /\ rs[i].base < REnd(rs[i]) \/ REnd(rs[i]) = 0
    /\ \A i, j \in 1..Len(rs) : i < j => REnd(rs[i]) < rs[j].base

LEMMA GoodSorted ==
    ASSUME NEW type, Good(type), NEW lim \in Nat, Covered(type) \subseteq 0 .. (lim - 1)
    PROVE  Sorted(type.regions, lim)
<1> DEFINE rs == type.regions
<1>1. rs \in Seq(Region) /\ Len(rs) \in Nat /\ Len(rs) > 0 /\ Covered(type) = Cov(rs, Len(rs))
  BY GoodFacts
<1>2. CASE rs = NoRegions
  <2>1. Len(rs) = 1 /\ rs[1] = Rgn(0, 0)
    BY <1>2, NoRegionsFacts
  <2>2. Rgn(0, 0) \in Region /\ Rgn(0, 0).base = 0 /\ REnd(Rgn(0, 0)) = 0 + 0
    BY RgnFacts
  <2> HIDE DEF rs
  <2>3. Sorted(rs, lim)
    BY <1>1, <2>1, <2>2 DEF Sorted
  <2> QED BY <2>3 DEF rs
<1>3. CASE rs # NoRegions
  <2>1. Apart(rs, 1)
    BY <1>3 DEF Good
  <2>2. ASSUME NEW i \in 1..Len(rs)
        PROVE  /\ rs[i] \in Region /\ rs[i].base \in Nat /\ REnd(rs[i]) \in Nat
               /\ rs[i].base < REnd(rs[i]) /\ REnd(rs[i]) <= lim
    <3>1. /\ rs[i] \in Region /\ rs[i].base \in Nat /\ rs[i].size \in Nat \ {0}
          /\ REnd(rs[i]) = rs[i].base + rs[i].size
      BY <2>1, InApart
    <3> DEFINE x == REnd(rs[i]) - 1
    <3>2. x \in Bytes(rs[i])
      BY <3>1 DEF Bytes
    <3>3. x \in Cov(rs, Len(rs))
      BY <3>2, CovIs
    <3>4. x \in 0 .. (lim - 1)
      BY <1>1, <3>3
    <3> QED BY <3>1, <3>4
  <2>3. ASSUME NEW i \in 1..Len(rs), NEW j \in 1..Len(rs), i < j PROVE REnd(rs[i]) < rs[j].base
    <3>1. REnd(rs[i]) + 1 <= rs[j].base
      BY <2>1, <2>3 DEF Apart
    <3> QED BY <3>1, <2>2
  <2>4. \A i \in 1..Len(rs) : rs[i].base <= REnd(rs[i])
    <3> SUFFICES ASSUME NEW i \in 1..Len(rs) PROVE rs[i].base <= REnd(rs[i])
      OBVIOUS
    <3>1. rs[i].base \in Nat /\ REnd(rs[i]) \in Nat /\ rs[i].base < REnd(rs[i])
      BY <2>2
    <3> QED BY <3>1
  <2> QED BY <1>1, <2>2, <2>3, <2>4 DEF Sorted
<1> QED BY <1>2, <1>3

\* The gaps between reserved regions, in ascending order.
LEMMA Gaps ==
    ASSUME Sorted(reserved.regions, ULLONG_MAX), NEW j \in 0..Len(reserved.regions)
    PROVE  /\ r_start(j) \in Nat /\ r_end(j) \in Nat /\ r_start(j) <= r_end(j)
           /\ \A k \in 0..Len(reserved.regions) : k < j => r_end(k) <= r_start(j)
<1> DEFINE rs == reserved.regions
           B == Len(rs)
<1>1. /\ B \in Nat
      /\ \A i \in 1..B : /\ rs[i].base \in Nat /\ REnd(rs[i]) \in Nat
                         /\ rs[i].base <= REnd(rs[i]) /\ REnd(rs[i]) <= ULLONG_MAX
      /\ \A i, k \in 1..B : i < k => REnd(rs[i]) < rs[k].base
  BY DEF Sorted
<1>2. \A k \in 0..B : /\ k > 0 => k \in 1..B /\ r_start(k) = REnd(rs[k])
                      /\ k = 0 => r_start(k) = 0
                      /\ k < B => k + 1 \in 1..B /\ r_end(k) = rs[k + 1].base
                      /\ k = B => r_end(k) = ULLONG_MAX
  BY <1>1 DEF r_start, r_end
<1> HIDE DEF B, rs
<1>3. j \in 0..B
  BY DEF B, rs
<1>4. r_start(j) \in Nat /\ r_end(j) \in Nat
  <2>1. r_start(j) \in Nat
    <3>1. CASE j = 0
      BY <3>1, <1>2, <1>3
    <3>2. CASE j > 0
      BY <3>2, <1>1, <1>2, <1>3
    <3> QED BY <3>1, <3>2, <1>1, <1>3
  <2>2. r_end(j) \in Nat
    <3>1. CASE j = B
      BY <3>1, <1>2, <1>3, PageSize
    <3>2. CASE j < B
      BY <3>2, <1>1, <1>2, <1>3
    <3> QED BY <3>1, <3>2, <1>1, <1>3
  <2> QED BY <2>1, <2>2
<1>5. r_start(j) <= r_end(j)
  <2>1. CASE j = 0
    BY <2>1, <1>2, <1>3, <1>4
  <2>2. CASE j > 0 /\ j < B
    <3>1. j \in 1..B /\ j + 1 \in 1..B /\ j < j + 1
      BY <2>2, <1>2, <1>3
    <3>2. REnd(rs[j]) < rs[j + 1].base
      BY <3>1, <1>1
    <3>3. r_start(j) < r_end(j)
      BY <2>2, <1>2, <1>3, <3>2
    <3> QED BY <3>3, <1>4
  <2>3. CASE j > 0 /\ j = B
    BY <2>3, <1>1, <1>2, <1>3
  <2> QED BY <2>1, <2>2, <2>3, <1>1, <1>3
<1>6. ASSUME NEW k \in 0..B, k < j PROVE r_end(k) <= r_start(j)
  <2>1. k < B /\ j > 0
    BY <1>1, <1>3, <1>6
  <2>2. k + 1 \in 1..B /\ r_end(k) = rs[k + 1].base /\ j \in 1..B /\ r_start(j) = REnd(rs[j])
    BY <2>1, <1>2, <1>3
  <2>3. CASE k + 1 = j
    BY <2>2, <2>3, <1>1
  <2>4. CASE k + 1 < j
    <3>1. REnd(rs[k + 1]) < rs[j].base /\ rs[j].base <= REnd(rs[j])
          /\ rs[k + 1].base <= REnd(rs[k + 1])
      BY <2>2, <2>4, <1>1
    <3>2. rs[j].base \in Nat /\ REnd(rs[j]) \in Nat /\ rs[k + 1].base \in Nat
          /\ REnd(rs[k + 1]) \in Nat
      BY <2>2, <1>1
    <3> QED BY <3>1, <3>2, <2>2
  <2> QED BY <2>3, <2>4, <1>3, <1>6
<1> QED BY <1>4, <1>5, <1>6 DEF B, rs

\* s bytes from c on lie in region i of memory and in gap j.
Room(i, j, c, s) ==
    /\ memory.regions[i].base <= c /\ c + s <= REnd(memory.regions[i])
    /\ r_start(j) <= c /\ c + s <= r_end(j)

Aligned(c) == c >= PGSIZE /\ c % PGSIZE = 0

NoRoom(i, j, s) == \A c \in Nat : Aligned(c) => ~Room(i, j, c, s)

Limit == Max({PGSIZE, current_limit})

\* Room for one byte when none is asked for.
Ask(size) == IF size = 0 THEN 1 ELSE size

\* What the walk relies on.
Arrays ==
    /\ current_limit \in Nat /\ current_limit <= ULLONG_MAX
    /\ Sorted(memory.regions, current_limit)
    /\ Sorted(reserved.regions, ULLONG_MAX)

PairCand(i, j, size) ==
    Candidate(Max({memory.regions[i].base, r_start(j)}),
              Min({REnd(memory.regions[i]), r_end(j)}), Limit, size)

LEMMA PairIs ==
    ASSUME Arrays, NEW i \in 1..Len(memory.regions), NEW j \in 0..Len(reserved.regions),
           NEW size \in Nat
    PROVE  LET k == PairCand(i, j, size)
           IN  /\ k \in Nat
               /\ k # 0 => Aligned(k) /\ (size > 0 => Room(i, j, k, size))
               /\ \A c \in Nat : Aligned(c) /\ Room(i, j, c, Ask(size)) => k # 0 /\ c <= k
<1> DEFINE m == memory.regions[i]
           b == m.base
           e == REnd(m)
           u == r_start(j)
           v == r_end(j)
           from == IF b <= u THEN u ELSE b
           to == IF e <= v THEN e ELSE v
           k == PairCand(i, j, size)
           h == Limit
<1>1. b \in Nat /\ e \in Nat /\ e <= current_limit /\ current_limit \in Nat
  BY DEF Arrays, Sorted
<1>2. u \in Nat /\ v \in Nat
  BY Gaps DEF Arrays
<1>3. h \in Nat /\ PGSIZE <= h /\ current_limit <= h
  <2>1. h = IF PGSIZE <= current_limit THEN current_limit ELSE PGSIZE
    <3>1. PGSIZE \in Int /\ current_limit \in Int
      BY <1>1, PageSize
    <3> QED BY <3>1, MinMaxIs DEF Limit
  <2> QED BY <2>1, <1>1, PageSize
<1>4. k = Candidate(Max({b, u}), Min({e, v}), h, size)
  BY DEF PairCand
<1>5. \A c, s : Room(i, j, c, s) <=> b <= c /\ c + s <= e /\ u <= c /\ c + s <= v
  BY DEF Room
<1> HIDE DEF b, e, u, v, h, k
<1>6. Max({b, u}) = from
  <2>1. b \in Int /\ u \in Int
    BY <1>1, <1>2
  <2> QED BY <2>1, MinMaxIs
<1>7. Min({e, v}) = to
  <2>1. e \in Int /\ v \in Int
    BY <1>1, <1>2
  <2> QED BY <2>1, MinMaxIs
<1>8. from \in Nat /\ to \in Nat
  BY <1>1, <1>2
<1>9. \A c, s \in Nat : Room(i, j, c, s) <=> from <= c /\ c + s <= to
  BY <1>1, <1>2, <1>5
<1>10. \A c, s \in Nat : Room(i, j, c, s) => c + s <= h
  BY <1>1, <1>2, <1>3, <1>5
<1> HIDE DEF from, to
<1>11. k = Candidate(from, to, h, size)
  BY <1>4, <1>6, <1>7
<1>12. /\ k \in Nat
       /\ k # 0 => /\ k >= PGSIZE /\ k % PGSIZE = 0
                   /\ size > 0 => from <= k /\ k + size <= to
       /\ \A c \in Nat, s \in Nat \ {0} :
             /\ s >= size /\ c >= PGSIZE /\ c % PGSIZE = 0
             /\ from <= c /\ c + s <= to /\ c + s <= h
             => k # 0 /\ c <= k
  <2> DEFINE kk == Candidate(from, to, h, size)
  <2>1. /\ kk \in Nat
        /\ kk # 0 => /\ kk >= PGSIZE /\ kk % PGSIZE = 0
                     /\ size > 0 => from <= kk /\ kk + size <= to
        /\ \A c \in Nat, s \in Nat \ {0} :
              /\ s >= size /\ c >= PGSIZE /\ c % PGSIZE = 0
              /\ from <= c /\ c + s <= to /\ c + s <= h
              => kk # 0 /\ c <= kk
    BY <1>3, <1>8, CandidateIs
  <2>2. k = kk
    BY <1>11
  <2> HIDE DEF kk
  <2> QED BY <2>1, <2>2
<1>13. k # 0 => Aligned(k) /\ (size > 0 => Room(i, j, k, size))
  BY <1>9, <1>12 DEF Aligned
<1>14. ASSUME NEW c \in Nat, Aligned(c), Room(i, j, c, Ask(size)) PROVE k # 0 /\ c <= k
  <2> DEFINE s == Ask(size)
  <2>1. s \in Nat \ {0} /\ s >= size
    BY DEF Ask
  <2>4. Room(i, j, c, s)
    BY <1>14
  <2> HIDE DEF s
  <2>2. from <= c /\ c + s <= to /\ c + s <= h
    BY <2>1, <2>4, <1>9, <1>10
  <2>3. c >= PGSIZE /\ c % PGSIZE = 0
    BY <1>14 DEF Aligned
  <2> QED BY <2>1, <2>2, <2>3, <1>12
<1> QED BY <1>12, <1>13, <1>14 DEF k

\* No room in the regions and gaps the walk has left behind.
Passed(a, b, s) ==
    \A i \in 1..Len(memory.regions), j \in 0..Len(reserved.regions) :
        i > a \/ j > b => NoRoom(i, j, s)

LEMMA RoomIs ==
    ASSUME Arrays, NEW i \in 1..Len(memory.regions), NEW j \in 0..Len(reserved.regions)
    PROVE  /\ memory.regions[i].base \in Nat /\ REnd(memory.regions[i]) \in Nat
           /\ r_start(j) \in Nat /\ r_end(j) \in Nat
           /\ memory.regions[i].base <= REnd(memory.regions[i]) /\ r_start(j) <= r_end(j)
<1>1. /\ memory.regions[i].base \in Nat /\ REnd(memory.regions[i]) \in Nat
      /\ memory.regions[i].base <= REnd(memory.regions[i])
  BY DEF Arrays, Sorted
<1>2. r_start(j) \in Nat /\ r_end(j) \in Nat /\ r_start(j) <= r_end(j)
  BY Gaps DEF Arrays
<1> QED BY <1>1, <1>2

\* The walk leaves a region behind: the gaps below end where the region starts.
LEMMA LeaveRegion ==
    ASSUME Arrays, NEW a \in 1..Len(memory.regions), NEW b \in 0..Len(reserved.regions),
           NEW s \in Nat \ {0}, Passed(a, b, s),
           \/ r_end(b) <= memory.regions[a].base
           \/ r_start(b) <= memory.regions[a].base /\ NoRoom(a, b, s)
    PROVE  Passed(a - 1, b, s)
<1> SUFFICES ASSUME NEW i \in 1..Len(memory.regions), NEW j \in 0..Len(reserved.regions),
                    i > a - 1 \/ j > b
             PROVE  NoRoom(i, j, s)
  BY DEF Passed
<1>0. Len(memory.regions) \in Nat /\ Len(reserved.regions) \in Nat
  BY DEF Arrays, Sorted
<1>1. CASE i > a \/ j > b
  BY <1>1 DEF Passed
<1>2. CASE i = a /\ j <= b
  <2> SUFFICES ASSUME NEW c \in Nat, Aligned(c), Room(a, j, c, s) PROVE FALSE
    BY <1>2 DEF NoRoom
  <2>1. memory.regions[a].base <= c /\ c + s <= r_end(j)
    BY DEF Room
  <2>2. memory.regions[a].base \in Nat /\ r_end(j) \in Nat /\ r_start(b) \in Nat /\ r_end(b) \in Nat
        /\ r_start(b) <= r_end(b)
    BY RoomIs
  <2>3. CASE j < b
    <3>1. r_end(j) <= r_start(b)
      BY <2>3, Gaps DEF Arrays
    <3> DEFINE x == memory.regions[a].base
               y == r_end(j)
               z == r_start(b)
    <3>2. x <= c /\ c + s <= y /\ y <= z /\ x \in Nat /\ y \in Nat /\ z \in Nat
      BY <2>1, <2>2, <3>1
    <3>3. z <= x \/ r_end(b) <= x
      OBVIOUS
    <3>4. z <= r_end(b) /\ r_end(b) \in Nat
      BY <2>2
    <3> HIDE DEF x, y, z
    <3> QED BY <3>2, <3>3, <3>4
  <2>4. CASE j = b /\ r_end(b) <= memory.regions[a].base
    BY <2>1, <2>2, <2>4
  <2>5. CASE j = b /\ NoRoom(a, b, s)
    BY <2>5 DEF NoRoom
  <2> QED BY <1>0, <1>2, <2>3, <2>4, <2>5
<1> QED BY <1>0, <1>1, <1>2

\* The walk leaves a gap behind: the regions below end where the gap starts.
LEMMA LeaveGap ==
    ASSUME Arrays, NEW a \in 1..Len(memory.regions), NEW b \in 0..Len(reserved.regions),
           NEW s \in Nat \ {0}, Passed(a, b, s),
           \/ REnd(memory.regions[a]) <= r_start(b)
           \/ memory.regions[a].base < r_start(b) /\ NoRoom(a, b, s)
    PROVE  Passed(a, b - 1, s)
<1> SUFFICES ASSUME NEW i \in 1..Len(memory.regions), NEW j \in 0..Len(reserved.regions),
                    i > a \/ j > b - 1
             PROVE  NoRoom(i, j, s)
  BY DEF Passed
<1>0. Len(memory.regions) \in Nat /\ Len(reserved.regions) \in Nat
  BY DEF Arrays, Sorted
<1>1. CASE i > a \/ j > b
  BY <1>1 DEF Passed
<1>2. CASE j = b /\ i <= a
  <2> SUFFICES ASSUME NEW c \in Nat, Aligned(c), Room(i, b, c, s) PROVE FALSE
    BY <1>2 DEF NoRoom
  <2>1. c + s <= REnd(memory.regions[i]) /\ r_start(b) <= c
    BY DEF Room
  <2>2. /\ memory.regions[a].base \in Nat /\ REnd(memory.regions[a]) \in Nat
        /\ REnd(memory.regions[i]) \in Nat /\ r_start(b) \in Nat
        /\ memory.regions[a].base <= REnd(memory.regions[a])
    BY RoomIs
  <2>3. CASE i < a
    <3>1. REnd(memory.regions[i]) < memory.regions[a].base
      BY <2>3 DEF Arrays, Sorted
    <3> DEFINE x == memory.regions[a].base
               y == REnd(memory.regions[i])
               v == REnd(memory.regions[a])
               z == r_start(b)
    <3>2. /\ z <= c /\ c + s <= y /\ y < x /\ x <= v
          /\ x \in Nat /\ y \in Nat /\ z \in Nat /\ v \in Nat
      BY <2>1, <2>2, <3>1
    <3>3. v <= z \/ x < z
      OBVIOUS
    <3> HIDE DEF x, y, z, v
    <3> QED BY <3>2, <3>3
  <2>4. CASE i = a /\ REnd(memory.regions[a]) <= r_start(b)
    BY <2>1, <2>2, <2>4
  <2>5. CASE i = a /\ NoRoom(a, b, s)
    BY <2>5 DEF NoRoom
  <2> QED BY <1>0, <1>2, <2>3, <2>4, <2>5
<1> QED BY <1>0, <1>1, <1>2

Walk == [a : Nat, b : Int, cand : Nat]

Stopped(w) == w.cand # 0 \/ w.a = 0 \/ w.b < 0

\* One step of the walk.
Forward(w, size) == __next_mem_range_rev(w, PGSIZE, Limit, size, PGSIZE)

LEMMA ForwardIs ==
    ASSUME Arrays, NEW w \in Walk, w.a <= Len(memory.regions), w.b <= Len(reserved.regions),
           NEW size \in Nat
    PROVE  LET x == Forward(w, size)
               m == memory.regions[w.a]
               k == PairCand(w.a, w.b, size)
           IN  /\ x \in Walk
               /\ Stopped(w) => x = w
               /\ ~Stopped(w) =>
                     \/ /\ x.a = w.a - 1 /\ x.b = w.b /\ x.cand = 0
                        /\ \/ r_end(w.b) <= m.base
                           \/ r_start(w.b) <= m.base /\ k = 0
                     \/ /\ x.a = w.a /\ x.b = w.b - 1 /\ x.cand = 0
                        /\ \/ REnd(m) <= r_start(w.b)
                           \/ m.base < r_start(w.b) /\ k = 0
                     \/ x.a = w.a /\ x.b = w.b /\ x.cand = k /\ k # 0
<1> DEFINE x == Forward(w, size)
           m == memory.regions[w.a]
           k == PairCand(w.a, w.b, size)
           x1 == [w EXCEPT !.a = @ - 1]
           x2 == [w EXCEPT !.b = @ - 1]
           x3 == [w EXCEPT !.cand = k]
<1>1. x = IF Stopped(w) THEN w
          ELSE IF r_end(w.b) <= m.base THEN x1
          ELSE IF REnd(m) <= r_start(w.b) THEN x2
          ELSE IF k # 0 THEN x3
          ELSE IF m.base >= r_start(w.b) THEN x1
          ELSE x2
  BY DEF Forward, __next_mem_range_rev, Stopped, PairCand, Candidate
<1>2. w.a \in Nat /\ w.b \in Int /\ w.cand \in Nat
  BY DEF Walk
<1>3. CASE Stopped(w)
  BY <1>1, <1>3
<1>4. CASE ~Stopped(w)
  <2>1. w.a \in Nat \ {0} /\ w.b \in Nat /\ w.cand = 0
    BY <1>2, <1>4 DEF Stopped
  <2>2. w.a \in 1..Len(memory.regions) /\ w.b \in 0..Len(reserved.regions)
    <3>1. Len(memory.regions) \in Nat /\ Len(reserved.regions) \in Nat
      BY DEF Arrays, Sorted
    <3> QED BY <2>1, <3>1
  <2> DEFINE a == w.a
             b == w.b
  <2>3. a \in 1..Len(memory.regions) /\ b \in 0..Len(reserved.regions)
    BY <2>2
  <2>4. /\ memory.regions[a].base \in Nat /\ REnd(memory.regions[a]) \in Nat
        /\ r_start(b) \in Nat /\ r_end(b) \in Nat /\ PairCand(a, b, size) \in Nat
    <3> HIDE DEF a, b
    <3> QED BY <2>3, RoomIs, PairIs
  <2>5. k \in Nat /\ m.base \in Nat /\ r_start(w.b) \in Nat
    BY <2>4
  <2>6. /\ x1 \in Walk /\ x1.a = w.a - 1 /\ x1.b = w.b /\ x1.cand = 0
        /\ x2 \in Walk /\ x2.a = w.a /\ x2.b = w.b - 1 /\ x2.cand = 0
        /\ x3 \in Walk /\ x3.a = w.a /\ x3.b = w.b /\ x3.cand = k
    <3> HIDE DEF k
    <3> QED BY <2>1, <2>5 DEF Walk
  <2> HIDE DEF x, x1, x2, x3, k
  <2>7. m.base >= r_start(w.b) => r_start(w.b) <= m.base
    BY <2>5
  <2>8. ~(m.base >= r_start(w.b)) => m.base < r_start(w.b)
    BY <2>5
  <2> HIDE DEF m
  <2>9. CASE x = x1 /\ (r_end(w.b) <= m.base \/ (r_start(w.b) <= m.base /\ k = 0))
    BY <1>4, <2>6, <2>9 DEF x, k, m
  <2>10. CASE x = x2 /\ (REnd(m) <= r_start(w.b) \/ (m.base < r_start(w.b) /\ k = 0))
    BY <1>4, <2>6, <2>10 DEF x, k, m
  <2>11. CASE x = x3 /\ k # 0
    BY <1>4, <2>6, <2>11 DEF x, k, m
  <2> QED BY <1>1, <1>4, <2>7, <2>8, <2>9, <2>10, <2>11
<1> QED BY <1>3, <1>4

\* What the walk keeps: after n steps it has left n regions and gaps, all without room, and
\* where it stopped there is room.
Walking(w, n, size) ==
    /\ w \in Walk /\ w.a <= Len(memory.regions) /\ -1 <= w.b /\ w.b <= Len(reserved.regions)
    /\ w.cand # 0 => w.a > 0 /\ w.b >= 0 /\ w.cand = PairCand(w.a, w.b, size)
    /\ ~Stopped(w) => w.a + w.b = Len(memory.regions) + Len(reserved.regions) - n
    /\ Passed(w.a, w.b, Ask(size))

LEMMA WalkStep ==
    ASSUME Arrays, NEW size \in Nat, NEW n \in Nat, NEW w, Walking(w, n, size)
    PROVE  Walking(Forward(w, size), n + 1, size)
<1> DEFINE x == Forward(w, size)
           A == Len(memory.regions)
           B == Len(reserved.regions)
           a == w.a
           b == w.b
           m == memory.regions[a]
           k == PairCand(a, b, size)
           s == Ask(size)
<1>0. A \in Nat /\ B \in Nat
  BY DEF Arrays, Sorted
<1>1. w \in Walk /\ a <= A /\ -1 <= b /\ b <= B /\ a \in Nat /\ b \in Int
  BY DEF Walking, Walk
<1>2. /\ x \in Walk
      /\ Stopped(w) => x = w
      /\ ~Stopped(w) =>
            \/ /\ x.a = a - 1 /\ x.b = b /\ x.cand = 0
               /\ \/ r_end(b) <= m.base
                  \/ r_start(b) <= m.base /\ k = 0
            \/ /\ x.a = a /\ x.b = b - 1 /\ x.cand = 0
               /\ \/ REnd(m) <= r_start(b)
                  \/ m.base < r_start(b) /\ k = 0
            \/ x.a = a /\ x.b = b /\ x.cand = k /\ k # 0
  BY <1>1, ForwardIs
<1> HIDE DEF x
<1>3. CASE Stopped(w)
  <2>1. Walking(w, n + 1, size)
    BY <1>3 DEF Walking
  <2> QED BY <1>2, <1>3, <2>1 DEF x
<1>4. CASE ~Stopped(w)
  <2>1. a > 0 /\ b >= 0 /\ a + b = A + B - n /\ Passed(a, b, s)
    <3>1. a + b = A + B - n /\ Passed(a, b, s)
      BY <1>4 DEF Walking
    <3>2. a # 0 /\ ~(b < 0)
      BY <1>4 DEF Stopped
    <3> HIDE DEF a, b, s, A, B
    <3>3. a > 0 /\ b >= 0
      BY <1>1, <3>2
    <3> QED BY <3>1, <3>3
  <2>2. a \in 1..A /\ b \in 0..B
    BY <1>0, <1>1, <2>1
  <2>3. s \in Nat \ {0}
    BY DEF Ask
  <2>4. k = 0 => NoRoom(a, b, s)
    <3> HIDE DEF a, b
    <3> SUFFICES ASSUME k = 0, NEW c \in Nat, Aligned(c), Room(a, b, c, s) PROVE FALSE
      BY DEF NoRoom
    <3>1. k # 0
      BY <2>2, PairIs
    <3> QED BY <3>1
  <2> HIDE DEF k, m, s, a, b, A, B
  <2>5. CASE x.a = a - 1 /\ x.b = b /\ x.cand = 0
             /\ (r_end(b) <= m.base \/ (r_start(b) <= m.base /\ k = 0))
    <3>1. Passed(a - 1, b, s)
      BY <2>1, <2>2, <2>3, <2>4, <2>5, LeaveRegion DEF m, A, B
    <3>2. x.a <= A /\ -1 <= x.b /\ x.b <= B /\ x.a + x.b = A + B - (n + 1)
      BY <1>0, <1>1, <2>1, <2>5
    <3>3. Passed(x.a, x.b, s)
      BY <3>1, <2>5
    <3>4. Walking(x, n + 1, size)
      BY <1>2, <2>5, <3>2, <3>3 DEF Walking, A, B, s
    <3> QED BY <3>4 DEF x
  <2>6. CASE x.a = a /\ x.b = b - 1 /\ x.cand = 0
             /\ (REnd(m) <= r_start(b) \/ (m.base < r_start(b) /\ k = 0))
    <3>1. Passed(a, b - 1, s)
      BY <2>1, <2>2, <2>3, <2>4, <2>6, LeaveGap DEF m, A, B
    <3>2. x.a <= A /\ -1 <= x.b /\ x.b <= B /\ x.a + x.b = A + B - (n + 1)
      BY <1>0, <1>1, <2>1, <2>6
    <3>3. Passed(x.a, x.b, s)
      BY <3>1, <2>6
    <3>4. Walking(x, n + 1, size)
      BY <1>2, <2>6, <3>2, <3>3 DEF Walking, A, B, s
    <3> QED BY <3>4 DEF x
  <2>7. CASE x.a = a /\ x.b = b /\ x.cand = k /\ k # 0
    <3>1. Stopped(x)
      BY <2>7 DEF Stopped
    <3>2. Passed(x.a, x.b, s) /\ x.a <= A /\ -1 <= x.b /\ x.b <= B /\ x.a > 0 /\ x.b >= 0
      BY <1>1, <2>1, <2>7
    <3>3. x.cand = PairCand(x.a, x.b, size)
      BY <2>7 DEF k
    <3>4. Walking(x, n + 1, size)
      BY <1>2, <3>1, <3>2, <3>3 DEF Walking, A, B, s
    <3> QED BY <3>4 DEF x
  <2> QED BY <1>2, <1>4, <2>5, <2>6, <2>7 DEF a, b, m, k
<1> QED BY <1>3, <1>4

\* Where the walk is, in the array of its states.
LEMMA WalkRuns ==
    ASSUME Arrays, NEW size \in Nat
    PROVE  \E w : /\ Walking(w, Len(memory.regions) + Len(reserved.regions) + 1, size)
                  /\ memblock_find_in_range(size, PGSIZE) = w.cand
<1> DEFINE A == Len(memory.regions)
           B == Len(reserved.regions)
           N == A + B + 1
           S == {w \in Walk : w.a <= A /\ w.b <= B}
           x == [a |-> A, b |-> B, cand |-> 0]
           step == [p \in (1..N) \X S |-> Forward(p[2], size)]
           Body(f) == [n \in 0..N |-> IF n = 0 THEN x ELSE Forward(f[n - 1], size)]
           loop == CHOOSE f : f = Body(f)
<1>0. A \in Nat /\ B \in Nat /\ N \in Nat
  <2>1. A \in Nat /\ B \in Nat
    BY DEF Arrays, Sorted
  <2> HIDE DEF A, B
  <2> QED BY <2>1
<1>1. memblock_find_in_range(size, PGSIZE) = loop[N].cand
  BY DEF memblock_find_in_range, __memblock_find_range_top_down, Forward, Limit
<1>2. x \in S /\ x \in Walk /\ x.a = A /\ x.b = B /\ x.cand = 0
  BY <1>0 DEF Walk
<1>3. ASSUME NEW w \in S PROVE Forward(w, size) \in S
  <2>1. w \in Walk /\ w.a <= A /\ w.b <= B /\ w.a \in Nat /\ w.b \in Int
    BY DEF Walk
  <2> DEFINE y == Forward(w, size)
  <2>2. y \in Walk /\ (Stopped(w) => y = w)
        /\ (~Stopped(w) => \/ y.a = w.a - 1 /\ y.b = w.b
                           \/ y.a = w.a /\ y.b = w.b - 1
                           \/ y.a = w.a /\ y.b = w.b)
    BY <2>1, ForwardIs
  <2> HIDE DEF y
  <2>3. y.a <= A /\ y.b <= B
    <3> HIDE DEF A, B
    <3> QED BY <1>0, <2>1, <2>2
  <2> QED BY <2>2, <2>3 DEF y
<1>4. step \in [(1..N) \X S -> S]
  <2> SUFFICES ASSUME NEW p \in (1..N) \X S PROVE Forward(p[2], size) \in S
    OBVIOUS
  <2>1. p[2] \in S
    OBVIOUS
  <2> HIDE DEF S
  <2> QED BY <2>1, <1>3
<1>5. \A n \in 1..N, w \in S : step[<<n, w>>] = Forward(w, size)
  OBVIOUS
<1> HIDE DEF step, x, S, N, A, B
<1>6. PICK g : IsRun(g, N, S, x, step)
  BY <1>0, <1>2, <1>4, RunExists
<1>7. g = Body(g)
  <2>1. g \in [0..N -> S] /\ g[0] = x /\ \A n \in 1..N : g[n] = step[<<n, g[n - 1]>>]
    BY <1>6 DEF IsRun
  <2>2. ASSUME NEW n \in 0..N PROVE g[n] = IF n = 0 THEN x ELSE Forward(g[n - 1], size)
    <3>1. CASE n = 0
      BY <3>1, <2>1
    <3>2. CASE n # 0
      <4>1. n \in 1..N /\ n - 1 \in 0..N
        BY <3>2, <1>0
      <4> QED BY <4>1, <2>1, <1>5
    <3> QED BY <3>1, <3>2
  <2> QED BY <2>1, <2>2
<1>8. loop = Body(loop)
  BY <1>7
<1> HIDE DEF loop
<1>9. loop[0] = x /\ \A n \in 1..N : loop[n] = Forward(loop[n - 1], size)
  BY <1>8, <1>0
<1>10. \A n \in Nat : n \in {k \in Nat : k <= N => Walking(loop[k], k, size)}
  <2> DEFINE Q == {k \in Nat : k <= N => Walking(loop[k], k, size)}
  <2>1. 0 \in Q
    <3>1. Passed(A, B, Ask(size))
      BY <1>0 DEF Passed, A, B
    <3>2. A + B = A + B - 0 /\ -1 <= B /\ A <= A /\ B <= B
      BY <1>0
    <3>3. Walking(x, 0, size)
      BY <1>2, <3>1, <3>2 DEF Walking, A, B
    <3> QED BY <3>3, <1>9
  <2>2. ASSUME NEW k \in Nat, k \in Q PROVE k + 1 \in Q
    <3> SUFFICES ASSUME k + 1 <= N PROVE Walking(loop[k + 1], k + 1, size)
      OBVIOUS
    <3>1. k + 1 \in 1..N /\ (k + 1) - 1 = k /\ k <= N
      BY <1>0
    <3>2. loop[k + 1] = Forward(loop[k], size) /\ Walking(loop[k], k, size)
      BY <3>1, <2>2, <1>9
    <3> QED BY <3>2, WalkStep
  <2> HIDE DEF Q
  <2>3. \A n \in Nat : n \in Q
    BY <2>1, <2>2, Induction
  <2> QED BY <2>3 DEF Q
<1>11. Walking(loop[N], N, size)
  BY <1>0, <1>10
<1> QED BY <1>1, <1>11 DEF N, A, B

Reservable == Covered(memory) \ Covered(reserved)

\* s bytes from c on are usable and not reserved.
Place(c, s) == Aligned(c) /\ (c .. (c + s - 1)) \subseteq Reservable

Bounded ==
    /\ Good(memory) /\ Good(reserved)
    /\ current_limit \in Nat /\ current_limit <= ULLONG_MAX
    /\ Covered(memory) \subseteq 0 .. (current_limit - 1)
    /\ Covered(reserved) \subseteq Covered(memory)

LEMMA BoundedArrays ==
    ASSUME Bounded
    PROVE  Arrays
<1>1. current_limit \in Nat /\ ULLONG_MAX \in Nat /\ current_limit <= ULLONG_MAX
  BY PageSize DEF Bounded
<1>2. Covered(memory) \subseteq 0 .. (current_limit - 1)
  BY DEF Bounded
<1>3. Covered(reserved) \subseteq 0 .. (ULLONG_MAX - 1)
  <2> SUFFICES ASSUME NEW x \in Covered(reserved) PROVE x \in 0 .. (ULLONG_MAX - 1)
    OBVIOUS
  <2>1. x \in 0 .. (current_limit - 1)
    BY DEF Bounded
  <2> QED BY <2>1, <1>1
<1> QED BY <1>1, <1>2, <1>3, GoodSorted DEF Arrays, Bounded

\* A byte is covered by an array when it lies in one of its regions.
LEMMA InCovered ==
    ASSUME NEW type, Good(type)
    PROVE  \A x : x \in Covered(type) <=>
               \E i \in 1..Len(type.regions) :
                   x \in Nat /\ type.regions[i].base <= x /\ x < REnd(type.regions[i])
<1>1. type.regions \in Seq(Region) /\ Covered(type) = Cov(type.regions, Len(type.regions))
  BY GoodFacts
<1>2. \A i \in 1..Len(type.regions) : type.regions[i] \in Region
  BY <1>1, ElementOfSeq
<1>3. \A i \in 1..Len(type.regions) :
         \A x : x \in Bytes(type.regions[i]) <=>
                    x \in Nat /\ type.regions[i].base <= x /\ x < REnd(type.regions[i])
  BY <1>2, RegionFacts
<1> QED BY <1>1, <1>3, CovIs

LEMMA RoomIsFree ==
    ASSUME Bounded, NEW i \in 1..Len(memory.regions), NEW j \in 0..Len(reserved.regions),
           NEW c \in Nat, NEW s \in Nat, Room(i, j, c, s)
    PROVE  (c .. (c + s - 1)) \subseteq Reservable
<1> SUFFICES ASSUME NEW y \in c .. (c + s - 1) PROVE y \in Reservable
  OBVIOUS
<1>1. Arrays
  BY BoundedArrays
<1>2. /\ memory.regions[i].base \in Nat /\ REnd(memory.regions[i]) \in Nat
      /\ r_start(j) \in Nat /\ r_end(j) \in Nat
  BY <1>1, RoomIs
<1>3. /\ y \in Nat /\ memory.regions[i].base <= y /\ y < REnd(memory.regions[i])
      /\ r_start(j) <= y /\ y < r_end(j)
  <2>1. /\ memory.regions[i].base <= c /\ c + s <= REnd(memory.regions[i])
        /\ r_start(j) <= c /\ c + s <= r_end(j)
    BY DEF Room
  <2> DEFINE x == memory.regions[i].base
             e == REnd(memory.regions[i])
             u == r_start(j)
             v == r_end(j)
  <2>2. x \in Nat /\ e \in Nat /\ u \in Nat /\ v \in Nat
        /\ x <= c /\ c + s <= e /\ u <= c /\ c + s <= v
    BY <2>1, <1>2
  <2> HIDE DEF x, e, u, v
  <2>3. y \in Nat /\ x <= y /\ y < e /\ u <= y /\ y < v
    BY <2>2
  <2> QED BY <2>3 DEF x, e, u, v
<1>4. y \in Covered(memory)
  <2>1. Good(memory)
    BY DEF Bounded
  <2> QED BY <2>1, <1>3, InCovered
<1>5. y \notin Covered(reserved)
  <2> SUFFICES ASSUME y \in Covered(reserved) PROVE FALSE
    OBVIOUS
  <2> DEFINE rs == reserved.regions
             B == Len(rs)
  <2>1. PICK k \in 1..B : rs[k].base <= y /\ y < REnd(rs[k])
    <3>1. Good(reserved)
      BY DEF Bounded
    <3> QED BY <3>1, InCovered
  <2>2. /\ B \in Nat
        /\ \A n \in 1..B : rs[n].base \in Nat /\ REnd(rs[n]) \in Nat /\ rs[n].base <= REnd(rs[n])
        /\ \A n, l \in 1..B : n < l => REnd(rs[n]) < rs[l].base
    BY <1>1 DEF Arrays, Sorted
  <2>3. /\ j > 0 => j \in 1..B /\ r_start(j) = REnd(rs[j])
        /\ j < B => j + 1 \in 1..B /\ r_end(j) = rs[j + 1].base
    BY <2>2 DEF r_start, r_end
  <2>10. j \in 0..B
    OBVIOUS
  <2> HIDE DEF rs, B
  <2>4. CASE k < j
    <3>1. j \in 1..B /\ REnd(rs[k]) < rs[j].base /\ rs[j].base <= REnd(rs[j])
      BY <2>2, <2>3, <2>4, <2>10
    <3>2. REnd(rs[k]) \in Nat /\ rs[j].base \in Nat /\ REnd(rs[j]) \in Nat
          /\ r_start(j) = REnd(rs[j])
      BY <3>1, <2>2, <2>3, <2>4, <2>10
    <3> QED BY <3>1, <3>2, <2>1, <1>3
  <2>5. CASE k = j
    <3>1. REnd(rs[k]) \in Nat /\ r_start(j) = REnd(rs[k])
      BY <2>2, <2>3, <2>5
    <3> QED BY <3>1, <2>1, <1>3
  <2>6. CASE k > j
    <3>1. j + 1 \in 1..B /\ r_end(j) = rs[j + 1].base
      BY <2>2, <2>3, <2>6, <2>10
    <3>2. CASE k = j + 1
      <4>1. rs[k].base \in Nat
        BY <2>2
      <4> QED BY <4>1, <3>1, <3>2, <2>1, <1>3
    <3>3. CASE k > j + 1
      <4>1. /\ REnd(rs[j + 1]) < rs[k].base /\ rs[j + 1].base <= REnd(rs[j + 1])
            /\ rs[k].base \in Nat /\ rs[j + 1].base \in Nat /\ REnd(rs[j + 1]) \in Nat
        BY <3>1, <3>3, <2>2
      <4> QED BY <4>1, <3>1, <2>1, <1>3
    <3> QED BY <3>2, <3>3, <2>2, <2>6, <2>10
  <2> QED BY <2>2, <2>4, <2>5, <2>6, <2>10
<1> QED BY <1>4, <1>5 DEF Reservable

\* The last gap that starts at or before byte c.
LEMMA LastGap ==
    ASSUME Arrays, NEW c \in Nat
    PROVE  \E j \in 0..Len(reserved.regions) :
               /\ r_start(j) <= c
               /\ j < Len(reserved.regions) => ~(r_start(j + 1) <= c)
<1> DEFINE B == Len(reserved.regions)
           Goal == \E j \in 0..B : r_start(j) <= c /\ (j < B => ~(r_start(j + 1) <= c))
           Q == {n \in Nat : n <= B => r_start(n) <= c}
<1>1. B \in Nat
  BY DEF Arrays, Sorted
<1> SUFFICES ASSUME ~Goal PROVE FALSE
  BY DEF Goal
<1>2. 0 \in Q
  BY DEF r_start
<1>3. ASSUME NEW n \in Nat, n \in Q PROVE n + 1 \in Q
  <2> SUFFICES ASSUME n + 1 <= B PROVE r_start(n + 1) <= c
    OBVIOUS
  <2>1. n \in 0..B /\ n < B /\ r_start(n) <= c
    BY <1>1, <1>3
  <2> QED BY <2>1 DEF Goal
<1> HIDE DEF Q
<1>4. \A n \in Nat : n \in Q
  BY <1>2, <1>3, Induction
<1>5. r_start(B) <= c
  BY <1>1, <1>4 DEF Q
<1>6. B \in 0..B /\ ~(B < B)
  BY <1>1
<1> QED BY <1>5, <1>6 DEF Goal

LEMMA FreeHasRoom ==
    ASSUME Bounded, NEW c \in Nat, NEW s \in Nat \ {0}, Place(c, s)
    PROVE  \E i \in 1..Len(memory.regions), j \in 0..Len(reserved.regions) : Room(i, j, c, s)
<1> DEFINE ms == memory.regions
           rs == reserved.regions
           A == Len(ms)
           B == Len(rs)
<1>1. Arrays /\ Good(memory) /\ Good(reserved)
  BY BoundedArrays DEF Bounded
<1>2. \A y \in c .. (c + s - 1) : y \in Covered(memory) /\ y \notin Covered(reserved)
  BY DEF Place, Reservable
<1>3. /\ A \in Nat
      /\ \A n \in 1..A : ms[n].base \in Nat /\ REnd(ms[n]) \in Nat /\ ms[n].base <= REnd(ms[n])
                         /\ REnd(ms[n]) <= current_limit
      /\ \A n, l \in 1..A : n < l => REnd(ms[n]) < ms[l].base
  BY <1>1 DEF Arrays, Sorted
<1>4. /\ B \in Nat
      /\ \A n \in 1..B : /\ rs[n].base \in Nat /\ REnd(rs[n]) \in Nat
                         /\ rs[n].base < REnd(rs[n]) \/ REnd(rs[n]) = 0
  BY <1>1 DEF Arrays, Sorted
<1>5. \A x : x \in Covered(memory) <=> \E i \in 1..A : x \in Nat /\ ms[i].base <= x /\ x < REnd(ms[i])
  BY <1>1, InCovered
<1>6. \A x : x \in Covered(reserved)
                <=> \E i \in 1..B : x \in Nat /\ rs[i].base <= x /\ x < REnd(rs[i])
  BY <1>1, InCovered
<1>7. PICK j \in 0..B : r_start(j) <= c /\ (j < B => ~(r_start(j + 1) <= c))
  BY <1>1, LastGap
<1>8. /\ j < B => j + 1 \in 1..B /\ r_end(j) = rs[j + 1].base /\ r_start(j + 1) = REnd(rs[j + 1])
      /\ j = B => r_end(j) = ULLONG_MAX
  BY <1>4 DEF r_start, r_end
<1> HIDE DEF ms, rs, A, B
<1>9. c \in c .. (c + s - 1)
  OBVIOUS
<1>10. PICK i \in 1..A : ms[i].base <= c /\ c < REnd(ms[i])
  BY <1>2, <1>5, <1>9
<1>11. c + s <= REnd(ms[i])
  <2> SUFFICES ASSUME REnd(ms[i]) < c + s PROVE FALSE
    BY <1>3
  <2> DEFINE y == REnd(ms[i])
  <2>1. y \in Nat /\ ms[i].base <= y /\ y < c + s /\ c < y
    BY <1>3, <1>10
  <2> HIDE DEF y
  <2>2. y \in c .. (c + s - 1)
    BY <2>1
  <2>3. PICK n \in 1..A : ms[n].base <= y /\ y < REnd(ms[n])
    BY <2>2, <1>2, <1>5
  <2>4. CASE n = i
    BY <2>1, <2>3, <2>4 DEF y
  <2>5. CASE n < i
    <3>1. REnd(ms[n]) < ms[i].base /\ REnd(ms[n]) \in Nat /\ ms[i].base \in Nat
      BY <2>5, <1>3
    <3> QED BY <3>1, <2>1, <2>3
  <2>6. CASE i < n
    <3>1. y < ms[n].base /\ ms[n].base \in Nat
      BY <2>6, <1>3 DEF y
    <3> QED BY <3>1, <2>1, <2>3
  <2> QED BY <2>4, <2>5, <2>6, <1>3
<1>12. c + s <= r_end(j)
  <2>1. CASE j = B
    <3>1. REnd(ms[i]) <= current_limit /\ REnd(ms[i]) \in Nat
      BY <1>3
    <3>2. current_limit \in Nat /\ current_limit <= ULLONG_MAX /\ ULLONG_MAX \in Nat
      BY <1>1, PageSize DEF Arrays
    <3> QED BY <3>1, <3>2, <2>1, <1>8, <1>11
  <2>2. CASE j < B
    <3> SUFFICES ASSUME ~(c + s <= r_end(j)) PROVE FALSE
      OBVIOUS
    <3> DEFINE k == j + 1
               b == rs[k].base
               e == REnd(rs[k])
    <3>1. k \in 1..B /\ r_end(j) = b /\ ~(e <= c)
      BY <2>2, <1>7, <1>8
    <3>2. b \in Nat /\ e \in Nat /\ (b < e \/ e = 0)
      BY <3>1, <1>4
    <3> HIDE DEF k, b, e
    <3>3. b < e /\ b < c + s
      BY <3>1, <3>2
    <3> DEFINE y == IF b <= c THEN c ELSE b
    <3>4. y \in c .. (c + s - 1) /\ y \in Nat /\ b <= y /\ y < e
      BY <3>1, <3>2, <3>3
    <3> HIDE DEF y
    <3>5. y \in Covered(reserved)
      BY <3>1, <3>4, <1>6 DEF b, e
    <3> QED BY <3>4, <3>5, <1>2
  <2> QED BY <2>1, <2>2, <1>4
<1>13. Room(i, j, c, s)
  BY <1>7, <1>10, <1>11, <1>12 DEF Room, ms
<1> QED BY <1>13 DEF A, B, ms, rs

\* What the search returns is the highest place for the block; it returns 0 when there is
\* none.
LEMMA FoundIs ==
    ASSUME Bounded, NEW size \in Nat
    PROVE  LET f == memblock_find_in_range(size, PGSIZE)
           IN  /\ f \in Nat
               /\ f # 0 => Aligned(f)
               /\ f # 0 /\ size > 0 => /\ Place(f, size)
                                       /\ \A c \in Nat : Place(c, size) => c <= f
               /\ f = 0 => \A c \in Nat : ~Place(c, Ask(size))
<1> DEFINE f == memblock_find_in_range(size, PGSIZE)
           A == Len(memory.regions)
           B == Len(reserved.regions)
           s == Ask(size)
<1>1. Arrays
  BY BoundedArrays
<1>2. A \in Nat /\ B \in Nat
  BY <1>1 DEF Arrays, Sorted
<1>3. PICK w : Walking(w, A + B + 1, size) /\ f = w.cand
  BY <1>1, WalkRuns
<1> HIDE DEF f
<1>4. s \in Nat \ {0} /\ (size > 0 => s = size)
  BY DEF Ask
<1> DEFINE a == w.a
           b == w.b
<1>5. a \in Nat /\ b \in Int /\ a <= A /\ -1 <= b /\ b <= B /\ f \in Nat /\ Passed(a, b, s)
  BY <1>3 DEF Walking, Walk
<1>6. ASSUME f # 0
      PROVE  /\ Aligned(f)
             /\ size > 0 => Place(f, size) /\ \A c \in Nat : Place(c, size) => c <= f
  <2>1. a > 0 /\ b >= 0 /\ f = PairCand(a, b, size)
    BY <1>3, <1>6 DEF Walking
  <2> HIDE DEF a, b
  <2>2. a \in 1..A /\ b \in 0..B
    BY <1>2, <1>5, <2>1
  <2>3. /\ Aligned(f) /\ (size > 0 => Room(a, b, f, size))
        /\ \A c \in Nat : Aligned(c) /\ Room(a, b, c, s) => c <= f
    BY <1>1, <1>6, <2>1, <2>2, PairIs
  <2> HIDE DEF s
  <2>4. ASSUME size > 0 PROVE Place(f, size)
    <3>1. (f .. (f + size - 1)) \subseteq Reservable
      BY <1>5, <2>2, <2>3, <2>4, RoomIsFree
    <3> QED BY <3>1, <2>3 DEF Place
  <2>5. ASSUME size > 0, NEW c \in Nat, Place(c, size) PROVE c <= f
    <3>1. size \in Nat \ {0} /\ s = size
      BY <1>4, <2>5
    <3>2. PICK i \in 1..A, j \in 0..B : Room(i, j, c, size)
      BY <3>1, <2>5, FreeHasRoom
    <3>3. Aligned(c)
      BY <2>5 DEF Place
    <3>4. ~(i > a \/ j > b)
      <4> SUFFICES ASSUME i > a \/ j > b PROVE FALSE
        OBVIOUS
      <4>1. NoRoom(i, j, s)
        BY <1>5 DEF Passed
      <4> QED BY <4>1, <3>1, <3>2, <3>3 DEF NoRoom
    <3>5. Room(a, b, f, size)
      BY <2>3, <2>5
    <3>6. /\ c + size <= REnd(memory.regions[i]) /\ c + size <= r_end(j)
          /\ memory.regions[a].base <= f /\ r_start(b) <= f
      BY <3>2, <3>5 DEF Room
    <3>7. /\ REnd(memory.regions[i]) \in Nat /\ r_end(j) \in Nat
          /\ memory.regions[a].base \in Nat /\ r_start(b) \in Nat
      BY <1>1, <2>2, RoomIs
    <3>8. CASE i < a
      <4>1. REnd(memory.regions[i]) < memory.regions[a].base
        BY <1>1, <2>2, <3>8 DEF Arrays, Sorted
      <4> DEFINE x == memory.regions[a].base
                 y == REnd(memory.regions[i])
      <4>2. x \in Nat /\ y \in Nat /\ y < x /\ c + size <= y /\ x <= f
        BY <4>1, <3>6, <3>7
      <4> HIDE DEF x, y
      <4> QED BY <4>2, <3>1, <1>5
    <3>9. CASE j < b
      <4>1. r_end(j) <= r_start(b)
        BY <1>1, <2>2, <3>9, Gaps DEF Arrays
      <4> DEFINE x == r_start(b)
                 y == r_end(j)
      <4>2. x \in Nat /\ y \in Nat /\ y <= x /\ c + size <= y /\ x <= f
        BY <4>1, <3>6, <3>7
      <4> HIDE DEF x, y
      <4> QED BY <4>2, <3>1, <1>5
    <3>10. CASE i = a /\ j = b
      BY <3>1, <3>2, <3>3, <3>10, <2>3
    <3> QED BY <3>4, <3>8, <3>9, <3>10, <2>2, <1>2
  <2> QED BY <2>3, <2>4, <2>5
<1>7. ASSUME f = 0, NEW c \in Nat, Place(c, s) PROVE FALSE
  <2>1. a = 0 \/ b < 0
    <3> SUFFICES ASSUME a # 0, ~(b < 0) PROVE FALSE
      OBVIOUS
    <3>1. ~Stopped(w)
      BY <1>3, <1>7 DEF Stopped
    <3>2. a + b = A + B - (A + B + 1)
      BY <1>3, <3>1 DEF Walking
    <3> HIDE DEF a, b, A, B
    <3> QED BY <3>2, <1>2, <1>5
  <2> HIDE DEF a, b, s
  <2>2. PICK i \in 1..A, j \in 0..B : Room(i, j, c, s)
    BY <1>4, <1>7, FreeHasRoom
  <2>3. i > a \/ j > b
    BY <2>1, <1>2, <1>5
  <2>4. NoRoom(i, j, s)
    BY <2>3, <1>5 DEF Passed
  <2>5. Aligned(c)
    BY <1>7 DEF Place
  <2> QED BY <2>2, <2>4, <2>5 DEF NoRoom
<1> QED BY <1>5, <1>6, <1>7 DEF f

----------------------------------------------------------------------------
(* The inductive invariant *)

\* The firmware's entries end below ULLONG_MAX.
EntriesFit ==
    /\ ards \in Seq(Entry)
    /\ \A i \in 1..Len(ards) : ards[i].addr + ards[i].len < ULLONG_MAX

\* Blocks start on a page behind page 0 and share no byte.
Blocks ==
    /\ \A b \in held : b \in Region /\ b.size > 0 /\ Aligned(b.base)
    /\ \A b, c \in held : b # c => Bytes(b) \cap Bytes(c) = {}

HeldBytes == UNION {Bytes(b) : b \in held}

MemInv ==
    /\ Bounded
    /\ EntriesFit
    /\ phase \in {"init", "run", "panic", "wild"}
    /\ phase = "init" => held = {}
    /\ Blocks
    /\ Covered(reserved) = HeldBytes

LEMMA EmptyGood == Good(EmptyType) /\ Covered(EmptyType) = {}
<1>1. Cov(NoRegions, Len(NoRegions)) = {}
  BY NoRegionsFacts
<1>2. IsFiniteSet({}) /\ Cardinality({}) = 0
  BY FS_EmptySet
<1>3. /\ Good([regions |-> NoRegions, total_size |-> 0])
      /\ Covered([regions |-> NoRegions, total_size |-> 0]) = Cov(NoRegions, Len(NoRegions))
  BY <1>1, <1>2, MakeGood
<1> QED BY <1>1, <1>3 DEF EmptyType

LEMMA MemInit == Init => MemInv
<1> SUFFICES ASSUME Init PROVE MemInv
  OBVIOUS
<1>1. /\ memory = EmptyType /\ reserved = EmptyType /\ current_limit = 0
      /\ ards \in E820Maps /\ phase = "init" /\ held = {}
  BY DEF Init
<1>2. Bounded
  <2>1. Good(memory) /\ Good(reserved) /\ Covered(memory) = {} /\ Covered(reserved) = {}
    BY <1>1, EmptyGood
  <2>2. current_limit \in Nat /\ current_limit <= ULLONG_MAX
    BY <1>1, PageSize
  <2> QED BY <2>1, <2>2 DEF Bounded
<1>3. EntriesFit
  <2>1. ards \in Seq(Entry) /\ \A i \in DOMAIN ards : ards[i].addr + ards[i].len < ULLONG_MAX
    BY <1>1, MemBlockAssumption DEF Entry
  <2>2. DOMAIN ards = 1..Len(ards)
    BY <2>1, LenProperties
  <2> QED BY <2>1, <2>2 DEF EntriesFit
<1>4. Blocks /\ Covered(reserved) = HeldBytes
  BY <1>1, EmptyGood DEF Blocks, HeldBytes
<1> QED BY <1>1, <1>2, <1>3, <1>4 DEF MemInv

LEMMA EntryKeeps ==
    ASSUME MemInv, memblock_init_entry
    PROVE  MemInv'
<1> DEFINE e == Head(ards)
           r == memblock_add_regions(memory, e.addr, e.len)
           top == e.addr + e.len
<1>1. /\ phase = "init" /\ ards # <<>> /\ ards' = Tail(ards)
      /\ reserved' = reserved /\ held' = held
  BY DEF memblock_init_entry
<1>2. /\ ards \in Seq(Entry) /\ Len(ards) \in Nat /\ Len(ards) > 0
      /\ \A i \in 1..Len(ards) : ards[i].addr + ards[i].len < ULLONG_MAX
  BY <1>1 DEF MemInv, EntriesFit
<1>3. e \in Entry /\ e = ards[1]
  BY <1>1, <1>2
<1>4. e.addr \in Nat /\ e.len \in Nat /\ top \in Nat /\ top < ULLONG_MAX
  <2>1. e.addr \in Nat /\ e.len \in Nat
    BY <1>3 DEF Entry
  <2>2. 1 \in 1..Len(ards)
    BY <1>2
  <2> QED BY <1>2, <1>3, <2>1, <2>2
<1>5. EntriesFit'
  <2>1. Tail(ards) \in Seq(Entry) /\ Len(Tail(ards)) = Len(ards) - 1
        /\ \A i \in 1..Len(Tail(ards)) : Tail(ards)[i] = ards[i + 1]
    BY <1>1, <1>2
  <2>2. ASSUME NEW i \in 1..Len(Tail(ards))
        PROVE  Tail(ards)[i].addr + Tail(ards)[i].len < ULLONG_MAX
    <3>1. i + 1 \in 1..Len(ards) /\ Tail(ards)[i] = ards[i + 1]
      BY <2>1, <1>2
    <3> QED BY <3>1, <1>2
  <2> QED BY <1>1, <2>1, <2>2 DEF EntriesFit
<1>6. /\ Good(memory) /\ Good(reserved) /\ current_limit \in Nat /\ current_limit <= ULLONG_MAX
      /\ Covered(memory) \subseteq 0 .. (current_limit - 1)
      /\ Covered(reserved) \subseteq Covered(memory) /\ held = {}
  BY <1>1 DEF MemInv, Bounded
<1>7. Bounded' /\ phase' \in {"init", "wild"}
  <2>1. CASE e.type = 1
    <3>1. /\ memory' = r.type /\ current_limit' = Max({current_limit, top})
          /\ phase' = PhaseAfter(r.peak)
      BY <2>1 DEF memblock_init_entry
    <3>2. /\ Good(r.type)
          /\ Covered(r.type) = Covered(memory) \cup (e.addr .. (e.addr + e.len - 1))
      <4> DEFINE x == e.addr
                 y == e.len
      <4>1. x \in Nat /\ y \in Nat /\ Good(memory)
        BY <1>4, <1>6
      <4> HIDE DEF x, y
      <4>2. /\ Good(memblock_add_regions(memory, x, y).type)
            /\ Covered(memblock_add_regions(memory, x, y).type)
                  = Covered(memory) \cup (x .. (x + y - 1))
        BY <4>1, AddRegions
      <4> QED BY <4>2 DEF x, y
    <3> HIDE DEF r
    <3>3. /\ current_limit' = IF current_limit <= top THEN top ELSE current_limit
          /\ current_limit' \in Nat
      <4>1. current_limit \in Int /\ top \in Int
        BY <1>4, <1>6
      <4> HIDE DEF top
      <4>2. Max({current_limit, top}) = IF current_limit <= top THEN top ELSE current_limit
        BY <4>1, MinMaxIs
      <4> QED BY <1>4, <1>6, <3>1, <4>2
    <3>4. current_limit' <= ULLONG_MAX
      <4> HIDE DEF top
      <4> QED BY <1>4, <1>6, <3>3, PageSize
    <3>5. Covered(memory)' \subseteq 0 .. (current_limit' - 1)
      <4> SUFFICES ASSUME NEW x \in Covered(r.type) PROVE x \in 0 .. (current_limit' - 1)
        BY <3>1
      <4>1. CASE x \in Covered(memory)
        <5>1. x \in 0 .. (current_limit - 1) /\ current_limit \in Nat
          BY <4>1, <1>6
        <5> HIDE DEF top
        <5> QED BY <5>1, <1>4, <3>3
      <4>2. CASE x \in e.addr .. (e.addr + e.len - 1)
        <5> HIDE DEF e
        <5>1. x \in Nat /\ x < top
          BY <4>2, <1>4
        <5> HIDE DEF top
        <5> QED BY <5>1, <1>4, <1>6, <3>3
      <4> QED BY <3>2, <4>1, <4>2
    <3>6. Good(memory)' /\ Good(reserved)' /\ Covered(reserved)' \subseteq Covered(memory)'
      BY <1>1, <1>6, <3>1, <3>2
    <3>7. phase' \in {"init", "wild"}
      BY <1>1, <3>1 DEF PhaseAfter
    <3> QED BY <3>3, <3>4, <3>5, <3>6, <3>7 DEF Bounded
  <2>2. CASE e.type # 1
    <3>1. memory' = memory /\ current_limit' = current_limit /\ phase' = phase
      BY <2>2 DEF memblock_init_entry
    <3> QED BY <1>1, <1>6, <3>1 DEF Bounded
  <2> QED BY <2>1, <2>2
<1>8. Blocks' /\ (Covered(reserved) = HeldBytes)'
  BY <1>1 DEF MemInv, Blocks, HeldBytes
<1>9. held' = {}
  BY <1>1, <1>6
<1> QED BY <1>5, <1>7, <1>8, <1>9 DEF MemInv

LEMMA AllocKeeps ==
    ASSUME MemInv, NEW size \in AllocSizes, memblock_alloc(size)
    PROVE  MemInv'
<1> DEFINE f == memblock_find_in_range(size, PGSIZE)
           r == memblock_add_regions(reserved, f, size)
           I == f .. (f + size - 1)
           b == Rgn(f, size)
<1>1. /\ phase = "run" /\ f # 0 /\ reserved' = r.type /\ phase' = PhaseAfter(r.peak)
      /\ held' = (IF size = 0 THEN held ELSE held \cup {b})
      /\ memory' = memory /\ current_limit' = current_limit /\ ards' = ards
  BY DEF memblock_alloc
<1>2. size \in Nat
  BY MemBlockAssumption
<1>3. /\ Bounded /\ EntriesFit /\ Blocks /\ Covered(reserved) = HeldBytes
  BY DEF MemInv
<1>4. /\ f \in Nat /\ Aligned(f)
      /\ size > 0 => Place(f, size)
  BY <1>1, <1>2, <1>3, FoundIs
<1> HIDE DEF f
<1>5. Good(r.type) /\ Covered(r.type) = Covered(reserved) \cup I
  BY <1>2, <1>3, <1>4, AddRegions DEF Bounded
<1> HIDE DEF r
<1>6. I \subseteq Reservable
  <2>1. CASE size > 0
    BY <2>1, <1>4 DEF Place
  <2>2. CASE size = 0
    BY <2>2, <1>4
  <2> QED BY <2>1, <2>2, <1>2
<1> HIDE DEF I
<1>7. Bounded'
  BY <1>1, <1>3, <1>5, <1>6 DEF Bounded, Reservable
<1>8. EntriesFit'
  BY <1>1, <1>3 DEF EntriesFit
<1>9. phase' \in {"run", "wild"}
  BY <1>1 DEF PhaseAfter
<1>10. CASE size = 0
  <2>1. I = {}
    BY <1>10, <1>4 DEF I
  <2>2. held' = held /\ Covered(reserved)' = Covered(reserved)
    BY <1>1, <1>5, <1>10, <2>1
  <2>3. Blocks' /\ (Covered(reserved) = HeldBytes)'
    BY <1>3, <2>2 DEF Blocks, HeldBytes
  <2> QED BY <1>7, <1>8, <1>9, <2>3 DEF MemInv
<1>11. CASE size # 0
  <2>1. b \in Region /\ b.base = f /\ b.size = size /\ Bytes(b) = I
    BY <1>2, <1>4, RgnFacts DEF I
  <2> HIDE DEF b
  <2>2. held' = held \cup {b} /\ b.size > 0 /\ Aligned(b.base)
    BY <1>1, <1>2, <1>4, <1>11, <2>1
  <2>3. \A c \in held : Bytes(b) \cap Bytes(c) = {}
    BY <1>3, <1>6, <2>1 DEF Reservable, HeldBytes
  <2>4. Blocks'
    <3>1. \A c \in held' : c \in Region /\ c.size > 0 /\ Aligned(c.base)
      BY <1>3, <2>1, <2>2 DEF Blocks
    <3>2. ASSUME NEW c \in held', NEW d \in held', c # d PROVE Bytes(c) \cap Bytes(d) = {}
      <4>1. CASE c \in held /\ d \in held
        BY <4>1, <3>2, <1>3 DEF Blocks
      <4>2. CASE c = b
        BY <4>2, <3>2, <2>2, <2>3
      <4>3. CASE d = b
        BY <4>3, <3>2, <2>2, <2>3
      <4> QED BY <4>1, <4>2, <4>3, <2>2
    <3> QED BY <3>1, <3>2 DEF Blocks, Aligned
  <2>5. (Covered(reserved) = HeldBytes)'
    BY <1>1, <1>3, <1>5, <2>1, <2>2 DEF HeldBytes
  <2> QED BY <1>7, <1>8, <1>9, <2>4, <2>5 DEF MemInv
<1> QED BY <1>10, <1>11

LEMMA FreeKeeps ==
    ASSUME MemInv, NEW b \in held, memblock_free(b)
    PROVE  MemInv'
<1> DEFINE r == memblock_remove_range(reserved, b.base, b.size)
<1>1. /\ phase = "run" /\ reserved' = r.type /\ phase' = PhaseAfter(r.peak)
      /\ held' = held \ {b}
      /\ memory' = memory /\ current_limit' = current_limit /\ ards' = ards
  BY DEF memblock_free
<1>2. /\ Bounded /\ EntriesFit /\ Blocks /\ Covered(reserved) = HeldBytes
  BY DEF MemInv
<1>3. b \in Region /\ b.size > 0 /\ b.base \in Nat /\ b.size \in Nat
  BY <1>2, RegionFacts DEF Blocks
<1>4. Bytes(b) = b.base .. (b.base + b.size - 1)
  BY <1>3 DEF Bytes, REnd
<1>5. reserved.regions # NoRegions
  <2> SUFFICES ASSUME reserved.regions = NoRegions PROVE FALSE
    OBVIOUS
  <2>1. Covered(reserved) = {}
    BY <1>2, GoodFacts, NoRegionsFacts DEF Bounded
  <2>2. b.base \in Bytes(b)
    BY <1>3, <1>4
  <2> QED BY <1>2, <2>1, <2>2 DEF HeldBytes
<1>6. Good(r.type) /\ Covered(r.type) = Covered(reserved) \ Bytes(b)
  <2>1. Good(reserved) /\ b.size # 0
    BY <1>2, <1>3 DEF Bounded
  <2> QED BY <1>3, <1>4, <1>5, <2>1, RemoveRange
<1> HIDE DEF r
<1>7. Bounded'
  BY <1>1, <1>2, <1>6 DEF Bounded
<1>8. EntriesFit'
  BY <1>1, <1>2 DEF EntriesFit
<1>9. phase' \in {"run", "wild"}
  BY <1>1 DEF PhaseAfter
<1>10. Blocks'
  BY <1>1, <1>2 DEF Blocks, Aligned
<1>11. \A c \in held \ {b} : Bytes(c) \cap Bytes(b) = {}
  BY <1>2 DEF Blocks
<1>12. (Covered(reserved) = HeldBytes)'
  BY <1>1, <1>2, <1>6, <1>11 DEF HeldBytes
<1> QED BY <1>7, <1>8, <1>9, <1>10, <1>12 DEF MemInv

LEMMA StutterKeeps ==
    ASSUME MemInv, UNCHANGED <<memory, reserved, current_limit, ards, held>>,
           phase' \in {"run", "panic", "wild"} \/ phase' = phase
    PROVE  MemInv'
<1>1. Bounded' /\ EntriesFit' /\ Blocks' /\ (Covered(reserved) = HeldBytes)'
  BY DEF MemInv, Bounded, EntriesFit, Blocks, HeldBytes
<1> QED BY <1>1 DEF MemInv

LEMMA MemStep == MemInv /\ [Next]_vars => MemInv'
<1> SUFFICES ASSUME MemInv, [Next]_vars PROVE MemInv'
  OBVIOUS
<1>1. CASE memblock_init_entry
  BY <1>1, EntryKeeps
<1>2. CASE memblock_init_done
  BY <1>2, StutterKeeps DEF memblock_init_done
<1>3. ASSUME NEW size \in AllocSizes, memblock_alloc(size) PROVE MemInv'
  BY <1>3, AllocKeeps
<1>4. ASSUME NEW size \in AllocSizes, memblock_alloc_panic(size) PROVE MemInv'
  BY <1>4, StutterKeeps DEF memblock_alloc_panic
<1>5. ASSUME NEW b \in held, memblock_free(b) PROVE MemInv'
  BY <1>5, FreeKeeps
<1>6. CASE halted
  BY <1>6, StutterKeeps DEF halted, vars
<1>7. CASE UNCHANGED vars
  BY <1>7, StutterKeeps DEF vars
<1> QED BY <1>1, <1>2, <1>3, <1>4, <1>5, <1>6, <1>7 DEF Next

\* The arrays stay sorted and apart and count their bytes, the search finds free places
\* only, and the blocks callers hold are what is reserved.
LEMMA AlwaysMemInv == Spec => []MemInv
<1> QED BY MemInit, MemStep, PTL DEF Spec

----------------------------------------------------------------------------
(* Theorems *)

LEMMA GoodCanonical ==
    ASSUME NEW type, Good(type)
    PROVE  Canonical(type)
<1> DEFINE rs == type.regions
<1>1. rs \in Seq(Region) /\ type.total_size = Cardinality(Covered(type))
  BY GoodFacts DEF Good
<1>2. DOMAIN rs = 1..Len(rs)
  BY <1>1, LenProperties
<1>3. ASSUME rs # NoRegions, NEW i \in 1..Len(rs)
      PROVE  rs[i].size > 0 /\ (i > 1 => REnd(rs[i - 1]) < rs[i].base)
  <2>1. Apart(rs, 1)
    BY <1>3 DEF Good
  <2>2. rs[i].size > 0 /\ rs[i].base \in Nat
    BY <2>1, InApart
  <2>3. ASSUME i > 1 PROVE REnd(rs[i - 1]) < rs[i].base
    <3>1. i - 1 \in 1..Len(rs) /\ i - 1 < i
      BY <2>3, <1>1
    <3>2. REnd(rs[i - 1]) + 1 <= rs[i].base
      BY <2>1, <3>1 DEF Apart
    <3>3. REnd(rs[i - 1]) \in Nat
      BY <2>1, <3>1, EndType
    <3> QED BY <2>2, <3>2, <3>3
  <2> QED BY <2>2, <2>3
<1> QED BY <1>1, <1>2, <1>3 DEF Canonical

\* Whatever order the firmware reports memory in and blocks are taken and given back, both
\* arrays stay sorted, their regions neither overlap nor touch, and total_size is the
\* number of their bytes.
THEOREM ArraysStayCanonical == Spec => []RegionsCanonical
<1>1. MemInv => RegionsCanonical
  <2> SUFFICES ASSUME MemInv PROVE RegionsCanonical
    OBVIOUS
  <2>1. Good(memory) /\ Good(reserved) /\ current_limit \in Nat
    BY DEF MemInv, Bounded
  <2>2. Canonical(memory) /\ Canonical(reserved)
    BY <2>1, GoodCanonical
  <2>3. memory \in Types /\ reserved \in Types
    BY <2>1 DEF Good
  <2>4. \A b \in held : b \in [base : Nat, size : Nat \ {0}]
    <3> SUFFICES ASSUME NEW b \in held PROVE b \in [base : Nat, size : Nat \ {0}]
      OBVIOUS
    <3>1. b \in Region /\ b.size > 0
      BY DEF MemInv, Blocks
    <3> QED BY <3>1 DEF Region
  <2>5. phase \in {"init", "run", "panic", "wild"}
    BY DEF MemInv
  <2> QED BY <2>1, <2>2, <2>3, <2>4, <2>5 DEF RegionsCanonical, TypeOK
<1> QED BY <1>1, AlwaysMemInv, PTL

\* The reserved bytes are exactly those of the blocks callers hold, and usable memory: no
\* allocation and no free reserves a byte twice, leaks one or takes one of another block.
THEOREM NothingLeaks == Spec => []ReservedIsHeld
<1>1. MemInv => ReservedIsHeld
  BY DEF MemInv, Bounded, HeldBytes, ReservedIsHeld
<1> QED BY <1>1, AlwaysMemInv, PTL

\* The pages of two regions that start on a page and share no byte are different.
LEMMA PagesApart ==
    ASSUME NEW b \in Region, NEW c \in Region, Aligned(b.base), Aligned(c.base),
           REnd(b) <= c.base
    PROVE  Pages(b) \cap Pages(c) = {}
<1> SUFFICES ASSUME NEW g \in Pages(b), g \in Pages(c) PROVE FALSE
  OBVIOUS
<1>1. PICK x \in Bytes(b) : g = x \div PGSIZE
  BY DEF Pages
<1>2. PICK y \in Bytes(c) : g = y \div PGSIZE
  BY DEF Pages
<1>3. x \in Nat /\ y \in Nat /\ x < REnd(b) /\ c.base <= y /\ c.base \in Nat /\ REnd(b) \in Nat
  BY RegionFacts
<1> DEFINE z == PGSIZE * g
           q == c.base \div PGSIZE
           v == PGSIZE * q
<1>4. g \in Nat /\ z \in Nat
  BY <1>1, <1>3, Division
<1>5. z <= x /\ y < z + PGSIZE
  <2>1. x = z + (x % PGSIZE) /\ x % PGSIZE \in 0 .. (PGSIZE - 1)
    BY <1>1, <1>3, Division
  <2>2. y = z + (y % PGSIZE) /\ y % PGSIZE \in 0 .. (PGSIZE - 1)
    BY <1>2, <1>3, Division
  <2> DEFINE rx == x % PGSIZE
             ry == y % PGSIZE
  <2> HIDE DEF z, rx, ry
  <2>3. x = z + rx /\ rx \in 0 .. (PGSIZE - 1) /\ y = z + ry /\ ry \in 0 .. (PGSIZE - 1)
    BY <2>1, <2>2 DEF rx, ry
  <2> QED BY <2>3, <1>4, PageSize
<1>6. q \in Nat /\ c.base = v /\ v \in Nat
  <2>1. q \in Nat /\ c.base = v + (c.base % PGSIZE) /\ v \in Nat
    BY <1>3, Division
  <2>2. c.base % PGSIZE = 0
    BY DEF Aligned
  <2> HIDE DEF v, q
  <2> QED BY <2>1, <2>2
<1>7. z < v
  <2> HIDE DEF z, v
  <2> QED BY <1>3, <1>4, <1>5, <1>6
<1>8. z + PGSIZE <= v
  <2> HIDE DEF q
  <2> QED BY <1>4, <1>6, <1>7, NoneBetween
<1> HIDE DEF z, v
<1> QED BY <1>3, <1>4, <1>5, <1>6, <1>8, PageSize

\* Two blocks share no page, whatever their sizes, and no block has page 0, so that
\* alloc_uvm() may map the whole pages of a block.
THEOREM PagesAreExclusive == Spec => []PagesExclusive
<1>1. MemInv => PagesExclusive
  <2> SUFFICES ASSUME MemInv PROVE PagesExclusive
    OBVIOUS
  <2>1. \A b \in held : b \in Region /\ b.size > 0 /\ Aligned(b.base)
    BY DEF MemInv, Blocks
  <2>2. ASSUME NEW b \in held PROVE 0 \notin Pages(b)
    <3> SUFFICES ASSUME 0 \in Pages(b) PROVE FALSE
      OBVIOUS
    <3>1. PICK x \in Bytes(b) : 0 = x \div PGSIZE
      BY DEF Pages
    <3>2. x \in Nat /\ b.base <= x /\ b.base \in Nat /\ b.base >= PGSIZE
      BY <2>1, RegionFacts DEF Aligned
    <3>3. x % PGSIZE \in 0 .. (PGSIZE - 1) /\ x = PGSIZE * 0 + (x % PGSIZE)
      BY <3>1, <3>2, Division
    <3>4. x < PGSIZE
      BY <3>3, PageSize
    <3> QED BY <3>2, <3>4, PageSize
  <2>3. ASSUME NEW b \in held, NEW c \in held, b # c PROVE Pages(b) \cap Pages(c) = {}
    <3>1. Bytes(b) \cap Bytes(c) = {}
      BY <2>3 DEF MemInv, Blocks
    <3>2. b \in Region /\ c \in Region /\ Aligned(b.base) /\ Aligned(c.base)
      BY <2>1
    <3>3. /\ b.base \in Nat /\ c.base \in Nat /\ b.size \in Nat \ {0} /\ c.size \in Nat \ {0}
          /\ REnd(b) = b.base + b.size /\ REnd(c) = c.base + c.size
      BY <2>1, RegionFacts
    <3>4. REnd(b) <= c.base \/ REnd(c) <= b.base
      <4> SUFFICES ASSUME ~(REnd(b) <= c.base), ~(REnd(c) <= b.base) PROVE FALSE
        OBVIOUS
      <4> DEFINE x == IF b.base <= c.base THEN c.base ELSE b.base
      <4>1. /\ x \in Nat /\ b.base <= x /\ x < b.base + b.size
            /\ c.base <= x /\ x < c.base + c.size
        BY <3>3
      <4> HIDE DEF x
      <4>2. x \in Bytes(b) /\ x \in Bytes(c)
        BY <3>2, <4>1, RegionFacts
      <4> QED BY <3>1, <4>2
    <3>5. CASE REnd(b) <= c.base
      BY <3>2, <3>5, PagesApart
    <3>6. CASE REnd(c) <= b.base
      <4>1. Pages(c) \cap Pages(b) = {}
        BY <3>2, <3>6, PagesApart
      <4> QED BY <4>1
    <3> QED BY <3>4, <3>5, <3>6
  <2> QED BY <2>2, <2>3 DEF PagesExclusive
<1> QED BY <1>1, AlwaysMemInv, PTL

----------------------------------------------------------------------------
(* The arrays implement the sets of addresses *)

LEMMA FreeIs ==
    ASSUME MemInv
    PROVE  Frames!Free = Reservable
<1>1. \A b \in held : Frames!Bytes(b) = Bytes(b)
  <2> SUFFICES ASSUME NEW b \in held PROVE Frames!Bytes(b) = Bytes(b)
    OBVIOUS
  <2>1. b \in Region
    BY DEF MemInv, Blocks
  <2>2. b.base \in Nat /\ b.size \in Nat
    BY <2>1, RegionFacts
  <2> QED BY <2>2 DEF Frames!Bytes, Bytes, REnd
<1>2. UNION {Frames!Bytes(b) : b \in held} = HeldBytes
  BY <1>1 DEF HeldBytes
<1>3. HeldBytes = Covered(reserved)
  BY DEF MemInv
<1> QED BY <1>2, <1>3 DEF Frames!Free, Reservable

LEMMA FitsAre ==
    ASSUME MemInv, NEW size \in Nat \ {0}
    PROVE  Frames!Fits(size) = {c \in Nat : Place(c, size)}
<1> DEFINE F == Frames!Free
<1>1. F = Reservable
  BY FreeIs
<1>2. ASSUME NEW c PROVE Frames!Bytes(Frames!Block(c, size)) = c .. (c + size - 1)
  BY DEF Frames!Bytes, Frames!Block
<1>3. Frames!Fits(size) = {c \in F : c >= PGSIZE /\ c % PGSIZE = 0
                                      /\ (c .. (c + size - 1)) \subseteq F}
  BY <1>2 DEF Frames!Fits
<1>4. F \subseteq Nat
  <2> SUFFICES ASSUME NEW x \in Reservable PROVE x \in Nat
    BY <1>1
  <2>1. x \in 0 .. (current_limit - 1)
    BY DEF MemInv, Bounded, Reservable
  <2> QED BY <2>1
<1> HIDE DEF F
<1>5. ASSUME NEW c \in Nat, Place(c, size) PROVE c \in F
  <2>1. c \in c .. (c + size - 1)
    OBVIOUS
  <2> QED BY <2>1, <1>1, <1>5 DEF Place
<1>6. ASSUME NEW c
      PROVE  c \in Frames!Fits(size) <=> c \in {d \in Nat : Place(d, size)}
  <2>1. ASSUME c \in Frames!Fits(size) PROVE c \in Nat /\ Place(c, size)
    BY <1>1, <1>3, <1>4, <2>1 DEF Place, Aligned
  <2>2. ASSUME c \in Nat, Place(c, size) PROVE c \in Frames!Fits(size)
    <3>1. c \in F /\ c >= PGSIZE /\ c % PGSIZE = 0 /\ (c .. (c + size - 1)) \subseteq F
      BY <1>1, <1>5, <2>2 DEF Place, Aligned
    <3> QED BY <1>3, <3>1
  <2> QED BY <2>1, <2>2
<1> QED BY <1>6

\* An allocation takes the highest place.
LEMMA RefinesAlloc ==
    ASSUME MemInv, NEW size \in AllocSizes, memblock_alloc(size)
    PROVE  Frames!Alloc(size) \/ UNCHANGED Frames!frameVars
<1> DEFINE f == memblock_find_in_range(size, PGSIZE)
           r == memblock_add_regions(reserved, f, size)
           S == {c \in Nat : Place(c, size)}
<1>1. /\ phase = "run" /\ f # 0 /\ phase' = PhaseAfter(r.peak)
      /\ held' = (IF size = 0 THEN held ELSE held \cup {Rgn(f, size)})
      /\ memory' = memory
  BY DEF memblock_alloc
<1> HIDE DEF r
<1>2. phase # "panic" /\ phase' # "panic" /\ Covered(memory)' = Covered(memory)
  BY <1>1 DEF PhaseAfter
<1>3. size \in Nat
  BY MemBlockAssumption
<1>4. CASE size = 0
  BY <1>1, <1>2, <1>4 DEF Frames!frameVars
<1>5. CASE size # 0
  <2>1. f \in Nat /\ Place(f, size) /\ \A c \in Nat : Place(c, size) => c <= f
    <3>1. size > 0 /\ Bounded
      BY <1>3, <1>5 DEF MemInv
    <3> QED BY <1>1, <1>3, <3>1, FoundIs
  <2>2. Frames!Fits(size) = S
    BY <1>3, <1>5, FitsAre
  <2> HIDE DEF f
  <2>3. f \in S /\ \A c \in S : c \in Nat /\ f >= c
    BY <2>1
  <2> HIDE DEF S
  <2>4. Frames!Max(S) = f
    <3>1. Frames!Max(S) \in S /\ \A y \in S : Frames!Max(S) >= y
      BY <2>3 DEF Frames!Max
    <3> DEFINE x == Frames!Max(S)
    <3>2. x \in Nat /\ f >= x /\ x >= f
      BY <2>3, <3>1
    <3> HIDE DEF x
    <3>3. x = f
      BY <2>1, <3>2
    <3> QED BY <3>3 DEF x
  <2>5. Frames!Fits(size) # {} /\ Frames!Max(Frames!Fits(size)) = f
    BY <2>2, <2>3, <2>4
  <2>6. Frames!Block(f, size) = Rgn(f, size)
    BY DEF Frames!Block, Rgn
  <2>7. held' = held \cup {Frames!Block(Frames!Max(Frames!Fits(size)), size)}
    BY <1>1, <1>5, <2>5, <2>6
  <2>8. size > 0
    BY <1>3, <1>5
  <2> QED BY <1>2, <2>5, <2>7, <2>8 DEF Frames!Alloc
<1> QED BY <1>4, <1>5

\* An allocation fails only when there is no place.
LEMMA RefinesPanic ==
    ASSUME MemInv, NEW size \in AllocSizes, memblock_alloc_panic(size)
    PROVE  Frames!Fail(size)
<1> DEFINE f == memblock_find_in_range(size, PGSIZE)
           s == Ask(size)
<1>1. phase = "run" /\ f = 0 /\ phase' = "panic" /\ held' = held /\ memory' = memory
  BY DEF memblock_alloc_panic
<1>2. size \in Nat
  BY MemBlockAssumption
<1>3. \A c \in Nat : ~Place(c, s)
  <2>1. Bounded
    BY DEF MemInv
  <2> QED BY <1>1, <1>2, <2>1, FoundIs
<1>4. s \in Nat \ {0} /\ s = IF size = 0 THEN 1 ELSE size
  BY <1>2 DEF Ask
<1> HIDE DEF s
<1>5. Frames!Fits(s) = {c \in Nat : Place(c, s)}
  BY <1>4, FitsAre
<1>6. Frames!Fits(IF size = 0 THEN 1 ELSE size) = {}
  BY <1>3, <1>4, <1>5
<1> QED BY <1>1, <1>6 DEF Frames!Fail

LEMMA RefinesEntry ==
    ASSUME MemInv, memblock_init_entry
    PROVE  Frames!Grow \/ UNCHANGED Frames!frameVars
<1> DEFINE e == Head(ards)
           r == memblock_add_regions(memory, e.addr, e.len)
<1>1. phase = "init" /\ held = {} /\ held' = held /\ ards # <<>>
  BY DEF memblock_init_entry, MemInv
<1>2. CASE e.type # 1
  <2>1. memory' = memory /\ phase' = phase
    BY <1>2 DEF memblock_init_entry
  <2> QED BY <1>1, <2>1 DEF Frames!frameVars
<1>3. CASE e.type = 1
  <2>1. memory' = r.type /\ phase' = PhaseAfter(r.peak)
    BY <1>3 DEF memblock_init_entry
  <2>2. e \in Entry
    BY <1>1 DEF MemInv, EntriesFit
  <2>3. e.addr \in Nat /\ e.len \in Nat /\ Good(memory)
    BY <2>2 DEF Entry, MemInv, Bounded
  <2>4. Covered(r.type) = Covered(memory) \cup (e.addr .. (e.addr + e.len - 1))
    <3> HIDE DEF e
    <3> QED BY <2>3, AddRegions
  <2> HIDE DEF r
  <2>5. Covered(memory) \subseteq Covered(memory)'
    BY <2>1, <2>4
  <2>6. phase # "panic" /\ phase' # "panic"
    BY <1>1, <2>1 DEF PhaseAfter
  <2> QED BY <1>1, <2>5, <2>6 DEF Frames!Grow
<1> QED BY <1>2, <1>3

\* The walk over the two arrays takes the highest free place of a page's alignment behind
\* page 0, panics only when there is none, and frees exactly the block it is given: the
\* allocator does what it would do on sets of addresses.
THEOREM AllocatorRefines == Spec => ImplementsFrames
<1>1. Init => Frames!Init
  <2> SUFFICES ASSUME Init PROVE Frames!Init
    OBVIOUS
  <2>1. memory = EmptyType /\ held = {} /\ phase = "init"
    BY DEF Init
  <2> QED BY <2>1, EmptyGood DEF Frames!Init
<1>2. MemInv /\ [Next]_vars => [Frames!Next]_(Frames!frameVars)
  <2> SUFFICES ASSUME MemInv, [Next]_vars PROVE [Frames!Next]_(Frames!frameVars)
    OBVIOUS
  <2>1. CASE memblock_init_entry
    BY <2>1, RefinesEntry DEF Frames!Next
  <2>2. CASE memblock_init_done
    BY <2>2 DEF memblock_init_done, Frames!frameVars
  <2>3. ASSUME NEW size \in AllocSizes, memblock_alloc(size)
        PROVE  [Frames!Next]_(Frames!frameVars)
    BY <2>3, RefinesAlloc DEF Frames!Next
  <2>4. ASSUME NEW size \in AllocSizes, memblock_alloc_panic(size)
        PROVE  [Frames!Next]_(Frames!frameVars)
    BY <2>4, RefinesPanic DEF Frames!Next
  <2>5. ASSUME NEW b \in held, memblock_free(b)
        PROVE  [Frames!Next]_(Frames!frameVars)
    <3>1. /\ phase = "run" /\ held' = held \ {b} /\ memory' = memory
          /\ phase' = PhaseAfter(memblock_remove_range(reserved, b.base, b.size).peak)
      BY <2>5 DEF memblock_free
    <3>2. phase # "panic" /\ phase' # "panic" /\ Covered(memory)' = Covered(memory)
      BY <3>1 DEF PhaseAfter
    <3>3. Frames!Release(b)
      BY <3>1, <3>2 DEF Frames!Release
    <3> QED BY <3>3 DEF Frames!Next
  <2>6. CASE halted \/ UNCHANGED vars
    <3>1. UNCHANGED <<memory, held, phase>>
      BY <2>6 DEF halted, vars
    <3> QED BY <3>1 DEF Frames!frameVars
  <2> QED BY <2>1, <2>2, <2>3, <2>4, <2>5, <2>6 DEF Next
<1> QED BY <1>1, <1>2, AlwaysMemInv, PTL DEF Spec, ImplementsFrames, Frames!Spec

=============================================================================
