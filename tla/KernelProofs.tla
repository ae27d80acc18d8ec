---------------------------- MODULE KernelProofs ----------------------------
(***************************************************************************)
(* Proofs about Kernel for every finite set of plugins and every choice of *)
(* which of them send and receive: its invariants and action properties,   *)
(* and that it implements the abstract scheduler (initial states map to    *)
(* initial states and every step to a step or a stutter).  The last part   *)
(* is about the messages of IpcTransfer, for every kind of word, length of *)
(* the buffer and set of tags besides: each send is received at most once, *)
(* and what others do between a send and its receive never alters the      *)
(* message.                                                                *)
(***************************************************************************)
EXTENDS KernelRefinement, IpcTransfer, FiniteSetTheorems, WellFoundedInduction, SequenceTheorems, TLAPS

----------------------------------------------------------------------------
(* The ready queue: each operation keeps the type of the queue and keeps it *)
(* a proper doubly linked list, and says what sequence the new list         *)
(* represents.                                                              *)

\* A queue that represents n distinct TCBs other than tcb leaves room for tcb:
\* n is less than the number of plugins.
LEMMA RoomForOneMore ==
    ASSUME NEW n \in Nat, NEW s \in [1..n -> Plugin], NEW tcb \in Plugin,
           \A i, j \in 1..n : s[i] = s[j] => i = j,
           \A i \in 1..n : s[i] # tcb
    PROVE  n + 1 \in 0..Cardinality(Plugin)
<1>1. /\ IsFiniteSet(Plugin \ {tcb})
      /\ Cardinality(Plugin \ {tcb}) = Cardinality(Plugin) - 1
  BY FS_RemoveElement, PluginAssumption
<1>2. Cardinality(Plugin) \in Nat
  BY FS_CardinalityType, PluginAssumption
<1>3. s \in Injection(1..n, Plugin \ {tcb})
  BY DEF Injection, IsInjective
<1>4. Cardinality(1..n) <= Cardinality(Plugin \ {tcb})
  BY <1>1, <1>3, FS_Injection
<1>5. Cardinality(1..n) = n
  BY FS_Interval
<1> QED
  BY <1>1, <1>2, <1>4, <1>5

\* The empty queue of boot is a proper list.
LEMMA EmptyWellFormed == EmptyReadyQueue \in ReadyQueues /\ WellFormed(EmptyReadyQueue)
<1>1. EmptyReadyQueue \in ReadyQueues
  BY DEF EmptyReadyQueue, ReadyQueues, PluginOrNull
<1>2. 0 \in 0..Cardinality(Plugin)
  BY FS_CardinalityType, PluginAssumption
<1>3. PICK s : s \in [1..0 -> Plugin]
  <2>1. [i \in 1..0 |-> CHOOSE t \in Plugin : TRUE] \in [1..0 -> Plugin]
    OBVIOUS
  <2> QED BY <2>1
<1>4. Represents(EmptyReadyQueue, 0, s)
  BY DEF Represents, EmptyReadyQueue
<1> QED
  BY <1>1, <1>2, <1>3, <1>4 DEF WellFormed

\* tcb_sched_enqueue puts a TCB that is not queued in front.
LEMMA EnqueueRepresents ==
    ASSUME NEW q \in ReadyQueues, NEW tcb \in Plugin, ~q.queued[tcb],
           NEW n \in Nat, NEW s \in [1..n -> Plugin], Represents(q, n, s)
    PROVE  LET r == [i \in 1..(n + 1) |-> IF i = 1 THEN tcb ELSE s[i - 1]]
           IN  /\ r \in [1..(n + 1) -> Plugin]
               /\ Represents(tcb_sched_enqueue(q, tcb), n + 1, r)
<1> DEFINE r == [i \in 1..(n + 1) |-> IF i = 1 THEN tcb ELSE s[i - 1]]
           p == tcb_sched_enqueue(q, tcb)
<1>1. r \in [1..(n + 1) -> Plugin]
  OBVIOUS
<1>2. /\ r[1] = tcb
      /\ \A i \in 2..(n + 1) : r[i] = s[i - 1] /\ i - 1 \in 1..n
  OBVIOUS
<1>3. \A i \in 1..n : s[i] # tcb
  BY DEF Represents
<1>4. /\ q.next \in [Plugin -> PluginOrNull]
      /\ q.prev \in [Plugin -> PluginOrNull]
      /\ q.queued \in [Plugin -> BOOLEAN]
  BY DEF ReadyQueues
<1>5. /\ n = 0 => q.head = NULL
      /\ n > 0 => q.head = s[1] /\ q.head \in Plugin /\ q.head # NULL
  BY PluginAssumption DEF Represents
<1>6. /\ p.head = tcb
      /\ p.end = IF q.head = NULL THEN tcb ELSE q.end
      /\ p.next = [q.next EXCEPT ![tcb] = q.head]
      /\ p.prev = IF q.head = NULL
                  THEN [q.prev EXCEPT ![tcb] = NULL]
                  ELSE [q.prev EXCEPT ![q.head] = tcb, ![tcb] = NULL]
      /\ p.queued = [q.queued EXCEPT ![tcb] = TRUE]
  BY DEF tcb_sched_enqueue
<1>7. \A i, j \in 1..(n + 1) : r[i] = r[j] => i = j
  BY <1>2, <1>3 DEF Represents
<1>8. p.head = r[1] /\ p.end = r[n + 1]
  <2>1. CASE n = 0
    BY <2>1, <1>2, <1>5, <1>6
  <2>2. CASE n > 0
    <3>1. p.end = s[n]
      BY <2>2, <1>5, <1>6 DEF Represents
    <3>2. r[n + 1] = s[n]
      BY <2>2, <1>2
    <3> QED BY <3>1, <3>2, <1>2, <1>6
  <2> QED BY <2>1, <2>2
<1>9. \A i \in 1..(n + 1) : p.next[r[i]] = IF i = n + 1 THEN NULL ELSE r[i + 1]
  <2> SUFFICES ASSUME NEW i \in 1..(n + 1)
               PROVE  p.next[r[i]] = IF i = n + 1 THEN NULL ELSE r[i + 1]
    OBVIOUS
  <2>1. CASE i = 1
    <3>1. p.next[r[i]] = q.head
      BY <2>1, <1>2, <1>4, <1>6
    <3>2. n > 0 => r[i + 1] = s[1]
      BY <2>1, <1>2
    <3> QED BY <3>1, <3>2, <2>1, <1>5
  <2>2. CASE i # 1
    <3>1. i - 1 \in 1..n /\ r[i] = s[i - 1]
      BY <2>2, <1>2
    <3>2. p.next[r[i]] = q.next[s[i - 1]]
      BY <3>1, <1>3, <1>4, <1>6
    <3>3. q.next[s[i - 1]] = IF i - 1 = n THEN NULL ELSE s[(i - 1) + 1]
      BY <3>1 DEF Represents
    <3>4. i # n + 1 => r[i + 1] = s[i]
      BY <2>2, <1>2
    <3> QED BY <3>1, <3>2, <3>3, <3>4
  <2> QED BY <2>1, <2>2
<1>10. \A i \in 1..(n + 1) : p.prev[r[i]] = IF i = 1 THEN NULL ELSE r[i - 1]
  <2> SUFFICES ASSUME NEW i \in 1..(n + 1)
               PROVE  p.prev[r[i]] = IF i = 1 THEN NULL ELSE r[i - 1]
    OBVIOUS
  <2>1. CASE i = 1
    BY <2>1, <1>2, <1>4, <1>6
  <2>2. CASE i = 2
    <3>1. n > 0 /\ r[i] = q.head /\ r[i - 1] = tcb /\ q.head # tcb
      BY <2>2, <1>2, <1>3, <1>5
    <3> QED BY <3>1, <2>2, <1>4, <1>5, <1>6
  <2>3. CASE i > 2
    <3>1. i - 1 \in 1..n /\ r[i] = s[i - 1] /\ s[i - 1] # tcb /\ r[i - 1] = s[i - 2]
      BY <2>3, <1>2, <1>3
    <3>2. s[i - 1] # q.head
      BY <2>3, <3>1, <1>5 DEF Represents
    <3>3. p.prev[r[i]] = q.prev[s[i - 1]]
      BY <3>1, <3>2, <1>4, <1>5, <1>6
    <3>4. q.prev[s[i - 1]] = s[(i - 1) - 1]
      BY <3>1, <2>3 DEF Represents
    <3> QED BY <3>1, <3>3, <3>4, <2>3
  <2> QED BY <2>1, <2>2, <2>3
<1>11. \A t \in Plugin : p.queued[t] <=> \E i \in 1..(n + 1) : r[i] = t
  <2> SUFFICES ASSUME NEW t \in Plugin
               PROVE  p.queued[t] <=> \E i \in 1..(n + 1) : r[i] = t
    OBVIOUS
  <2>1. CASE t = tcb
    BY <2>1, <1>2, <1>4, <1>6
  <2>2. CASE t # tcb
    <3>1. p.queued[t] = q.queued[t]
      BY <2>2, <1>4, <1>6
    <3>2. (\E i \in 1..n : s[i] = t) => \E i \in 1..(n + 1) : r[i] = t
      <4>1. \A i \in 1..n : i + 1 \in 1..(n + 1) /\ r[i + 1] = s[i]
        OBVIOUS
      <4> QED BY <4>1
    <3>3. (\E i \in 1..(n + 1) : r[i] = t) => \E i \in 1..n : s[i] = t
      BY <2>2, <1>2
    <3> QED BY <3>1, <3>2, <3>3 DEF Represents
  <2> QED BY <2>1, <2>2
<1>12. Represents(p, n + 1, r)
  <2> HIDE DEF r, p
  <2> QED BY <1>7, <1>8, <1>9, <1>10, <1>11 DEF Represents
<1> QED
  BY <1>1, <1>12

\* tcb_sched_append puts a TCB that is not queued at the end.
LEMMA AppendRepresents ==
    ASSUME NEW q \in ReadyQueues, NEW tcb \in Plugin, ~q.queued[tcb],
           NEW n \in Nat, NEW s \in [1..n -> Plugin], Represents(q, n, s)
    PROVE  LET r == [i \in 1..(n + 1) |-> IF i = n + 1 THEN tcb ELSE s[i]]
           IN  /\ r \in [1..(n + 1) -> Plugin]
               /\ Represents(tcb_sched_append(q, tcb), n + 1, r)
<1> DEFINE r == [i \in 1..(n + 1) |-> IF i = n + 1 THEN tcb ELSE s[i]]
           p == tcb_sched_append(q, tcb)
<1>1. r \in [1..(n + 1) -> Plugin]
  OBVIOUS
<1>2. /\ r[n + 1] = tcb
      /\ \A i \in 1..n : r[i] = s[i]
  OBVIOUS
<1>3. \A i \in 1..n : s[i] # tcb
  BY DEF Represents
<1>4. /\ q.next \in [Plugin -> PluginOrNull]
      /\ q.prev \in [Plugin -> PluginOrNull]
      /\ q.queued \in [Plugin -> BOOLEAN]
  BY DEF ReadyQueues
<1>5. /\ n = 0 => q.head = NULL /\ q.end = NULL
      /\ n > 0 => /\ q.head = s[1] /\ q.head # NULL
                  /\ q.end = s[n] /\ q.end \in Plugin
  BY PluginAssumption DEF Represents
<1>6. /\ p.head = IF q.head = NULL THEN tcb ELSE q.head
      /\ p.end = tcb
      /\ p.next = IF q.head = NULL
                  THEN [q.next EXCEPT ![tcb] = NULL]
                  ELSE [q.next EXCEPT ![q.end] = tcb, ![tcb] = NULL]
      /\ p.prev = [q.prev EXCEPT ![tcb] = q.end]
      /\ p.queued = [q.queued EXCEPT ![tcb] = TRUE]
  BY DEF tcb_sched_append
<1>7. \A i, j \in 1..(n + 1) : r[i] = r[j] => i = j
  BY <1>3 DEF Represents
<1>8. p.head = r[1] /\ p.end = r[n + 1]
  <2>1. CASE n = 0
    BY <2>1, <1>2, <1>5, <1>6
  <2>2. CASE n > 0
    BY <2>2, <1>2, <1>5, <1>6
  <2> QED BY <2>1, <2>2
<1>9. \A i \in 1..(n + 1) : p.next[r[i]] = IF i = n + 1 THEN NULL ELSE r[i + 1]
  <2> SUFFICES ASSUME NEW i \in 1..(n + 1)
               PROVE  p.next[r[i]] = IF i = n + 1 THEN NULL ELSE r[i + 1]
    OBVIOUS
  <2>1. CASE i = n + 1
    BY <2>1, <1>2, <1>4, <1>5, <1>6
  <2>2. CASE i = n
    <3>1. n > 0 /\ r[i] = q.end /\ r[i + 1] = tcb /\ q.end # tcb
      BY <2>2, <1>2, <1>3, <1>5
    <3> QED BY <3>1, <2>2, <1>4, <1>5, <1>6
  <2>3. CASE i < n
    <3>1. r[i] = s[i] /\ s[i] # tcb /\ r[i + 1] = s[i + 1]
      BY <2>3, <1>2, <1>3
    <3>2. s[i] # q.end
      BY <2>3, <1>5 DEF Represents
    <3>3. p.next[r[i]] = q.next[s[i]]
      BY <2>3, <3>1, <3>2, <1>4, <1>5, <1>6
    <3>4. q.next[s[i]] = s[i + 1]
      BY <2>3 DEF Represents
    <3> QED BY <3>1, <3>3, <3>4, <2>3
  <2> QED BY <2>1, <2>2, <2>3
<1>10. \A i \in 1..(n + 1) : p.prev[r[i]] = IF i = 1 THEN NULL ELSE r[i - 1]
  <2> SUFFICES ASSUME NEW i \in 1..(n + 1)
               PROVE  p.prev[r[i]] = IF i = 1 THEN NULL ELSE r[i - 1]
    OBVIOUS
  <2>1. CASE i = n + 1
    <3>1. p.prev[r[i]] = q.end
      BY <2>1, <1>2, <1>4, <1>6
    <3>2. n > 0 => r[i - 1] = s[n]
      BY <2>1, <1>2
    <3> QED BY <3>1, <3>2, <2>1, <1>5
  <2>2. CASE i # n + 1
    <3>1. i \in 1..n /\ r[i] = s[i] /\ s[i] # tcb
      BY <2>2, <1>2, <1>3
    <3>2. p.prev[r[i]] = q.prev[s[i]]
      BY <3>1, <1>4, <1>6
    <3>3. q.prev[s[i]] = IF i = 1 THEN NULL ELSE s[i - 1]
      BY <3>1 DEF Represents
    <3>4. i # 1 => r[i - 1] = s[i - 1]
      BY <3>1, <1>2
    <3> QED BY <3>2, <3>3, <3>4
  <2> QED BY <2>1, <2>2
<1>11. \A t \in Plugin : p.queued[t] <=> \E i \in 1..(n + 1) : r[i] = t
  <2> SUFFICES ASSUME NEW t \in Plugin
               PROVE  p.queued[t] <=> \E i \in 1..(n + 1) : r[i] = t
    OBVIOUS
  <2>1. CASE t = tcb
    BY <2>1, <1>2, <1>4, <1>6
  <2>2. CASE t # tcb
    <3>1. p.queued[t] = q.queued[t]
      BY <2>2, <1>4, <1>6
    <3>2. (\E i \in 1..n : s[i] = t) => \E i \in 1..(n + 1) : r[i] = t
      BY <1>2
    <3>3. (\E i \in 1..(n + 1) : r[i] = t) => \E i \in 1..n : s[i] = t
      BY <2>2, <1>2
    <3> QED BY <3>1, <3>2, <3>3 DEF Represents
  <2> QED BY <2>1, <2>2
<1>12. Represents(p, n + 1, r)
  <2> HIDE DEF r, p
  <2> QED BY <1>7, <1>8, <1>9, <1>10, <1>11 DEF Represents
<1> QED
  BY <1>1, <1>12

\* tcb_sched_dequeue closes the gap the TCB at place k leaves.
LEMMA DequeueRepresents ==
    ASSUME NEW q \in ReadyQueues,
           NEW n \in Nat, NEW s \in [1..n -> Plugin], Represents(q, n, s),
           NEW k \in 1..n
    PROVE  LET r == [i \in 1..(n - 1) |-> IF i < k THEN s[i] ELSE s[i + 1]]
           IN  /\ r \in [1..(n - 1) -> Plugin]
               /\ Represents(tcb_sched_dequeue(q, s[k]), n - 1, r)
<1> DEFINE r == [i \in 1..(n - 1) |-> IF i < k THEN s[i] ELSE s[i + 1]]
           p == tcb_sched_dequeue(q, s[k])
<1>1. r \in [1..(n - 1) -> Plugin]
  OBVIOUS
<1>2. /\ \A i \in 1..(n - 1) : i < k => r[i] = s[i]
      /\ \A i \in 1..(n - 1) : i >= k => r[i] = s[i + 1]
  OBVIOUS
<1>3. /\ q.next \in [Plugin -> PluginOrNull]
      /\ q.prev \in [Plugin -> PluginOrNull]
      /\ q.queued \in [Plugin -> BOOLEAN]
  BY DEF ReadyQueues
<1>4. /\ s[k] \in Plugin
      /\ q.queued[s[k]]
      /\ q.prev[s[k]] = IF k = 1 THEN NULL ELSE s[k - 1]
      /\ q.next[s[k]] = IF k = n THEN NULL ELSE s[k + 1]
      /\ k # 1 => s[k - 1] \in Plugin /\ s[k - 1] # NULL
      /\ k # n => s[k + 1] \in Plugin /\ s[k + 1] # NULL
  BY PluginAssumption DEF Represents
<1>5. /\ p.head = IF k = 1 THEN q.next[s[k]] ELSE q.head
      /\ p.end = IF k = n THEN q.prev[s[k]] ELSE q.end
      /\ p.next = IF k = 1 THEN q.next ELSE [q.next EXCEPT ![s[k - 1]] = q.next[s[k]]]
      /\ p.prev = IF k = n THEN q.prev ELSE [q.prev EXCEPT ![s[k + 1]] = q.prev[s[k]]]
      /\ p.queued = [q.queued EXCEPT ![s[k]] = FALSE]
  BY <1>4 DEF tcb_sched_dequeue
<1>6. \A i, j \in 1..n : s[i] = s[j] => i = j
  BY DEF Represents
<1>7. \A i, j \in 1..(n - 1) : r[i] = r[j] => i = j
  BY <1>6
<1>8. /\ p.head = IF n - 1 = 0 THEN NULL ELSE r[1]
      /\ p.end = IF n - 1 = 0 THEN NULL ELSE r[n - 1]
  <2>1. q.head = s[1] /\ q.end = s[n]
    BY DEF Represents
  <2>2. p.head = IF n - 1 = 0 THEN NULL ELSE r[1]
    <3>1. CASE k = 1
      BY <3>1, <1>4, <1>5
    <3>2. CASE k # 1
      BY <3>2, <2>1, <1>5
    <3> QED BY <3>1, <3>2
  <2>3. p.end = IF n - 1 = 0 THEN NULL ELSE r[n - 1]
    <3>1. CASE k = n
      BY <3>1, <1>4, <1>5
    <3>2. CASE k # n
      BY <3>2, <2>1, <1>5
    <3> QED BY <3>1, <3>2
  <2> QED BY <2>2, <2>3
<1>9. \A i \in 1..(n - 1) : p.next[r[i]] = IF i = n - 1 THEN NULL ELSE r[i + 1]
  <2> SUFFICES ASSUME NEW i \in 1..(n - 1)
               PROVE  p.next[r[i]] = IF i = n - 1 THEN NULL ELSE r[i + 1]
    OBVIOUS
  <2>1. \A j \in 1..n : q.next[s[j]] = IF j = n THEN NULL ELSE s[j + 1]
    BY DEF Represents
  <2>2. CASE i < k - 1
    <3>1. r[i] = s[i] /\ r[i + 1] = s[i + 1] /\ s[i] # s[k - 1] /\ i # n - 1
      BY <2>2, <1>2, <1>6
    <3>2. p.next[r[i]] = q.next[s[i]]
      BY <2>2, <3>1, <1>3, <1>4, <1>5
    <3> QED BY <3>1, <3>2, <2>1, <2>2
  <2>3. CASE i = k - 1
    <3>1. r[i] = s[k - 1] /\ k # 1
      BY <2>3, <1>2
    <3>2. p.next[r[i]] = q.next[s[k]]
      BY <3>1, <1>3, <1>4, <1>5
    <3>3. k # n => r[i + 1] = s[k + 1]
      BY <2>3, <1>2
    <3> QED BY <3>2, <3>3, <2>3, <1>4
  <2>4. CASE i >= k
    <3>1. r[i] = s[i + 1] /\ i + 1 \in 1..n /\ (i # n - 1 => r[i + 1] = s[i + 2])
      BY <2>4, <1>2
    <3>2. k # 1 => s[i + 1] # s[k - 1]
      BY <2>4, <3>1, <1>6
    <3>3. p.next[r[i]] = q.next[s[i + 1]]
      BY <3>1, <3>2, <1>3, <1>4, <1>5
    <3>4. q.next[s[i + 1]] = IF i + 1 = n THEN NULL ELSE s[(i + 1) + 1]
      BY <3>1, <2>1
    <3> QED BY <3>1, <3>3, <3>4
  <2> QED BY <2>2, <2>3, <2>4
<1>10. \A i \in 1..(n - 1) : p.prev[r[i]] = IF i = 1 THEN NULL ELSE r[i - 1]
  <2> SUFFICES ASSUME NEW i \in 1..(n - 1)
               PROVE  p.prev[r[i]] = IF i = 1 THEN NULL ELSE r[i - 1]
    OBVIOUS
  <2>1. \A j \in 1..n : q.prev[s[j]] = IF j = 1 THEN NULL ELSE s[j - 1]
    BY DEF Represents
  <2>2. CASE i < k
    <3>1. r[i] = s[i] /\ (i # 1 => r[i - 1] = s[i - 1])
      BY <2>2, <1>2
    <3>2. k # n => s[i] # s[k + 1]
      BY <2>2, <1>6
    <3>3. p.prev[r[i]] = q.prev[s[i]]
      BY <3>1, <3>2, <1>3, <1>4, <1>5
    <3> QED BY <3>1, <3>3, <2>1
  <2>3. CASE i = k
    <3>1. r[i] = s[k + 1] /\ k # n
      BY <2>3, <1>2
    <3>2. p.prev[r[i]] = q.prev[s[k]]
      BY <3>1, <1>3, <1>4, <1>5
    <3>3. k # 1 => r[i - 1] = s[k - 1]
      BY <2>3, <1>2
    <3> QED BY <3>2, <3>3, <2>3, <1>4
  <2>4. CASE i > k
    <3>1. r[i] = s[i + 1] /\ i + 1 \in 1..n /\ r[i - 1] = s[i] /\ i # 1
      BY <2>4, <1>2
    <3>2. k # n /\ s[i + 1] # s[k + 1]
      BY <2>4, <3>1, <1>6
    <3>3. p.prev[r[i]] = q.prev[s[i + 1]]
      BY <3>1, <3>2, <1>3, <1>4, <1>5
    <3>4. q.prev[s[i + 1]] = s[(i + 1) - 1]
      BY <3>1, <2>1
    <3> QED BY <3>1, <3>3, <3>4
  <2> QED BY <2>2, <2>3, <2>4
<1>11. \A t \in Plugin : p.queued[t] <=> \E i \in 1..(n - 1) : r[i] = t
  <2> SUFFICES ASSUME NEW t \in Plugin
               PROVE  p.queued[t] <=> \E i \in 1..(n - 1) : r[i] = t
    OBVIOUS
  <2>1. CASE t = s[k]
    <3>1. ~p.queued[t]
      BY <2>1, <1>3, <1>4, <1>5
    <3>2. \A i \in 1..(n - 1) : r[i] # t
      BY <2>1, <1>6
    <3> QED BY <3>1, <3>2
  <2>2. CASE t # s[k]
    <3>1. p.queued[t] = q.queued[t]
      BY <2>2, <1>3, <1>5
    <3>2. ASSUME NEW j \in 1..n, s[j] = t
          PROVE  \E i \in 1..(n - 1) : r[i] = t
      <4>1. CASE j < k
        BY <4>1, <3>2, <1>2
      <4>2. CASE j > k
        <5>1. j - 1 \in 1..(n - 1) /\ r[j - 1] = s[j]
          BY <4>2, <1>2
        <5> QED BY <5>1, <3>2
      <4> QED BY <4>1, <4>2, <3>2, <2>2
    <3>3. (\E i \in 1..(n - 1) : r[i] = t) => \E j \in 1..n : s[j] = t
      OBVIOUS
    <3> QED BY <3>1, <3>2, <3>3 DEF Represents
  <2> QED BY <2>1, <2>2
<1>12. Represents(p, n - 1, r)
  <2> HIDE DEF r, p
  <2> QED BY <1>7, <1>8, <1>9, <1>10, <1>11 DEF Represents
<1> QED
  BY <1>1, <1>12

----------------------------------------------------------------------------
(* The same facts without the sequence, as the kernel's proofs use them *)

\* tcb_sched_enqueue keeps the queue a proper list and adds at most tcb.
LEMMA EnqueueWellFormed ==
    ASSUME NEW q \in ReadyQueues, NEW tcb \in Plugin, WellFormed(q)
    PROVE  /\ tcb_sched_enqueue(q, tcb) \in ReadyQueues
           /\ WellFormed(tcb_sched_enqueue(q, tcb))
           /\ \A t \in Plugin :
                  tcb_sched_enqueue(q, tcb).queued[t] <=> q.queued[t] \/ t = tcb
<1>1. CASE q.queued[tcb]
  BY <1>1 DEF tcb_sched_enqueue
<1>2. CASE ~q.queued[tcb]
  <2>0. PICK n \in 0..Cardinality(Plugin) : \E s \in [1..n -> Plugin] : Represents(q, n, s)
    BY DEF WellFormed
  <2>1. PICK s \in [1..n -> Plugin] : Represents(q, n, s)
    BY <2>0
  <2>2. n \in Nat
    OBVIOUS
  <2>3. n + 1 \in 0..Cardinality(Plugin)
    <3>1. /\ \A i, j \in 1..n : s[i] = s[j] => i = j
          /\ \A i \in 1..n : s[i] # tcb
      BY <1>2, <2>1 DEF Represents
    <3> QED BY <3>1, <2>2, RoomForOneMore
  <2>4. WellFormed(tcb_sched_enqueue(q, tcb))
    BY <1>2, <2>1, <2>2, <2>3, EnqueueRepresents DEF WellFormed
  <2>5. tcb_sched_enqueue(q, tcb) \in ReadyQueues
    BY <1>2 DEF tcb_sched_enqueue, ReadyQueues, PluginOrNull
  <2>6. \A t \in Plugin : tcb_sched_enqueue(q, tcb).queued[t] <=> q.queued[t] \/ t = tcb
    BY <1>2 DEF tcb_sched_enqueue, ReadyQueues
  <2> QED BY <2>4, <2>5, <2>6
<1> QED BY <1>1, <1>2

\* tcb_sched_append keeps the queue a proper list and adds at most tcb.
LEMMA AppendWellFormed ==
    ASSUME NEW q \in ReadyQueues, NEW tcb \in Plugin, WellFormed(q)
    PROVE  /\ tcb_sched_append(q, tcb) \in ReadyQueues
           /\ WellFormed(tcb_sched_append(q, tcb))
           /\ \A t \in Plugin :
                  tcb_sched_append(q, tcb).queued[t] <=> q.queued[t] \/ t = tcb
<1>1. CASE q.queued[tcb]
  BY <1>1 DEF tcb_sched_append
<1>2. CASE ~q.queued[tcb]
  <2>0. PICK n \in 0..Cardinality(Plugin) : \E s \in [1..n -> Plugin] : Represents(q, n, s)
    BY DEF WellFormed
  <2>1. PICK s \in [1..n -> Plugin] : Represents(q, n, s)
    BY <2>0
  <2>2. n \in Nat
    OBVIOUS
  <2>3. n + 1 \in 0..Cardinality(Plugin)
    <3>1. /\ \A i, j \in 1..n : s[i] = s[j] => i = j
          /\ \A i \in 1..n : s[i] # tcb
      BY <1>2, <2>1 DEF Represents
    <3> QED BY <3>1, <2>2, RoomForOneMore
  <2>4. WellFormed(tcb_sched_append(q, tcb))
    BY <1>2, <2>1, <2>2, <2>3, AppendRepresents DEF WellFormed
  <2>5. tcb_sched_append(q, tcb) \in ReadyQueues
    BY <1>2 DEF tcb_sched_append, ReadyQueues, PluginOrNull
  <2>6. \A t \in Plugin : tcb_sched_append(q, tcb).queued[t] <=> q.queued[t] \/ t = tcb
    BY <1>2 DEF tcb_sched_append, ReadyQueues
  <2> QED BY <2>4, <2>5, <2>6
<1> QED BY <1>1, <1>2

\* tcb_sched_dequeue of the head keeps the queue a proper list and removes
\* exactly the head, which was queued.
LEMMA DequeueHeadWellFormed ==
    ASSUME NEW q \in ReadyQueues, WellFormed(q), q.head # NULL
    PROVE  /\ q.head \in Plugin
           /\ q.queued[q.head]
           /\ tcb_sched_dequeue(q, q.head) \in ReadyQueues
           /\ WellFormed(tcb_sched_dequeue(q, q.head))
           /\ \A t \in Plugin :
                  tcb_sched_dequeue(q, q.head).queued[t] <=> q.queued[t] /\ t # q.head
<1>0. PICK n \in 0..Cardinality(Plugin) : \E s \in [1..n -> Plugin] : Represents(q, n, s)
  BY DEF WellFormed
<1>1. PICK s \in [1..n -> Plugin] : Represents(q, n, s)
  BY <1>0
<1>2. n \in Nat /\ n # 0 /\ 1 \in 1..n /\ s[1] = q.head
  BY <1>1 DEF Represents
<1>3. q.head \in Plugin /\ q.queued[q.head]
  BY <1>1, <1>2 DEF Represents
<1>4. n - 1 \in 0..Cardinality(Plugin)
  BY <1>2, FS_CardinalityType, PluginAssumption
<1>5. WellFormed(tcb_sched_dequeue(q, q.head))
  BY <1>1, <1>2, <1>4, DequeueRepresents DEF WellFormed
<1>6. tcb_sched_dequeue(q, q.head) \in ReadyQueues
  BY <1>3 DEF tcb_sched_dequeue, ReadyQueues, PluginOrNull
<1>7. \A t \in Plugin :
          tcb_sched_dequeue(q, q.head).queued[t] <=> q.queued[t] /\ t # q.head
  BY <1>3 DEF tcb_sched_dequeue, ReadyQueues
<1> QED BY <1>3, <1>5, <1>6, <1>7

\* A proper list with a NULL head is empty: no TCB is marked queued.
LEMMA NullHeadIsEmpty ==
    ASSUME NEW q \in ReadyQueues, WellFormed(q), q.head = NULL
    PROVE  \A t \in Plugin : ~q.queued[t]
BY PluginAssumption DEF WellFormed, Represents

----------------------------------------------------------------------------
(* The inductive invariant *)

\* Which threads are current in which mode, and the contexts of boot.
ControlInv ==
    /\ mode # "boot" => ksCurThread \in Tcb
    /\ mode = "user" => ksCurThread \in Plugin /\ oldThread \in Tcb
    /\ mode = "boot" => \A t \in Plugin : context[t] \in {NoContext, ForkretContext(t)}

\* A plugin that was loaded and has not run is in the ready queue.
FreshIsQueued ==
    \A t \in Plugin :
        /\ mode \in {"main", "user"}
        /\ context[t] = ForkretContext(t)
        /\ ~rq.queued[t]
        => mode = "user" /\ ksCurThread = t

KernelInv ==
    /\ TypeOK
    /\ ReadyQueueWellFormed
    /\ UserModeReady
    /\ ExitIsFinal
    /\ EndpointHoldsSender
    /\ ControlInv
    /\ FreshIsQueued

----------------------------------------------------------------------------
(* Facts about the pieces of the steps *)

\* The four kinds of context differ from each other.
LEMMA ContextsDiffer ==
    ASSUME NEW t
    PROVE  /\ ForkretContext(t) # MainContext
           /\ SchedContext(t) # MainContext
           /\ SchedContext(t) # ForkretContext(t)
           /\ NoContext # MainContext
           /\ NoContext # SchedContext(t)
           /\ NoContext # ForkretContext(t)
BY DEF ForkretContext, SchedContext, MainContext, NoContext

\* Every context the kernel makes for a plugin, or for the loop, has the type.
LEMMA ContextTypes ==
    /\ NoContext \in Contexts
    /\ MainContext \in Contexts
    /\ \A t \in Plugin : ForkretContext(t) \in Contexts /\ SchedContext(t) \in Contexts
BY DEF NoContext, MainContext, ForkretContext, SchedContext, Contexts, PluginOrNull

\* While ksSchedulerAction says to choose a thread, possible_switch_to queues.
LEMMA PossibleSwitchQueues ==
    ASSUME NEW q, NEW target
    PROVE  possible_switch_to(SchedState(q, SchedulerAction_ChooseNewThread), target)
             = SchedState(tcb_sched_enqueue(q, target), SchedulerAction_ChooseNewThread)
BY KernelAssumption DEF possible_switch_to, reschedule_required, SchedState,
   SchedulerAction_ResumeCurrentThread

\* tcb_ep_append to a queue without links makes the caller its only member.
LEMMA EpAppend ==
    ASSUME NEW q \in EndpointQueues, NEW tcb \in Plugin, q.end = NULL,
           \A t \in Plugin : q.next[t] = NULL /\ q.prev[t] = NULL
    PROVE  LET p == tcb_ep_append(q, tcb)
           IN  /\ p \in EndpointQueues
               /\ p.head = tcb
               /\ p.end = NULL
               /\ \A t \in Plugin : p.next[t] = NULL /\ p.prev[t] = NULL
BY DEF tcb_ep_append, EndpointQueues, PluginOrNull

\* tcb_ep_dequeue of the only member leaves an empty queue.
LEMMA EpDequeue ==
    ASSUME NEW q \in EndpointQueues, NEW tcb \in Plugin, q.end = NULL,
           \A t \in Plugin : q.next[t] = NULL /\ q.prev[t] = NULL
    PROVE  LET p == tcb_ep_dequeue(q, tcb)
           IN  /\ p \in EndpointQueues
               /\ p.head = NULL
               /\ p.end = NULL
               /\ \A t \in Plugin : p.next[t] = NULL /\ p.prev[t] = NULL
BY DEF tcb_ep_dequeue, EndpointQueues, PluginOrNull

----------------------------------------------------------------------------
(* The invariant holds at power-on *)

\* The zeroed TCBs, the empty ready queue and the Idle endpoint of boot satisfy
\* the invariant.
LEMMA InitInv == Init => KernelInv
<1> SUFFICES ASSUME Init PROVE KernelInv
  OBVIOUS
<1> USE DEF Init
<1>1. TypeOK
  BY EmptyWellFormed, ContextTypes
     DEF TypeOK, EndpointQueues, PluginOrNull, Modes, SchedulerAction_ResumeCurrentThread
<1>2. ReadyQueueWellFormed
  BY EmptyWellFormed DEF ReadyQueueWellFormed
<1>3. UserModeReady /\ FreshIsQueued
  BY DEF UserModeReady, FreshIsQueued
<1>4. ExitIsFinal
  BY ContextsDiffer DEF ExitIsFinal, Tcb
<1>5. EndpointHoldsSender
  BY DEF EndpointHoldsSender
<1>6. ControlInv
  BY DEF ControlInv, Tcb
<1> QED BY <1>1, <1>2, <1>3, <1>4, <1>5, <1>6 DEF KernelInv

----------------------------------------------------------------------------
(* Every step keeps it, one lemma per group of actions *)

\* Appending, loading and entering the loop keep the invariant.
LEMMA BootInv ==
    ASSUME KernelInv,
           (\E t \in Plugin : ipc_test(t) \/ load_plugin(t)) \/ enter_loop
    PROVE  KernelInv'
<1> USE DEF KernelInv
<1>1. ASSUME NEW t \in Plugin, ipc_test(t) PROVE KernelInv'
  <2> USE <1>1 DEF ipc_test, ipcVars
  <2>1. /\ rq' \in ReadyQueues
        /\ WellFormed(rq')
    BY AppendWellFormed DEF TypeOK, ReadyQueueWellFormed
  <2>2. TypeOK' /\ ReadyQueueWellFormed'
    BY <2>1 DEF TypeOK, ReadyQueueWellFormed
  <2>3. UserModeReady' /\ ExitIsFinal' /\ EndpointHoldsSender' /\ ControlInv' /\ FreshIsQueued'
    BY DEF UserModeReady, ExitIsFinal, EndpointHoldsSender, ControlInv, FreshIsQueued
  <2> QED BY <2>2, <2>3
<1>2. ASSUME NEW t \in Plugin, load_plugin(t) PROVE KernelInv'
  <2> USE <1>2 DEF load_plugin, ipcVars
  <2>1. context \in [Tcb -> Contexts] /\ t \in Tcb
    BY DEF TypeOK, Tcb
  <2>2. TypeOK'
    BY <2>1, ContextTypes DEF TypeOK
  <2>3. ReadyQueueWellFormed' /\ UserModeReady' /\ EndpointHoldsSender' /\ FreshIsQueued'
    BY DEF ReadyQueueWellFormed, UserModeReady, EndpointHoldsSender, FreshIsQueued
  <2>4. ControlInv'
    BY <2>1 DEF ControlInv, Tcb
  <2>5. ExitIsFinal'
    BY <2>1, ContextsDiffer DEF ExitIsFinal, Tcb
  <2> QED BY <2>2, <2>3, <2>4, <2>5
<1>3. ASSUME enter_loop PROVE KernelInv'
  <2> USE <1>3 DEF enter_loop, ipcVars
  <2>1. TypeOK'
    BY DEF TypeOK, Tcb, Modes
  <2>2. ReadyQueueWellFormed' /\ UserModeReady' /\ EndpointHoldsSender' /\ FreshIsQueued'
    BY DEF ReadyQueueWellFormed, UserModeReady, EndpointHoldsSender, FreshIsQueued
  <2>3. ControlInv'
    BY DEF ControlInv, Tcb
  <2>4. \A t \in Plugin : context[t] = ForkretContext(t)
    BY DEF ControlInv
  <2>5. ExitIsFinal'
    BY <2>4, ContextsDiffer DEF ExitIsFinal
  <2> QED BY <2>1, <2>2, <2>3, <2>5
<1> QED BY <1>1, <1>2, <1>3

\* What switch_to_thread does to the queue and the contexts, given the invariant.
LEMMA SwitchFacts ==
    ASSUME KernelInv, mode = "main", rq.head # NULL, switch_to_thread(rq.head)
    PROVE  /\ rq.head \in Plugin
           /\ rq.queued[rq.head]
           /\ rq' \in ReadyQueues
           /\ WellFormed(rq')
           /\ \A t \in Plugin : rq'.queued[t] <=> rq.queued[t] /\ t # rq.head
           /\ context' \in [Tcb -> Contexts]
           /\ context'[ksCurThread] = MainContext
           /\ \A t \in Plugin : t # ksCurThread => context'[t] = context[t]
           /\ \A t \in Plugin : context'[t] # SchedContext(t)
<1> USE DEF KernelInv, switch_to_thread
<1>1. rq \in ReadyQueues /\ WellFormed(rq)
  BY DEF TypeOK, ReadyQueueWellFormed
<1>2. ksCurThread \in Tcb /\ context \in [Tcb -> Contexts]
  BY DEF TypeOK, ControlInv
<1>3. /\ context' \in [Tcb -> Contexts]
      /\ context'[ksCurThread] = MainContext
      /\ \A t \in Plugin : t # ksCurThread => context'[t] = context[t]
  BY <1>2, ContextTypes DEF Tcb
<1>4. \A t \in Plugin : context'[t] # SchedContext(t)
  BY <1>3, ContextsDiffer DEF ExitIsFinal
<1> QED BY <1>1, <1>3, <1>4, DequeueHeadWellFormed

\* The iterations of the loop keep the invariant.
LEMMA LoopInv ==
    ASSUME KernelInv, schedule_idle \/ schedule_user \/ schedule_return
    PROVE  KernelInv'
<1> USE DEF KernelInv
<1>1. CASE schedule_idle
  <2> USE <1>1 DEF schedule_idle, ipcVars
  <2>1. TypeOK'
    BY DEF TypeOK
  <2> QED
    BY <2>1 DEF ReadyQueueWellFormed, UserModeReady, ExitIsFinal, EndpointHoldsSender,
                ControlInv, FreshIsQueued
<1>2. CASE schedule_user
  <2> USE <1>2 DEF schedule_user, ipcVars
  <2>1. /\ rq.head \in Plugin
        /\ rq' \in ReadyQueues
        /\ WellFormed(rq')
        /\ \A t \in Plugin : rq'.queued[t] <=> rq.queued[t] /\ t # rq.head
        /\ context' \in [Tcb -> Contexts]
        /\ context'[ksCurThread] = MainContext
        /\ \A t \in Plugin : t # ksCurThread => context'[t] = context[t]
        /\ \A t \in Plugin : context'[t] # SchedContext(t)
    BY SwitchFacts
  <2>2. ksCurThread \in Tcb /\ ksCurThread' = rq.head /\ oldThread' = ksCurThread
    BY DEF ControlInv, switch_to_thread
  <2>3. mode' = "user"
    BY <2>1 DEF ExitIsFinal
  <2>4. TypeOK'
    BY <2>1, <2>2, <2>3 DEF TypeOK, Tcb, PluginOrNull, Modes
  <2>5. ReadyQueueWellFormed'
    BY <2>1 DEF ReadyQueueWellFormed
  <2>6. UserModeReady'
    BY <2>1, <2>2 DEF UserModeReady
  <2>7. ExitIsFinal'
    BY <2>1, <2>3 DEF ExitIsFinal
  <2>8. EndpointHoldsSender'
    BY DEF EndpointHoldsSender
  <2>9. ControlInv'
    BY <2>1, <2>2, <2>3 DEF ControlInv, Tcb
  <2>10. FreshIsQueued'
    BY <2>1, <2>2, <2>3, ContextsDiffer DEF FreshIsQueued
  <2> QED BY <2>4, <2>5, <2>6, <2>7, <2>8, <2>9, <2>10
<1>3. CASE schedule_return
  <2> USE <1>3 DEF schedule_return, ipcVars
  <2>1. /\ rq.head \in Plugin
        /\ rq' \in ReadyQueues
        /\ WellFormed(rq')
        /\ \A t \in Plugin : rq'.queued[t] <=> rq.queued[t] /\ t # rq.head
        /\ context' \in [Tcb -> Contexts]
        /\ context'[ksCurThread] = MainContext
        /\ \A t \in Plugin : t # ksCurThread => context'[t] = context[t]
        /\ \A t \in Plugin : context'[t] # SchedContext(t)
    BY SwitchFacts
  <2>2. ksCurThread \in Tcb /\ ksCurThread' = rq.head /\ oldThread' = ksCurThread
    BY DEF ControlInv, switch_to_thread
  <2>3. TypeOK'
    BY <2>1, <2>2 DEF TypeOK, Tcb, PluginOrNull, Modes
  <2>4. ReadyQueueWellFormed'
    BY <2>1 DEF ReadyQueueWellFormed
  <2>5. UserModeReady'
    BY DEF UserModeReady
  <2>6. ExitIsFinal'
    BY <2>1 DEF ExitIsFinal
  <2>7. EndpointHoldsSender'
    BY DEF EndpointHoldsSender
  <2>8. ControlInv'
    BY <2>1, <2>2 DEF ControlInv, Tcb
  <2>9. FreshIsQueued'
    BY <2>1, <2>2, ContextsDiffer DEF FreshIsQueued
  <2> QED BY <2>3, <2>4, <2>5, <2>6, <2>7, <2>8, <2>9
<1> QED BY <1>1, <1>2, <1>3

\* The system calls, and the stopped kernel, keep the invariant.
LEMMA SyscallInv ==
    ASSUME KernelInv,
           sys_exit \/ sys_send \/ sys_receive \/ sys_receive_none \/ sys_wild \/ sys_panic \/ halted
    PROVE  KernelInv'
<1> USE DEF KernelInv
<1>0. mode = "user" => /\ ksCurThread \in Plugin
                       /\ ksCurThread \in Tcb
                       /\ context \in [Tcb -> Contexts]
                       /\ context[oldThread] = MainContext
                       /\ ksSchedulerAction = SchedulerAction_ChooseNewThread
  BY DEF ControlInv, TypeOK, UserModeReady
<1>1. CASE sys_exit
  <2> USE <1>1 DEF sys_exit, ipcVars
  <2>1. /\ context' \in [Tcb -> Contexts]
        /\ context'[ksCurThread] = SchedContext(ksCurThread)
        /\ \A t \in Plugin : t # ksCurThread => context'[t] = context[t]
    BY <1>0, ContextTypes DEF Tcb
  <2>2. mode' = "main"
    BY <1>0
  <2>3. TypeOK'
    BY <2>1, <2>2 DEF TypeOK, Modes, PluginOrNull
  <2>4. ReadyQueueWellFormed' /\ UserModeReady' /\ EndpointHoldsSender'
    BY <2>2 DEF ReadyQueueWellFormed, UserModeReady, EndpointHoldsSender
  <2>5. ExitIsFinal'
    BY <1>0, <2>1, <2>2 DEF ExitIsFinal
  <2>6. ControlInv'
    BY <1>0, <2>2 DEF ControlInv
  <2>7. FreshIsQueued'
    BY <1>0, <2>1, <2>2, ContextsDiffer DEF FreshIsQueued
  <2> QED BY <2>3, <2>4, <2>5, <2>6, <2>7
<1>2. CASE sys_send
  <2> USE <1>2 DEF sys_send, schedVars
  <2>1. /\ epq \in EndpointQueues
        /\ epq.end = NULL
        /\ \A t \in Plugin : epq.next[t] = NULL /\ epq.prev[t] = NULL
    BY DEF TypeOK, EndpointHoldsSender
  <2>2. /\ epq' \in EndpointQueues
        /\ epq'.head = ksCurThread
        /\ epq'.end = NULL
        /\ \A t \in Plugin : epq'.next[t] = NULL /\ epq'.prev[t] = NULL
    BY <1>0, <2>1, EpAppend
  <2>3. TypeOK'
    BY <1>0, <2>2 DEF TypeOK
  <2>4. EndpointHoldsSender'
    BY <1>0, <2>2, PluginAssumption DEF EndpointHoldsSender, TypeOK
  <2>5. ReadyQueueWellFormed' /\ UserModeReady' /\ ExitIsFinal' /\ ControlInv' /\ FreshIsQueued'
    BY DEF ReadyQueueWellFormed, UserModeReady, ExitIsFinal, ControlInv, FreshIsQueued
  <2> QED BY <2>3, <2>4, <2>5
<1>3. CASE sys_receive
  <2> USE <1>3 DEF sys_receive
  <2>1. /\ epq \in EndpointQueues
        /\ epq.head \in Plugin
        /\ epq.end = NULL
        /\ \A t \in Plugin : epq.next[t] = NULL /\ epq.prev[t] = NULL
    BY DEF TypeOK, EndpointHoldsSender, EndpointQueues, PluginOrNull
  <2>2. /\ epq' \in EndpointQueues
        /\ epq'.head = NULL
        /\ epq'.end = NULL
        /\ \A t \in Plugin : epq'.next[t] = NULL /\ epq'.prev[t] = NULL
    BY <2>1, EpDequeue
  <2>3. rq' = tcb_sched_enqueue(rq, epq.head) /\ ksSchedulerAction' = ksSchedulerAction
    <3> DEFINE s == possible_switch_to(SchedState(rq, ksSchedulerAction), epq.head)
    <3>1. rq' = s.rq /\ ksSchedulerAction' = s.action
      OBVIOUS
    <3>2. s = SchedState(tcb_sched_enqueue(rq, epq.head), SchedulerAction_ChooseNewThread)
      BY <1>0, PossibleSwitchQueues
    <3> HIDE DEF s
    <3> QED BY <1>0, <3>1, <3>2 DEF SchedState
  <2>4. /\ rq' \in ReadyQueues
        /\ WellFormed(rq')
        /\ \A t \in Plugin : rq'.queued[t] <=> rq.queued[t] \/ t = epq.head
    BY <2>1, <2>3, EnqueueWellFormed DEF TypeOK, ReadyQueueWellFormed
  <2>5. epState' = "Idle"
    BY <2>2
  <2>6. TypeOK'
    BY <2>1, <2>2, <2>3, <2>4, <2>5 DEF TypeOK
  <2>7. ReadyQueueWellFormed'
    BY <2>4 DEF ReadyQueueWellFormed
  <2>8. EndpointHoldsSender'
    BY <2>2, <2>5 DEF EndpointHoldsSender
  <2>9. UserModeReady' /\ ExitIsFinal' /\ ControlInv'
    BY <2>3 DEF UserModeReady, ExitIsFinal, ControlInv
  <2>10. FreshIsQueued'
    BY <2>4 DEF FreshIsQueued
  <2> QED BY <2>6, <2>7, <2>8, <2>9, <2>10
<1>4. CASE sys_receive_none \/ sys_wild \/ sys_panic
  <2> USE <1>4 DEF sys_receive_none, sys_wild, sys_panic, schedVars, ipcVars
  <2>1. mode' \in {"panic", "wild"}
    OBVIOUS
  <2>2. TypeOK'
    BY <2>1 DEF TypeOK, Modes
  <2>3. ReadyQueueWellFormed' /\ UserModeReady' /\ EndpointHoldsSender'
    BY <2>1 DEF ReadyQueueWellFormed, UserModeReady, EndpointHoldsSender
  <2>4. ExitIsFinal' /\ ControlInv' /\ FreshIsQueued'
    BY <1>0, <2>1 DEF ExitIsFinal, ControlInv, FreshIsQueued
  <2> QED BY <2>2, <2>3, <2>4
<1>5. CASE halted
  BY <1>5 DEF halted, vars, TypeOK, ReadyQueueWellFormed, UserModeReady, ExitIsFinal,
              EndpointHoldsSender, ControlInv, FreshIsQueued
<1> QED BY <1>1, <1>2, <1>3, <1>4, <1>5

\* Every step of the kernel keeps the invariant.
LEMMA NextInv == KernelInv /\ [Next]_vars => KernelInv'
<1>1. ASSUME KernelInv, Next PROVE KernelInv'
  BY <1>1, BootInv, LoopInv, SyscallInv DEF Next
<1>2. ASSUME KernelInv, UNCHANGED vars PROVE KernelInv'
  BY <1>2 DEF vars, KernelInv, TypeOK, ReadyQueueWellFormed, UserModeReady, ExitIsFinal,
              EndpointHoldsSender, ControlInv, FreshIsQueued
<1> QED BY <1>1, <1>2

----------------------------------------------------------------------------
(* The theorems *)

\* The conjunction of all invariants holds in every reachable state.
LEMMA KernelInvariant == Spec => []KernelInv
<1> QED BY InitInv, NextInv, PTL DEF Spec

\* Every variable keeps its type.
THEOREM TypeCorrect == Spec => []TypeOK
<1>1. KernelInv => TypeOK
  BY DEF KernelInv
<1> QED BY <1>1, KernelInvariant, PTL

\* For any number of plugins and any sequence of wake-ups and dispatches the
\* ready queue of tcb.c is a doubly linked list of exactly the queued TCBs.
THEOREM ReadyQueueCorrect == Spec => []ReadyQueueWellFormed
<1>1. KernelInv => ReadyQueueWellFormed
  BY DEF KernelInv
<1> QED BY <1>1, KernelInvariant, PTL

\* exit() always finds the loop of main() in the context it switches to, and no
\* wake-up can be parked in ksSchedulerAction.
THEOREM ReturnPathCorrect == Spec => []UserModeReady
<1>1. KernelInv => UserModeReady
  BY DEF KernelInv
<1> QED BY <1>1, KernelInvariant, PTL

\* A plugin comes back from exit() only if nobody was dispatched in between, and
\* never on the stack of another plugin.
THEOREM ExitCorrect == Spec => []ExitIsFinal
<1>1. KernelInv => ExitIsFinal
  BY DEF KernelInv
<1> QED BY <1>1, KernelInvariant, PTL

\* The loop of main() idles only when every plugin has run.
THEOREM IdleCorrect == Spec => []IdleMeansAllRan
<1>1. KernelInv => IdleMeansAllRan
  BY NullHeadIsEmpty
     DEF KernelInv, TypeOK, ReadyQueueWellFormed, FreshIsQueued, IdleMeansAllRan
<1> QED BY <1>1, KernelInvariant, PTL

\* The endpoint's state, its queue and the state of its sender agree.
THEOREM EndpointCorrect == Spec => []EndpointHoldsSender
<1>1. KernelInv => EndpointHoldsSender
  BY DEF KernelInv
<1> QED BY <1>1, KernelInvariant, PTL

\* The step that makes a blocked sender Running puts it in the ready queue.
THEOREM WakeupCorrect == Spec => WakeupNotLost
<1> DEFINE Woken == \A t \in Plugin :
               tsType[t] = "BlockedOnSend" /\ tsType'[t] = "Running" => rq'.queued[t]
<1>1. ASSUME KernelInv, Next PROVE Woken
  <2> SUFFICES ASSUME NEW t \in Plugin,
                      tsType[t] = "BlockedOnSend", tsType'[t] = "Running"
               PROVE  rq'.queued[t]
    OBVIOUS
  <2>1. tsType' # tsType
    OBVIOUS
  <2>2. sys_send \/ sys_receive
    BY <1>1, <2>1 DEF Next, ipc_test, load_plugin, enter_loop, schedule_idle, schedule_user,
       schedule_return, sys_exit, sys_receive_none, sys_wild, sys_panic, halted, vars, ipcVars
  <2>3. tsType \in [Plugin -> {"Inactive", "Running", "BlockedOnSend"}]
    BY <1>1 DEF KernelInv, TypeOK
  <2>4. ~sys_send
    BY <2>3 DEF sys_send
  <2>5. sys_receive
    BY <2>2, <2>4
  <2>6. t = epq.head
    BY <2>3, <2>5 DEF sys_receive
  <2>7. ksSchedulerAction = SchedulerAction_ChooseNewThread
    BY <1>1, <2>5 DEF KernelInv, UserModeReady, sys_receive
  <2> DEFINE s == possible_switch_to(SchedState(rq, ksSchedulerAction), epq.head)
  <2>8. rq' = s.rq
    BY <2>5 DEF sys_receive
  <2>9. s = SchedState(tcb_sched_enqueue(rq, epq.head), SchedulerAction_ChooseNewThread)
    BY <2>7, PossibleSwitchQueues
  <2> HIDE DEF s
  <2>10. rq' = tcb_sched_enqueue(rq, t)
    BY <2>6, <2>8, <2>9 DEF SchedState
  <2> QED
    BY <1>1, <2>10, EnqueueWellFormed DEF KernelInv, TypeOK, ReadyQueueWellFormed
<1>2. KernelInv /\ [Next]_vars => [Woken]_vars
  BY <1>1
<1> QED BY <1>2, KernelInvariant, PTL DEF Spec, WakeupNotLost

\* A thread is taken off the ready queue only from its head, to be switched to.
THEOREM LeaveCorrect == Spec => LeavesQueueToRun
<1> DEFINE Leaves == \A t \in Plugin :
               rq.queued[t] /\ ~rq'.queued[t] => rq.head = t /\ ksCurThread' = t
<1>1. ASSUME KernelInv, Next PROVE Leaves
  <2> SUFFICES ASSUME NEW t \in Plugin, rq.queued[t], ~rq'.queued[t]
               PROVE  rq.head = t /\ ksCurThread' = t
    OBVIOUS
  <2>1. rq \in ReadyQueues /\ WellFormed(rq)
    BY <1>1 DEF KernelInv, TypeOK, ReadyQueueWellFormed
  <2>2. rq' # rq
    OBVIOUS
  <2>3. (\E u \in Plugin : ipc_test(u)) \/ schedule_user \/ schedule_return \/ sys_receive
    BY <1>1, <2>2 DEF Next, load_plugin, enter_loop, schedule_idle, sys_exit, sys_send,
       sys_receive_none, sys_wild, sys_panic, halted, vars, schedVars
  <2>4. ASSUME NEW u \in Plugin, ipc_test(u) PROVE FALSE
    BY <2>1, <2>4, AppendWellFormed DEF ipc_test
  <2>5. ASSUME sys_receive PROVE FALSE
    <3>1. ksSchedulerAction = SchedulerAction_ChooseNewThread
      BY <1>1, <2>5 DEF KernelInv, UserModeReady, sys_receive
    <3> DEFINE s == possible_switch_to(SchedState(rq, ksSchedulerAction), epq.head)
    <3>2. rq' = s.rq
      BY <2>5 DEF sys_receive
    <3>3. s = SchedState(tcb_sched_enqueue(rq, epq.head), SchedulerAction_ChooseNewThread)
      BY <3>1, PossibleSwitchQueues
    <3> HIDE DEF s
    <3>4. rq' = tcb_sched_enqueue(rq, epq.head)
      BY <3>2, <3>3 DEF SchedState
    <3>5. epq.head \in Plugin
      BY <1>1, <2>5 DEF KernelInv, TypeOK, EndpointQueues, PluginOrNull, sys_receive
    <3> QED BY <2>1, <3>4, <3>5, EnqueueWellFormed
  <2>6. CASE schedule_user \/ schedule_return
    <3>1. /\ mode = "main"
          /\ rq.head # NULL
          /\ switch_to_thread(rq.head)
      BY <2>6 DEF schedule_user, schedule_return
    <3>2. rq'.queued[t] <=> rq.queued[t] /\ t # rq.head
      BY <1>1, <3>1, SwitchFacts
    <3> QED BY <3>1, <3>2 DEF switch_to_thread
  <2> QED BY <2>3, <2>4, <2>5, <2>6
<1>2. KernelInv /\ [Next]_vars => [Leaves]_vars
  BY <1>1
<1> QED BY <1>2, KernelInvariant, PTL DEF Spec, LeavesQueueToRun

----------------------------------------------------------------------------
(* A linked list represents one sequence only *)

\* A nonempty set of naturals has a least element.
LEMMA LeastNatural ==
    ASSUME NEW T, T \subseteq Nat, T # {}
    PROVE  \E x \in T : \A y \in T : x <= y
<1> DEFINE R == OpToRel(<, Nat)
<1>1. IsWellFoundedOn(R, Nat)
  BY NatLessThanWellFounded
<1>2. PICK x \in T : \A y \in T : ~(<<y, x>> \in R)
  <2> HIDE DEF R
  <2> QED BY <1>1, WFMin
<1>3. \A y \in T : <<y, x>> \in R <=> y < x
  BY DEF OpToRel
<1>4. \A y \in T : ~(y < x)
  BY <1>2, <1>3
<1> HIDE DEF R
<1> QED BY <1>4

\* Following the links from the head of one list, two sequences it represents
\* agree as far as the shorter one goes.
LEMMA RepresentsPrefix ==
    ASSUME NEW q,
           NEW n \in Nat, NEW s \in [1..n -> Plugin], Represents(q, n, s),
           NEW m \in Nat, NEW r \in [1..m -> Plugin], Represents(q, m, r),
           n <= m
    PROVE  \A i \in 1..n : s[i] = r[i]
<1> DEFINE T == {i \in 1..n : s[i] # r[i]}
<1>1. SUFFICES ASSUME T # {} PROVE FALSE
  OBVIOUS
<1>2. T \subseteq Nat
  OBVIOUS
<1>3. PICK i \in T : \A j \in T : i <= j
  BY <1>1, <1>2, LeastNatural
<1>4. i \in 1..n /\ i \in 1..m /\ s[i] # r[i]
  OBVIOUS
<1>5. i # 1
  BY <1>4 DEF Represents
<1>6. i - 1 \in 1..n /\ i - 1 \in 1..m /\ i - 1 # n /\ i - 1 # m /\ i - 1 \notin T
  BY <1>3, <1>4, <1>5
<1>7. s[i - 1] = r[i - 1]
  BY <1>6
<1>8. q.next[s[i - 1]] = s[(i - 1) + 1] /\ q.next[r[i - 1]] = r[(i - 1) + 1]
  BY <1>6 DEF Represents
<1> QED BY <1>4, <1>7, <1>8

\* A shorter sequence ends in NULL where a longer one goes on: they have the
\* same length.
LEMMA RepresentsLength ==
    ASSUME NEW q,
           NEW n \in Nat, NEW s \in [1..n -> Plugin], Represents(q, n, s),
           NEW m \in Nat, NEW r \in [1..m -> Plugin], Represents(q, m, r),
           n <= m
    PROVE  n = m
<1>1. SUFFICES ASSUME n < m PROVE FALSE
  OBVIOUS
<1>2. CASE n = 0
  <2>1. q.head = NULL /\ q.head = r[1] /\ r[1] \in Plugin
    BY <1>1, <1>2 DEF Represents
  <2> QED BY <2>1, PluginAssumption
<1>3. CASE n # 0
  <2>1. s[n] = r[n]
    BY <1>3, RepresentsPrefix
  <2>2. q.next[s[n]] = NULL /\ q.next[r[n]] = r[n + 1] /\ r[n + 1] \in Plugin
    BY <1>1, <1>3 DEF Represents
  <2> QED BY <2>1, <2>2, PluginAssumption
<1> QED BY <1>2, <1>3

\* A list represents at most one sequence.
LEMMA RepresentsUnique ==
    ASSUME NEW q,
           NEW n \in Nat, NEW s \in [1..n -> Plugin], Represents(q, n, s),
           NEW m \in Nat, NEW r \in [1..m -> Plugin], Represents(q, m, r)
    PROVE  s = r
<1>1. n = m
  <2>1. CASE n <= m
    BY <2>1, RepresentsLength
  <2>2. CASE m <= n
    BY <2>2, RepresentsLength
  <2> QED BY <2>1, <2>2
<1>2. \A i \in 1..n : s[i] = r[i]
  BY <1>1, RepresentsPrefix
<1> QED BY <1>1, <1>2

\* So the sequence the refinement mapping chooses is the one represented.
LEMMA SeqOfIs ==
    ASSUME NEW q, NEW n \in 0..Cardinality(Plugin), NEW s \in [1..n -> Plugin],
           Represents(q, n, s)
    PROVE  SeqOf(q) = s
<1>1. Cardinality(Plugin) \in Nat
  BY FS_CardinalityType, PluginAssumption
<1>2. \A r \in ThreadSeqs : Len(r) \in Nat /\ r \in [1..Len(r) -> Plugin]
  BY <1>1 DEF ThreadSeqs
<1>3. s \in ThreadSeqs /\ Len(s) = n
  BY <1>1 DEF ThreadSeqs
<1>4. \E r \in ThreadSeqs : Represents(q, Len(r), r)
  BY <1>3
<1>5. SeqOf(q) \in ThreadSeqs /\ Represents(q, Len(SeqOf(q)), SeqOf(q))
  BY <1>4 DEF SeqOf
<1>6. n \in Nat
  BY <1>1
<1> QED BY <1>2, <1>3, <1>5, <1>6, RepresentsUnique

\* The sequence of a proper list: a sequence of plugins, empty exactly when the
\* head is NULL, beginning with the head, with the queued TCBs as members.
LEMMA SeqOfWellFormed ==
    ASSUME NEW q \in ReadyQueues, WellFormed(q)
    PROVE  /\ SeqOf(q) \in Seq(Plugin)
           /\ Len(SeqOf(q)) \in 0..Cardinality(Plugin)
           /\ SeqOf(q) \in [1..Len(SeqOf(q)) -> Plugin]
           /\ Represents(q, Len(SeqOf(q)), SeqOf(q))
           /\ SeqOf(q) = <<>> <=> q.head = NULL
           /\ q.head # NULL => Head(SeqOf(q)) = q.head
           /\ \A t \in Plugin :
                  q.queued[t] <=> \E i \in DOMAIN SeqOf(q) : SeqOf(q)[i] = t
<1>0. PICK n \in 0..Cardinality(Plugin) : \E s \in [1..n -> Plugin] : Represents(q, n, s)
  BY DEF WellFormed
<1>1. PICK s \in [1..n -> Plugin] : Represents(q, n, s)
  BY <1>0
<1>2. SeqOf(q) = s
  BY <1>1, SeqOfIs
<1>3. n \in Nat
  BY FS_CardinalityType, PluginAssumption
<1>4. s \in Seq(Plugin) /\ Len(s) = n /\ DOMAIN s = 1..n
  BY <1>3
<1>5. s = <<>> <=> n = 0
  BY <1>3, <1>4
<1>6. n = 0 <=> q.head = NULL
  BY <1>1, <1>3, PluginAssumption DEF Represents
<1>7. q.head # NULL => Head(s) = q.head
  BY <1>1, <1>3, <1>4, <1>6 DEF Represents
<1>8. \A t \in Plugin : q.queued[t] <=> \E i \in DOMAIN s : s[i] = t
  BY <1>1, <1>4 DEF Represents
<1> QED BY <1>1, <1>2, <1>4, <1>5, <1>6, <1>7, <1>8

\* Sequences as functions: what Append and Tail do to a function on 1..n.
LEMMA AppendAsFunction ==
    ASSUME NEW S, NEW s \in Seq(S), NEW n \in Nat, n = Len(s), NEW e \in S
    PROVE  [i \in 1..(n + 1) |-> IF i = n + 1 THEN e ELSE s[i]] = Append(s, e)
<1> DEFINE r == [i \in 1..(n + 1) |-> IF i = n + 1 THEN e ELSE s[i]]
<1>1. /\ Append(s, e) \in Seq(S)
      /\ Len(Append(s, e)) = n + 1
      /\ \A i \in 1..n : Append(s, e)[i] = s[i]
      /\ Append(s, e)[n + 1] = e
  BY AppendProperties
<1>2. r \in Seq(S) /\ Len(r) = n + 1
  OBVIOUS
<1>3. \A i \in 1..(n + 1) : r[i] = Append(s, e)[i]
  BY <1>1
<1> HIDE DEF r
<1>4. r = Append(s, e)
  BY <1>1, <1>2, <1>3, SeqEqual
<1> QED BY <1>4 DEF r

LEMMA TailAsFunction ==
    ASSUME NEW S, NEW s \in Seq(S), NEW n \in Nat, n = Len(s), s # <<>>
    PROVE  [i \in 1..(n - 1) |-> IF i < 1 THEN s[i] ELSE s[i + 1]] = Tail(s)
<1> DEFINE r == [i \in 1..(n - 1) |-> IF i < 1 THEN s[i] ELSE s[i + 1]]
<1>1. /\ Tail(s) \in Seq(S)
      /\ Len(Tail(s)) = n - 1
      /\ \A i \in 1..(n - 1) : Tail(s)[i] = s[i + 1]
  BY HeadTailProperties
<1>2. n # 0
  BY EmptySeq
<1>3. r \in Seq(S) /\ Len(r) = n - 1
  BY <1>2
<1>4. \A i \in 1..(n - 1) : r[i] = Tail(s)[i]
  BY <1>1
<1> HIDE DEF r
<1>5. r = Tail(s)
  BY <1>1, <1>3, <1>4, SeqEqual
<1> QED BY <1>5 DEF r

\* Appending to the list appends to the sequence.
LEMMA SeqOfAppend ==
    ASSUME NEW q \in ReadyQueues, WellFormed(q), NEW tcb \in Plugin, ~q.queued[tcb]
    PROVE  SeqOf(tcb_sched_append(q, tcb)) = Append(SeqOf(q), tcb)
<1> DEFINE s == SeqOf(q)
           n == Len(s)
           r == [i \in 1..(n + 1) |-> IF i = n + 1 THEN tcb ELSE s[i]]
<1>1. /\ s \in Seq(Plugin)
      /\ n \in 0..Cardinality(Plugin)
      /\ s \in [1..n -> Plugin]
      /\ Represents(q, n, s)
  BY SeqOfWellFormed
<1>2. n \in Nat
  BY <1>1, FS_CardinalityType, PluginAssumption
<1> HIDE DEF s, n
<1>3. r \in [1..(n + 1) -> Plugin] /\ Represents(tcb_sched_append(q, tcb), n + 1, r)
  BY <1>1, <1>2, AppendRepresents
<1>4. n + 1 \in 0..Cardinality(Plugin)
  <2>1. /\ \A i, j \in 1..n : s[i] = s[j] => i = j
        /\ \A i \in 1..n : s[i] # tcb
    BY <1>1, <1>2 DEF Represents
  <2> QED BY <1>1, <1>2, <2>1, RoomForOneMore
<1>5. SeqOf(tcb_sched_append(q, tcb)) = r
  <2> HIDE DEF r
  <2> QED BY <1>3, <1>4, SeqOfIs
<1>6. r = Append(s, tcb)
  BY <1>1, <1>2, AppendAsFunction DEF n
<1> QED BY <1>5, <1>6 DEF s

\* Enqueueing puts the TCB in front of the sequence.
LEMMA SeqOfEnqueue ==
    ASSUME NEW q \in ReadyQueues, WellFormed(q), NEW tcb \in Plugin, ~q.queued[tcb]
    PROVE  SeqOf(tcb_sched_enqueue(q, tcb)) = <<tcb>> \o SeqOf(q)
<1> DEFINE s == SeqOf(q)
           n == Len(s)
           r == [i \in 1..(n + 1) |-> IF i = 1 THEN tcb ELSE s[i - 1]]
<1>1. /\ s \in Seq(Plugin)
      /\ n \in 0..Cardinality(Plugin)
      /\ s \in [1..n -> Plugin]
      /\ Represents(q, n, s)
  BY SeqOfWellFormed
<1>2. n \in Nat
  BY <1>1, FS_CardinalityType, PluginAssumption
<1> HIDE DEF s, n
<1>3. r \in [1..(n + 1) -> Plugin] /\ Represents(tcb_sched_enqueue(q, tcb), n + 1, r)
  BY <1>1, <1>2, EnqueueRepresents
<1>4. n + 1 \in 0..Cardinality(Plugin)
  <2>1. /\ \A i, j \in 1..n : s[i] = s[j] => i = j
        /\ \A i \in 1..n : s[i] # tcb
    BY <1>1, <1>2 DEF Represents
  <2> QED BY <1>1, <1>2, <2>1, RoomForOneMore
<1>5. SeqOf(tcb_sched_enqueue(q, tcb)) = r
  <2> HIDE DEF r
  <2> QED BY <1>3, <1>4, SeqOfIs
<1>6. r = <<tcb>> \o s
  BY <1>1, <1>2 DEF n
<1> QED BY <1>5, <1>6 DEF s

\* Dequeueing the head leaves the tail of the sequence.
LEMMA SeqOfDequeueHead ==
    ASSUME NEW q \in ReadyQueues, WellFormed(q), q.head # NULL
    PROVE  SeqOf(tcb_sched_dequeue(q, q.head)) = Tail(SeqOf(q))
<1> DEFINE s == SeqOf(q)
           n == Len(s)
           r == [i \in 1..(n - 1) |-> IF i < 1 THEN s[i] ELSE s[i + 1]]
<1>1. /\ s \in Seq(Plugin)
      /\ n \in 0..Cardinality(Plugin)
      /\ s \in [1..n -> Plugin]
      /\ Represents(q, n, s)
      /\ s # <<>>
  BY SeqOfWellFormed
<1>2. n \in Nat /\ n - 1 \in 0..Cardinality(Plugin) /\ 1 \in 1..n /\ s[1] = q.head
  <2>1. n \in Nat /\ n # 0
    BY <1>1, FS_CardinalityType, PluginAssumption
  <2> HIDE DEF s, n
  <2> QED BY <1>1, <2>1, FS_CardinalityType, PluginAssumption DEF Represents
<1> HIDE DEF s, n
<1>3. r \in [1..(n - 1) -> Plugin] /\ Represents(tcb_sched_dequeue(q, s[1]), n - 1, r)
  BY <1>1, <1>2, DequeueRepresents
<1>4. SeqOf(tcb_sched_dequeue(q, q.head)) = r
  <2> HIDE DEF r
  <2> QED BY <1>2, <1>3, SeqOfIs
<1>5. r = Tail(s)
  BY <1>1, <1>2, TailAsFunction DEF n
<1> QED BY <1>4, <1>5 DEF s

----------------------------------------------------------------------------
(* Every step of the kernel is a step of the abstract scheduler *)

\* The thread the loop left last, and every thread that ever sent, has run.
RanInv ==
    /\ mode = "main" /\ ksCurThread \in Plugin =>
           context[ksCurThread] \in {SchedContext(ksCurThread), MainContext}
    /\ \A t \in Plugin : tsType[t] # "Inactive" =>
           \/ mode \in {"user", "panic", "wild"} /\ t = ksCurThread
           \/ context[t] \in {SchedContext(t), MainContext}

\* It holds at power-on: no plugin is current and none has sent.
LEMMA RanInit == Init => RanInv
BY DEF Init, RanInv

\* Every step keeps it.
LEMMA RanNext == KernelInv /\ RanInv /\ [Next]_vars => RanInv'
<1> SUFFICES ASSUME KernelInv, RanInv, [Next]_vars PROVE RanInv'
  OBVIOUS
<1>0. /\ mode # "boot" => ksCurThread \in Tcb
      /\ mode = "user" => ksCurThread \in Plugin
      /\ context \in [Tcb -> Contexts]
      /\ tsType \in [Plugin -> {"Inactive", "Running", "BlockedOnSend"}]
      /\ Plugin \subseteq Tcb
      /\ epq.head # NULL => epq.head \in Plugin /\ tsType[epq.head] = "BlockedOnSend"
      /\ mode = "user" => context[oldThread] = MainContext
  BY DEF KernelInv, ControlInv, TypeOK, Tcb, EndpointHoldsSender, EndpointQueues,
         PluginOrNull, UserModeReady
<1>1. ASSUME NEW t \in Plugin, ipc_test(t) PROVE RanInv'
  BY <1>1 DEF RanInv, ipc_test, ipcVars
<1>2. ASSUME NEW t \in Plugin, load_plugin(t) PROVE RanInv'
  BY <1>0, <1>2, ContextsDiffer DEF RanInv, load_plugin, ipcVars
<1>3. CASE enter_loop
  BY <1>3, KernelAssumption DEF RanInv, enter_loop, ipcVars
<1>4. CASE schedule_idle
  BY <1>4 DEF RanInv, schedule_idle, ipcVars
<1>5. CASE schedule_user
  <2>1. mode = "main" /\ mode' \in {"user", "wild"} /\ tsType' = tsType
    BY <1>5 DEF schedule_user, ipcVars
  <2>2. context' = [context EXCEPT ![ksCurThread] = MainContext]
    BY <1>5 DEF schedule_user, switch_to_thread
  <2>3. \A t \in Plugin : context'[t] \in {context[t], MainContext}
    BY <1>0, <2>2
  <2> QED BY <2>1, <2>3 DEF RanInv
<1>6. CASE schedule_return
  <2>1. mode = "main" /\ mode' = "main" /\ tsType' = tsType /\ context[rq.head] = MainContext
    BY <1>6 DEF schedule_return, ipcVars
  <2>2. /\ context' = [context EXCEPT ![ksCurThread] = MainContext]
        /\ ksCurThread' = rq.head
    BY <1>6 DEF schedule_return, switch_to_thread
  <2>3. \A t \in Plugin : context'[t] \in {context[t], MainContext}
    BY <1>0, <2>2
  <2> QED BY <2>1, <2>2, <2>3 DEF RanInv
<1>7. CASE sys_exit
  <2>1. mode = "user" /\ mode' = "main" /\ tsType' = tsType /\ ksCurThread' = ksCurThread
    BY <1>0, <1>7 DEF sys_exit, ipcVars
  <2>2. context' = [context EXCEPT ![ksCurThread] = SchedContext(ksCurThread)]
    BY <1>7 DEF sys_exit
  <2>3. /\ context'[ksCurThread] = SchedContext(ksCurThread)
        /\ \A t \in Plugin : t # ksCurThread => context'[t] = context[t]
    BY <1>0, <2>1, <2>2
  <2> QED BY <2>1, <2>3 DEF RanInv
<1>8. CASE sys_send
  BY <1>0, <1>8 DEF RanInv, sys_send, schedVars
<1>9. CASE sys_receive
  <2>1. /\ mode = "user" /\ UNCHANGED <<ksCurThread, context, mode>>
        /\ tsType' = [tsType EXCEPT ![epq.head] = "Running"]
        /\ epq.head # NULL
    BY <1>9 DEF sys_receive
  <2> QED BY <1>0, <2>1 DEF RanInv
<1>10. CASE sys_receive_none \/ sys_wild \/ sys_panic
  BY <1>10 DEF RanInv, sys_receive_none, sys_wild, sys_panic, schedVars, ipcVars
<1>11. CASE halted \/ UNCHANGED vars
  BY <1>11 DEF RanInv, halted, vars
<1> QED
  BY <1>1, <1>2, <1>3, <1>4, <1>5, <1>6, <1>7, <1>8, <1>9, <1>10, <1>11 DEF Next

\* Power-on: nothing is ready, nothing runs and every plugin is fresh.
LEMMA RefinesInit == Init => Sched!Init
<1> SUFFICES ASSUME Init PROVE Sched!Init
  OBVIOUS
<1>1. SeqOf(rq) = <<>>
  <2>1. rq \in ReadyQueues /\ WellFormed(rq) /\ rq.head = NULL
    BY EmptyWellFormed DEF Init, EmptyReadyQueue
  <2> QED BY <2>1, SeqOfWellFormed
<1>2. Running = NULL /\ Resumable = NULL
  BY DEF Init, Running, Resumable
<1>3. Fresh = Plugin
  BY <1>2, PluginAssumption DEF Init, Fresh, Tcb
<1> QED BY <1>1, <1>2, <1>3 DEF Sched!Init

\* Boot: appending a TCB admits it; loading and entering the loop change nothing
\* the scheduler promises.
LEMMA RefinesBoot ==
    ASSUME KernelInv, (\E t \in Plugin : ipc_test(t) \/ load_plugin(t)) \/ enter_loop
    PROVE  [Sched!Next]_(Sched!schedulerVars)
<1>0. /\ mode = "boot" /\ Running = NULL /\ Resumable = NULL
      /\ context \in [Tcb -> Contexts] /\ Plugin \subseteq Tcb
      /\ \A t \in Plugin : context[t] \in {NoContext, ForkretContext(t)}
      /\ rq \in ReadyQueues /\ WellFormed(rq)
  BY DEF ipc_test, load_plugin, enter_loop, Running, Resumable, KernelInv, ControlInv,
         TypeOK, ReadyQueueWellFormed, Tcb
<1>1. ASSUME NEW t \in Plugin, ipc_test(t) PROVE Sched!Next
  <2>1. ~rq.queued[t] /\ rq' = tcb_sched_append(rq, t)
    BY <1>1 DEF ipc_test
  <2>2. SeqOf(rq') = Append(SeqOf(rq), t)
    BY <1>0, <2>1, SeqOfAppend
  <2>3. UNCHANGED <<Running, Fresh, Resumable>>
    BY <1>1 DEF ipc_test, Running, Fresh, Resumable
  <2>4. ~Sched!InReady(t)
    BY <1>0, <2>1, SeqOfWellFormed DEF Sched!InReady
  <2>5. t \in Fresh
    BY <1>0, PluginAssumption DEF Fresh
  <2>6. Sched!Admit(t)
    BY <1>0, <2>2, <2>3, <2>4, <2>5 DEF Sched!Admit
  <2> QED BY <2>6 DEF Sched!Next
<1>2. ASSUME NEW t \in Plugin, load_plugin(t) PROVE UNCHANGED Sched!schedulerVars
  <2>1. UNCHANGED <<rq, mode, ksCurThread>>
    BY <1>2 DEF load_plugin
  <2>2. \A u \in Plugin : context'[u] \in {NoContext, ForkretContext(u)}
    BY <1>0, <1>2 DEF load_plugin
  <2>3. Running' = NULL /\ Resumable' = NULL
    BY <1>0, <2>1 DEF Running, Resumable
  <2>4. Fresh = Plugin /\ Fresh' = Plugin
    BY <1>0, <2>2, <2>3, PluginAssumption DEF Fresh
  <2> QED BY <1>0, <2>1, <2>3, <2>4 DEF Sched!schedulerVars
<1>3. ASSUME enter_loop PROVE UNCHANGED Sched!schedulerVars
  <2>1. UNCHANGED <<rq, context>> /\ mode' = "main" /\ ksCurThread' = BootThread
    BY <1>3 DEF enter_loop
  <2>2. Running' = NULL /\ Resumable' = NULL
    BY <2>1, KernelAssumption DEF Running, Resumable
  <2>3. Fresh = Fresh'
    BY <1>0, <2>1, <2>2 DEF Fresh
  <2> QED BY <1>0, <2>1, <2>2, <2>3 DEF Sched!schedulerVars
<1> QED BY <1>1, <1>2, <1>3

\* The loop: an iteration that finds a thread dispatches it, whether it really
\* runs or its overwritten context returns at once.
LEMMA RefinesLoop ==
    ASSUME KernelInv, RanInv, schedule_idle \/ schedule_user \/ schedule_return
    PROVE  [Sched!Next]_(Sched!schedulerVars)
<1>1. CASE schedule_idle
  <2>1. UNCHANGED <<rq, mode, ksCurThread, context>>
    BY <1>1 DEF schedule_idle
  <2> QED BY <2>1 DEF Sched!schedulerVars, Running, Fresh, Resumable
<1>2. CASE schedule_user \/ schedule_return
  <2>1. mode = "main" /\ rq.head # NULL /\ switch_to_thread(rq.head)
    BY <1>2 DEF schedule_user, schedule_return
  <2>2. /\ rq \in ReadyQueues /\ WellFormed(rq)
        /\ rq.head \in Plugin
        /\ context'[ksCurThread] = MainContext
        /\ \A t \in Plugin : t # ksCurThread => context'[t] = context[t]
    BY <2>1, SwitchFacts DEF KernelInv, TypeOK, ReadyQueueWellFormed
  <2>3. SeqOf(rq') = Tail(SeqOf(rq)) /\ SeqOf(rq) # <<>> /\ Head(SeqOf(rq)) = rq.head
    BY <2>1, <2>2, SeqOfDequeueHead, SeqOfWellFormed DEF switch_to_thread
  <2>4. Running = NULL /\ ksCurThread' = rq.head
    BY <2>1 DEF Running, switch_to_thread
  <2>5. \A t \in Plugin : context'[t] \in {NoContext, ForkretContext(t)} <=>
                          context[t] \in {NoContext, ForkretContext(t)}
    BY <2>1, <2>2, ContextsDiffer DEF RanInv
  <2>6. rq.head \in Fresh <=> context[rq.head] \in {NoContext, ForkretContext(rq.head)}
    BY <2>2, <2>4, PluginAssumption DEF Fresh
  <2>7. rq.head = Resumable <=> context[rq.head] = SchedContext(rq.head)
    BY <2>1, <2>2, PluginAssumption DEF Resumable, KernelInv, ExitIsFinal
  <2>8. /\ Running' = IF rq.head \in Fresh \cup {Resumable} THEN rq.head ELSE NULL
        /\ Resumable' = NULL
    <3>1. CASE schedule_user
      <4>1. context[rq.head] \in {ForkretContext(rq.head), SchedContext(rq.head)}
        BY <2>1, <2>2, <3>1 DEF schedule_user, KernelInv, ExitIsFinal
      <4>2. mode' = "user"
        BY <3>1, <4>1 DEF schedule_user
      <4> QED BY <2>4, <2>6, <2>7, <4>1, <4>2 DEF Running, Resumable
    <3>2. CASE schedule_return
      <4>1. context[rq.head] = MainContext /\ mode' = "main"
        BY <3>2 DEF schedule_return
      <4>2. context'[rq.head] = MainContext
        BY <2>2, <4>1
      <4> QED BY <2>4, <2>6, <2>7, <4>1, <4>2, ContextsDiffer DEF Running, Resumable
    <3> QED BY <1>2, <3>1, <3>2
  <2>9. Fresh' = Fresh \ {rq.head}
    <3>1. Running' = rq.head \/ (Running' = NULL /\ rq.head \notin Fresh)
      BY <2>8
    <3> QED BY <2>2, <2>4, <2>5, <3>1, PluginAssumption DEF Fresh
  <2>10. Sched!Dispatch
    BY <2>3, <2>4, <2>8, <2>9 DEF Sched!Dispatch
  <2> QED BY <2>10 DEF Sched!Next
<1> QED BY <1>1, <1>2

\* System calls: exit() yields, a receive wakes a sender that is not ready, and
\* the rest change nothing the scheduler promises.
LEMMA RefinesSyscall ==
    ASSUME KernelInv, RanInv,
           sys_exit \/ sys_send \/ sys_receive \/ sys_receive_none \/ sys_wild \/ sys_panic
    PROVE  [Sched!Next]_(Sched!schedulerVars)
<1>0. /\ mode = "user" /\ ksCurThread \in Plugin
      /\ Running = ksCurThread /\ Running # NULL /\ Resumable = NULL
      /\ context \in [Tcb -> Contexts] /\ Plugin \subseteq Tcb
      /\ rq \in ReadyQueues /\ WellFormed(rq)
  BY PluginAssumption DEF sys_exit, sys_send, sys_receive, sys_receive_none, sys_wild, sys_panic,
     Running, Resumable, KernelInv, ControlInv, TypeOK, ReadyQueueWellFormed, Tcb
<1>1. CASE sys_exit
  <2>1. /\ UNCHANGED <<rq, ksCurThread>>
        /\ mode' = "main"
        /\ context' = [context EXCEPT ![ksCurThread] = SchedContext(ksCurThread)]
    BY <1>0, <1>1 DEF sys_exit, KernelInv, UserModeReady
  <2>2. /\ context'[ksCurThread] = SchedContext(ksCurThread)
        /\ \A t \in Plugin : t # ksCurThread => context'[t] = context[t]
    BY <1>0, <2>1
  <2>3. Running' = NULL /\ Resumable' = ksCurThread
    BY <1>0, <2>1, <2>2 DEF Running, Resumable
  <2>4. Fresh' = Fresh
    BY <1>0, <2>2, <2>3, PluginAssumption, ContextsDiffer DEF Fresh
  <2>5. Sched!Yield
    BY <1>0, <2>1, <2>3, <2>4 DEF Sched!Yield
  <2> QED BY <2>5 DEF Sched!Next
<1>2. CASE sys_send
  <2>1. UNCHANGED <<rq, mode, ksCurThread, context>>
    BY <1>2 DEF sys_send, schedVars
  <2> QED BY <2>1 DEF Sched!schedulerVars, Running, Fresh, Resumable
<1>3. CASE sys_receive
  <2>1. UNCHANGED <<mode, ksCurThread, context>>
    BY <1>3 DEF sys_receive
  <2>2. UNCHANGED <<Running, Fresh, Resumable>>
    BY <2>1 DEF Running, Fresh, Resumable
  <2>3. epq.head \in Plugin /\ tsType[epq.head] # "Inactive"
    BY <1>3 DEF sys_receive, KernelInv, TypeOK, EndpointHoldsSender, EndpointQueues,
                PluginOrNull
  <2>4. epq.head \notin Fresh
    BY <1>0, <2>3, ContextsDiffer DEF RanInv, Fresh
  <2>5. rq' = tcb_sched_enqueue(rq, epq.head)
    <3> DEFINE s == possible_switch_to(SchedState(rq, ksSchedulerAction), epq.head)
    <3>1. rq' = s.rq
      BY <1>3 DEF sys_receive
    <3>2. s = SchedState(tcb_sched_enqueue(rq, epq.head), SchedulerAction_ChooseNewThread)
      BY <1>0, PossibleSwitchQueues DEF KernelInv, UserModeReady
    <3> HIDE DEF s
    <3> QED BY <3>1, <3>2 DEF SchedState
  <2>6. CASE rq.queued[epq.head]
    <3>1. rq' = rq
      BY <2>5, <2>6 DEF tcb_sched_enqueue
    <3> QED BY <2>2, <3>1 DEF Sched!schedulerVars
  <2>7. CASE ~rq.queued[epq.head]
    <3>1. SeqOf(rq') = <<epq.head>> \o SeqOf(rq)
      BY <1>0, <2>3, <2>5, <2>7, SeqOfEnqueue
    <3>2. ~Sched!InReady(epq.head)
      BY <1>0, <2>3, <2>7, SeqOfWellFormed DEF Sched!InReady
    <3>3. Sched!Wake(epq.head)
      BY <1>0, <2>2, <2>4, <3>1, <3>2 DEF Sched!Wake
    <3> QED BY <2>3, <3>3 DEF Sched!Next
  <2> QED BY <2>6, <2>7
<1>4. CASE sys_receive_none \/ sys_wild \/ sys_panic
  <2>1. UNCHANGED <<rq, ksCurThread, context>> /\ mode' \in {"panic", "wild"}
    BY <1>4 DEF sys_receive_none, sys_wild, sys_panic, schedVars
  <2>2. Running' = Running /\ Resumable' = Resumable
    BY <1>0, <2>1 DEF Running, Resumable
  <2>3. Fresh' = Fresh
    BY <2>1, <2>2 DEF Fresh
  <2> QED BY <2>1, <2>2, <2>3 DEF Sched!schedulerVars
<1> QED BY <1>1, <1>2, <1>3, <1>4

\* For any number of plugins, the linked ready queue, the saved contexts and the
\* system calls together behave as the abstract scheduler.
THEOREM RefinementCorrect == Spec => ImplementsScheduler
<1>1. Spec => [](KernelInv /\ RanInv)
  <2>1. Init => KernelInv /\ RanInv
    BY InitInv, RanInit
  <2>2. (KernelInv /\ RanInv) /\ [Next]_vars => (KernelInv /\ RanInv)'
    BY NextInv, RanNext
  <2> QED BY <2>1, <2>2, PTL DEF Spec
<1>2. KernelInv /\ RanInv /\ [Next]_vars => [Sched!Next]_(Sched!schedulerVars)
  <2> SUFFICES ASSUME KernelInv, RanInv, [Next]_vars
               PROVE  [Sched!Next]_(Sched!schedulerVars)
    OBVIOUS
  <2>1. CASE halted \/ UNCHANGED vars
    <3>1. UNCHANGED <<rq, mode, ksCurThread, context>>
      BY <2>1 DEF halted, vars
    <3> QED BY <3>1 DEF Sched!schedulerVars, Running, Fresh, Resumable
  <2> QED BY <2>1, RefinesBoot, RefinesLoop, RefinesSyscall DEF Next
<1> QED BY <1>1, <1>2, RefinesInit, PTL DEF Spec, ImplementsScheduler, Sched!Spec

----------------------------------------------------------------------------
(* Messages *)

\* The types that a receive relies on; a history record is well formed.
MsgType ==
    /\ rsi \in [Plugin -> Tag]
    /\ ipcBuffer \in [Plugin -> Buffer]
    /\ msgInfo = [t \in Plugin |-> msgInfo[t]]
    /\ sent \in [Plugin -> [pending : BOOLEAN, touched : BOOLEAN, words : Seq(Word)]]

\* Until the sender touches it, a message that waits is what the sender's frame
\* and buffer say now.  A call that stops the kernel leaves another tag behind.
PendingInv ==
    mode \notin {"panic", "wild"} =>
        \A t \in Plugin : sent[t].pending /\ ~sent[t].touched
                              => sent[t].words = MessageOf(t, rsi[t])

MsgInv == MsgType /\ PendingInv /\ ReceivedOnce

\* Bounds on what a receiver gets and on what the history keeps.
BoundsInv ==
    /\ msgInfo \in [Plugin -> [length : 0..Os_MsgMaxLength, extraCaps : {0}]]
    /\ Len(currentExtraCaps) <= Os_MsgMaxExtraCaps
    /\ canGrant \in BOOLEAN
    /\ \A t \in Plugin : Len(sent[t].words) <= Os_MsgMaxLength

----------------------------------------------------------------------------
(* Words *)

\* messageinfo_from_u64() never leaves more words than the buffer has.
LEMMA LengthFits ==
    ASSUME NEW tag \in Tag
    PROVE  messageinfo_from_u64(tag).length \in 0 .. Os_MsgMaxLength
<1>1. tag.length \in Nat /\ Os_MsgMaxLength \in Nat
  BY IpcAssumption DEF Tag
<1>2. Min({tag.length, Os_MsgMaxLength}) \in 0 .. Os_MsgMaxLength
  BY <1>1 DEF Min
<1> QED BY <1>2 DEF messageinfo_from_u64, Tag

\* The first words of a buffer, as a sequence.
LEMMA FirstWords ==
    ASSUME NEW b \in Buffer, NEW n \in 0 .. Os_MsgMaxLength
    PROVE  /\ SubSeq(b, 1, n) \in Seq(Word)
           /\ Len(SubSeq(b, 1, n)) = n
           /\ \A i \in 1..n : SubSeq(b, 1, n)[i] = b[i]
<1>1. b \in Seq(Word) /\ Len(b) = Os_MsgMaxLength
  BY IpcAssumption, IsASeq DEF Buffer
<1> QED BY <1>1, SubSeqProperties, IpcAssumption

\* copyMRs() leaves the first n words of the sender in the receiver's buffer.
LEMMA CopyWords ==
    ASSUME NEW s \in Buffer, NEW r \in Buffer, NEW n \in 0 .. Os_MsgMaxLength
    PROVE  /\ copyMRs(s, r, n).count = n
           /\ copyMRs(s, r, n).buffer \in Buffer
           /\ SubSeq(copyMRs(s, r, n).buffer, 1, n) = SubSeq(s, 1, n)
<1> DEFINE c == copyMRs(s, r, n).buffer
<1>1. c = [i \in 1..Os_MsgMaxLength |-> IF i <= n THEN s[i] ELSE r[i]]
  BY DEF copyMRs
<1>2. c \in Buffer /\ \A i \in 1..n : c[i] = s[i]
  BY <1>1, IpcAssumption DEF Buffer
<1> HIDE DEF c
<1>3. /\ SubSeq(c, 1, n) \in Seq(Word) /\ Len(SubSeq(c, 1, n)) = n
      /\ \A i \in 1..n : SubSeq(c, 1, n)[i] = c[i]
  BY <1>2, FirstWords
<1>4. /\ SubSeq(s, 1, n) \in Seq(Word) /\ Len(SubSeq(s, 1, n)) = n
      /\ \A i \in 1..n : SubSeq(s, 1, n)[i] = s[i]
  BY FirstWords
<1>5. SubSeq(c, 1, n) = SubSeq(s, 1, n)
  BY <1>2, <1>3, <1>4, SeqEqual
<1> QED BY <1>2, <1>5 DEF copyMRs, c

----------------------------------------------------------------------------
(* Messages do not change what the kernel does *)

\* Without the messages, every step is a step of Kernel or changes nothing there.
LEMMA KernelStep == [IpcNext]_allVars => [Next]_vars
BY DEF IpcNext, Next, allVars, user_store, other_call, exit, send, receive,
       transfer_wild, stop, kernel_step

LEMMA IpcKernelInv == IpcSpec => []KernelInv
<1>1. IpcInit => KernelInv
  BY InitInv DEF IpcInit
<1>2. KernelInv /\ [IpcNext]_allVars => KernelInv'
  BY KernelStep, NextInv
<1> QED BY <1>1, <1>2, PTL DEF IpcSpec

----------------------------------------------------------------------------
(* The invariant *)

LEMMA MsgInvInit == IpcInit => MsgInv
<1> SUFFICES ASSUME IpcInit PROVE MsgInv
  OBVIOUS
<1>1. NoTag \in Tag
  BY IpcAssumption DEF NoTag, Tag
<1>2. <<>> \in Seq(Word)
  OBVIOUS
<1>3. MsgType
  BY <1>1, <1>2 DEF IpcInit, MsgType, Nothing, Buffer
<1>4. PendingInv
  BY DEF IpcInit, PendingInv, Nothing
<1>5. epq.head = NULL
  BY DEF IpcInit, Init
<1> QED BY <1>3, <1>4, <1>5 DEF MsgInv, ReceivedOnce

\* What the steps of a plugin find: who runs and, in the endpoint, who sent.
LEMMA WhoRuns ==
    ASSUME KernelInv, mode = "user"
    PROVE  ksCurThread \in Plugin /\ epq.head \in Plugin \cup {NULL}
BY DEF KernelInv, ControlInv, TypeOK, EndpointQueues, PluginOrNull

\* A plugin that changes its own buffer touches its message.
LEMMA StoreKeeps ==
    ASSUME KernelInv, MsgInv, NEW words \in Buffer, user_store(words)
    PROVE  MsgInv'
<1>1. ksCurThread \in Plugin
  BY WhoRuns DEF user_store
<1>2. \A t \in Plugin : /\ t # ksCurThread => sent'[t] = sent[t] /\ ipcBuffer'[t] = ipcBuffer[t]
                        /\ sent'[t].pending = sent[t].pending
  BY <1>1 DEF user_store, MsgInv, MsgType
<1>3. sent'[ksCurThread].touched
  BY <1>1 DEF user_store, MsgInv, MsgType
<1>4. UNCHANGED <<mode, epq, rsi, msgInfo>>
  BY DEF user_store, vars
<1>5. MsgType'
  BY <1>1, <1>4 DEF user_store, MsgInv, MsgType
<1>6. PendingInv'
  BY <1>2, <1>3, <1>4 DEF MsgInv, PendingInv, MessageOf
<1>7. ReceivedOnce'
  <2>1. epq.head \in Plugin \cup {NULL}
    BY WhoRuns DEF user_store
  <2> QED BY <1>2, <1>4, <2>1 DEF MsgInv, ReceivedOnce
<1> QED BY <1>5, <1>6, <1>7 DEF MsgInv

\* A call that neither sends nor receives, with another tag, touches it too.
LEMMA CallKeeps ==
    ASSUME KernelInv, MsgInv, NEW tag \in Tags, trap(tag), touch(tag),
           mode = "user", UNCHANGED <<epq, ipcBuffer, msgInfo>>
    PROVE  MsgInv'
<1>1. ksCurThread \in Plugin /\ tag \in Tag
  BY WhoRuns, IpcAssumption
<1>2. /\ rsi' = [rsi EXCEPT ![ksCurThread] = tag]
      /\ sent' = [sent EXCEPT ![ksCurThread].touched = @ \/ tag # rsi[ksCurThread]]
  BY DEF trap, touch
<1>3. \A t \in Plugin : /\ sent'[t].pending = sent[t].pending
                        /\ sent'[t].words = sent[t].words
                        /\ ~sent'[t].touched => ~sent[t].touched /\ rsi'[t] = rsi[t]
  BY <1>1, <1>2 DEF MsgInv, MsgType
<1>4. MsgType'
  BY <1>1, <1>2 DEF MsgInv, MsgType
<1>5. PendingInv'
  BY <1>3 DEF MsgInv, PendingInv, MessageOf
<1>6. ReceivedOnce'
  <2>1. epq.head \in Plugin \cup {NULL}
    BY WhoRuns
  <2> QED BY <1>3, <2>1 DEF MsgInv, ReceivedOnce
<1> QED BY <1>4, <1>5, <1>6 DEF MsgInv

\* send() makes its caller the sender in the endpoint, with the message of now.
LEMMA SendKeeps ==
    ASSUME KernelInv, MsgInv, NEW tag \in Tags, send(tag)
    PROVE  MsgInv'
<1>1. ksCurThread \in Plugin /\ tag \in Tag /\ mode = "user"
  BY WhoRuns, IpcAssumption DEF send, sys_send
<1>2. /\ rsi' = [rsi EXCEPT ![ksCurThread] = tag]
      /\ sent' = [sent EXCEPT ![ksCurThread] =
                      [pending |-> TRUE, touched |-> FALSE,
                       words |-> MessageOf(ksCurThread, tag)]]
      /\ UNCHANGED <<ipcBuffer, msgInfo, mode, ksCurThread>>
  BY DEF send, sys_send, trap, schedVars
<1>3. MessageOf(ksCurThread, tag) \in Seq(Word)
  BY <1>1, LengthFits, FirstWords DEF MessageOf, MsgInv, MsgType
<1>4. MsgType'
  BY <1>1, <1>2, <1>3 DEF MsgInv, MsgType
<1>5. /\ rsi'[ksCurThread] = tag
      /\ sent'[ksCurThread] = [pending |-> TRUE, touched |-> FALSE,
                               words |-> MessageOf(ksCurThread, tag)]
      /\ \A t \in Plugin : t # ksCurThread => rsi'[t] = rsi[t] /\ sent'[t] = sent[t]
  BY <1>1, <1>2 DEF MsgInv, MsgType
<1>6. PendingInv'
  <2>1. \A t \in Plugin : sent[t].pending /\ ~sent[t].touched
                              => sent[t].words = MessageOf(t, rsi[t])
    BY <1>1 DEF MsgInv, PendingInv
  <2>2. \A t \in Plugin : t # ksCurThread /\ sent'[t].pending /\ ~sent'[t].touched
                              => sent'[t].words = MessageOf(t, rsi'[t])
    BY <1>5, <2>1
  <2>3. sent'[ksCurThread].words = MessageOf(ksCurThread, rsi'[ksCurThread])
    BY <1>5
  <2>4. \A t \in Plugin : sent'[t].pending /\ ~sent'[t].touched
                              => sent'[t].words = MessageOf(t, rsi'[t])
    BY <2>2, <2>3
  <2> QED BY <1>2, <2>4 DEF PendingInv, MessageOf
<1>7. epq'.head = ksCurThread
  BY <1>1, EpAppend DEF send, sys_send, KernelInv, TypeOK, EndpointHoldsSender
<1>8. ReceivedOnce'
  BY <1>1, <1>5, <1>7 DEF ReceivedOnce
<1> QED BY <1>4, <1>6, <1>8 DEF MsgInv

\* What a receive does to the messages.
LEMMA ReceiveFacts ==
    ASSUME KernelInv, MsgInv, NEW tag \in Tags, receive(tag)
    PROVE  /\ mode = "user" /\ mode' = mode /\ ksCurThread \in Plugin /\ epq.head \in Plugin
           /\ MsgType'
           /\ epq'.head = NULL
           /\ sent'[epq.head] = Nothing
           /\ epq.head # ksCurThread => /\ sent'[ksCurThread].touched
                                        /\ rsi'[epq.head] = rsi[epq.head]
           /\ \A t \in Plugin \ {ksCurThread} : rsi'[t] = rsi[t] /\ ipcBuffer'[t] = ipcBuffer[t]
           /\ \A t \in Plugin \ {ksCurThread, epq.head} : sent'[t] = sent[t]
           /\ LET n == messageinfo_from_u64(rsi'[epq.head]).length
              IN  /\ n \in 0 .. Os_MsgMaxLength
                  /\ msgInfo'[ksCurThread].length = n
                  /\ SubSeq(ipcBuffer'[ksCurThread], 1, n) = SubSeq(ipcBuffer[epq.head], 1, n)
<1>1. mode = "user" /\ mode' = mode /\ ksCurThread \in Plugin /\ epq.head \in Plugin
  BY WhoRuns DEF receive, sys_receive
<1>2. tag \in Tag /\ rsi' = [rsi EXCEPT ![ksCurThread] = tag]
  BY IpcAssumption DEF receive, trap
<1>3. rsi' \in [Plugin -> Tag] /\ \A t \in Plugin \ {ksCurThread} : rsi'[t] = rsi[t]
  BY <1>1, <1>2 DEF MsgInv, MsgType
<1> DEFINE n == messageinfo_from_u64(rsi'[epq.head]).length
           copy == copyMRs(ipcBuffer[epq.head], ipcBuffer[ksCurThread], n)
<1>4. n \in 0 .. Os_MsgMaxLength
  BY <1>1, <1>3, LengthFits
<1>5. /\ copy.count = n /\ copy.buffer \in Buffer
      /\ SubSeq(copy.buffer, 1, n) = SubSeq(ipcBuffer[epq.head], 1, n)
  <2> HIDE DEF n
  <2>1. ipcBuffer[epq.head] \in Buffer /\ ipcBuffer[ksCurThread] \in Buffer
    BY <1>1 DEF MsgInv, MsgType
  <2> QED BY <1>4, <2>1, CopyWords
<1>6. PICK words :
          /\ ipcBuffer' = [ipcBuffer EXCEPT ![ksCurThread] = copy.buffer]
          /\ msgInfo' = [msgInfo EXCEPT ![ksCurThread] =
                             [length |-> copy.count, extraCaps |-> transfer_caps(words)]]
          /\ sent' = [sent EXCEPT ![ksCurThread].touched = TRUE, ![epq.head] = Nothing]
  BY DEF receive
<1> HIDE DEF n, copy
<1>7. msgInfo' = [t \in Plugin |-> msgInfo'[t]] /\ msgInfo'[ksCurThread].length = n
  BY <1>1, <1>5, <1>6 DEF MsgInv, MsgType
<1>8. ipcBuffer' \in [Plugin -> Buffer] /\ ipcBuffer'[ksCurThread] = copy.buffer
      /\ \A t \in Plugin \ {ksCurThread} : ipcBuffer'[t] = ipcBuffer[t]
  BY <1>1, <1>5, <1>6 DEF MsgInv, MsgType
<1>9. Nothing \in [pending : BOOLEAN, touched : BOOLEAN, words : Seq(Word)]
  <2>1. <<>> \in Seq(Word)
    OBVIOUS
  <2> QED BY <2>1 DEF Nothing
<1>10. /\ sent' \in [Plugin -> [pending : BOOLEAN, touched : BOOLEAN, words : Seq(Word)]]
       /\ sent'[epq.head] = Nothing
       /\ epq.head # ksCurThread => sent'[ksCurThread].touched
       /\ \A t \in Plugin \ {ksCurThread, epq.head} : sent'[t] = sent[t]
  BY <1>1, <1>6, <1>9 DEF MsgInv, MsgType
<1>11. epq'.head = NULL
  BY <1>1, EpDequeue DEF receive, sys_receive, KernelInv, TypeOK, EndpointHoldsSender
<1>12. MsgType'
  BY <1>3, <1>7, <1>8, <1>10 DEF MsgType
<1> QED BY <1>1, <1>3, <1>4, <1>5, <1>7, <1>8, <1>10, <1>11, <1>12 DEF n

LEMMA ReceiveKeeps ==
    ASSUME KernelInv, MsgInv, NEW tag \in Tags, receive(tag)
    PROVE  MsgInv'
<1>1. PendingInv'
  BY ReceiveFacts DEF MsgInv, PendingInv, MessageOf, Nothing
<1>2. ReceivedOnce'
  BY ReceiveFacts DEF ReceivedOnce
<1> QED BY <1>1, <1>2, ReceiveFacts DEF MsgInv

\* A call that stops the kernel leaves frame and message apart; nobody receives any more.
LEMMA StopKeeps ==
    ASSUME KernelInv, MsgInv, NEW tag \in Tags, stop(tag) \/ transfer_wild(tag)
    PROVE  MsgInv'
<1>1. ksCurThread \in Plugin /\ tag \in Tag
  BY WhoRuns, IpcAssumption DEF stop, transfer_wild, sys_receive_none, sys_wild, sys_panic
<1>2. /\ rsi' = [rsi EXCEPT ![ksCurThread] = tag]
      /\ UNCHANGED <<ipcBuffer, msgInfo, sent, epq>>
      /\ mode' \in {"panic", "wild"}
  BY DEF stop, transfer_wild, trap, sys_receive_none, sys_wild, sys_panic, ipcVars
<1>3. MsgType'
  BY <1>1, <1>2 DEF MsgInv, MsgType
<1> QED BY <1>2, <1>3 DEF MsgInv, PendingInv, ReceivedOnce

\* Boot, the loop of main() and a stopped kernel do not touch messages.
LEMMA OtherKeeps ==
    ASSUME MsgInv, kernel_step \/ UNCHANGED allVars
    PROVE  MsgInv'
<1>1. UNCHANGED <<msgVars, epq>>
  BY DEF kernel_step, allVars, vars, ipc_test, load_plugin, enter_loop, schedule_idle,
         schedule_user, schedule_return, halted, ipcVars
<1>2. mode' \in {"panic", "wild"} \/ mode \notin {"panic", "wild"}
  BY DEF kernel_step, allVars, vars, ipc_test, load_plugin, enter_loop, schedule_idle,
         schedule_user, schedule_return, halted
<1> QED BY <1>1, <1>2 DEF MsgInv, MsgType, PendingInv, ReceivedOnce, MessageOf, msgVars

LEMMA MsgInvNext == KernelInv /\ MsgInv /\ [IpcNext]_allVars => MsgInv'
<1> SUFFICES ASSUME KernelInv, MsgInv, [IpcNext]_allVars PROVE MsgInv'
  OBVIOUS
<1>1. ASSUME NEW words \in Buffer, user_store(words) PROVE MsgInv'
  BY <1>1, StoreKeeps
<1>2. ASSUME NEW tag \in Tags, other_call(tag) PROVE MsgInv'
  BY <1>2, CallKeeps DEF other_call, vars
<1>3. ASSUME NEW tag \in Tags, exit(tag) PROVE MsgInv'
  BY <1>3, CallKeeps DEF exit, sys_exit, ipcVars
<1>4. ASSUME NEW tag \in Tags, send(tag) PROVE MsgInv'
  BY <1>4, SendKeeps
<1>5. ASSUME NEW tag \in Tags, receive(tag) PROVE MsgInv'
  BY <1>5, ReceiveKeeps
<1>6. ASSUME NEW tag \in Tags, stop(tag) \/ transfer_wild(tag) PROVE MsgInv'
  BY <1>6, StopKeeps
<1>7. CASE kernel_step \/ UNCHANGED allVars
  BY <1>7, OtherKeeps
<1> QED BY <1>1, <1>2, <1>3, <1>4, <1>5, <1>6, <1>7 DEF IpcNext

LEMMA MsgInvariant == IpcSpec => []MsgInv
BY MsgInvInit, MsgInvNext, IpcKernelInv, PTL DEF IpcSpec

----------------------------------------------------------------------------
(* The results *)

\* The sender that receive_ipc() finds in the endpoint has sent since it was last
\* received from.
THEOREM IpcReceivedOnce == IpcSpec => []ReceivedOnce
BY MsgInvariant, PTL DEF MsgInv

\* do_ipc_transfer() delivers what was sent, whatever others did since send().
THEOREM IpcMessageIntact == IpcSpec => MessageIntact
<1> DEFINE Intact ==
      \A t \in Plugin :
          sent[t].pending /\ ~sent'[t].pending
              => \/ sent[t].touched
                 \/ t = ksCurThread
                 \/ /\ msgInfo'[ksCurThread].length = Len(sent[t].words)
                    /\ SubSeq(ipcBuffer'[ksCurThread], 1, Len(sent[t].words)) = sent[t].words
<1>1. ASSUME KernelInv, MsgInv, IpcNext PROVE Intact
  <2> SUFFICES ASSUME NEW t \in Plugin, sent[t].pending, ~sent'[t].pending,
                      ~sent[t].touched, t # ksCurThread
               PROVE  /\ msgInfo'[ksCurThread].length = Len(sent[t].words)
                      /\ SubSeq(ipcBuffer'[ksCurThread], 1, Len(sent[t].words))
                             = sent[t].words
    OBVIOUS
  <2>1. PICK tag \in Tags : receive(tag)
    <3>1. sent'[t] # sent[t]
      OBVIOUS
    <3> QED BY <1>1, <3>1 DEF IpcNext, user_store, other_call, exit, send, transfer_wild, stop, touch,
                kernel_step, msgVars, MsgInv, MsgType
  <2>2. t = epq.head
    BY <1>1, <2>1, ReceiveFacts
  <2> DEFINE n == messageinfo_from_u64(rsi[t]).length
  <2>3. rsi'[t] = rsi[t] /\ n \in 0 .. Os_MsgMaxLength
    BY <1>1, <2>1, <2>2, ReceiveFacts
  <2>4. sent[t].words = SubSeq(ipcBuffer[t], 1, n)
    BY <1>1, <2>1, ReceiveFacts DEF MsgInv, PendingInv, MessageOf
  <2>5. Len(sent[t].words) = n
    <3> HIDE DEF n
    <3> QED BY <1>1, <2>3, <2>4, FirstWords DEF MsgInv, MsgType
  <2> QED BY <1>1, <2>1, <2>2, <2>3, <2>4, <2>5, ReceiveFacts
<1>2. KernelInv /\ MsgInv /\ [IpcNext]_allVars => [Intact]_allVars
  BY <1>1
<1> QED BY <1>2, IpcKernelInv, MsgInvariant, PTL DEF IpcSpec, MessageIntact
----------------------------------------------------------------------------
(* Capabilities *)

\* transfer_caps() takes no capability for one to the endpoint of the message: the
\* address in the capability has lost its upper bits.
LEMMA NeverSameEndpoint ==
    ASSUME NEW word
    PROVE  ~same_endpoint(word)
<1>1. capEPPtr(word)[63] = 0
  BY DEF capEPPtr, Bits
<1>2. KernelAddress(EndpointPage)[63] = 1
  BY DEF KernelAddress, p2v, Bits
<1> QED BY <1>1, <1>2 DEF same_endpoint

\* So the loop of transfer_caps() stops at the first capability, whatever it reads.
LEMMA NothingTransferred ==
    ASSUME NEW words, Len(words) \in Nat
    PROVE  transfer_caps(words) = 0
<1> DEFINE S == {i \in 0..Len(words) : i = Len(words) \/ ~same_endpoint(words[i + 1])}
<1>1. 0 \in S
  BY NeverSameEndpoint
<1>2. \A i \in S : i \in Int /\ 0 <= i
  OBVIOUS
<1> HIDE DEF S
<1>3. Min(S) = 0
  BY <1>1, <1>2 DEF Min
<1> QED BY <1>3 DEF transfer_caps, S

\* lookup_extra_caps() never leaves more capabilities than the tag says.
LEMMA ExtraCaps ==
    ASSUME NEW tag \in Tag, NEW caps \in extra_caps(messageinfo_from_u64(tag))
    PROVE  caps \in Seq(CPtr) /\ Len(caps) <= Os_MsgMaxExtraCaps
<1>1. /\ messageinfo_from_u64(tag).extraCaps = tag.extraCaps
      /\ tag.extraCaps \in Nat /\ tag.extraCaps <= Os_MsgMaxExtraCaps
      /\ Os_MsgMaxExtraCaps \in Nat
  BY IpcAssumption DEF messageinfo_from_u64, Tag
<1>2. CASE caps = <<>>
  BY <1>1, <1>2
<1>3. CASE caps \in [1..tag.extraCaps -> CPtr]
  BY <1>1, <1>3, IsASeq
<1> QED BY <1>1, <1>2, <1>3 DEF extra_caps, lookup_extra_caps

LEMMA BoundsInit == IpcInit => BoundsInv
<1> SUFFICES ASSUME IpcInit PROVE BoundsInv
  OBVIOUS
<1>1. Len(<<>>) = 0
  OBVIOUS
<1> QED BY <1>1, IpcAssumption DEF IpcInit, BoundsInv, NoTag, Nothing

\* Only a receive changes the tag in a register, and only a send the history's words.
LEMMA BoundsNext == KernelInv /\ MsgInv /\ BoundsInv /\ [IpcNext]_allVars => BoundsInv'
<1> SUFFICES ASSUME KernelInv, MsgInv, BoundsInv, [IpcNext]_allVars PROVE BoundsInv'
  OBVIOUS
<1>1. ASSUME NEW words \in Buffer, user_store(words) PROVE BoundsInv'
  BY <1>1 DEF user_store, BoundsInv, MsgInv, MsgType
<1>2. ASSUME NEW tag \in Tags, other_call(tag) \/ exit(tag) PROVE BoundsInv'
  <2>1. UNCHANGED <<msgInfo, currentExtraCaps, canGrant>> /\ touch(tag)
    BY <1>2 DEF other_call, exit, trap
  <2>2. \A t \in Plugin : sent'[t].words = sent[t].words
    BY <2>1 DEF touch, MsgInv, MsgType
  <2> QED BY <2>1, <2>2 DEF BoundsInv
<1>3. ASSUME NEW tag \in Tags, send(tag) PROVE BoundsInv'
  <2>1. ksCurThread \in Plugin /\ tag \in Tag
    BY <1>3, WhoRuns, IpcAssumption DEF send, sys_send
  <2>2. Len(MessageOf(ksCurThread, tag)) <= Os_MsgMaxLength
    BY <2>1, LengthFits, FirstWords, IpcAssumption DEF MessageOf, MsgInv, MsgType
  <2>3. \A t \in Plugin : \/ sent'[t].words = sent[t].words
                          \/ sent'[t].words = MessageOf(ksCurThread, tag)
    BY <1>3, <2>1 DEF send, MsgInv, MsgType
  <2> QED BY <1>3, <2>2, <2>3 DEF send, trap, BoundsInv
<1>4. ASSUME NEW tag \in Tags, receive(tag) PROVE BoundsInv'
  <2> DEFINE n == messageinfo_from_u64(rsi'[epq.head]).length
  <2>1. /\ ksCurThread \in Plugin /\ epq.head \in Plugin /\ MsgType'
        /\ n \in 0 .. Os_MsgMaxLength /\ msgInfo'[ksCurThread].length = n
        /\ sent'[epq.head] = Nothing
        /\ \A t \in Plugin \ {ksCurThread, epq.head} : sent'[t] = sent[t]
    BY <1>4, ReceiveFacts
  <2>2. sent'[ksCurThread].words \in {sent[ksCurThread].words, <<>>}
    BY <1>4, <2>1 DEF receive, MsgInv, MsgType, Nothing
  <2>3. canGrant' = canGrant /\ canGrant \in BOOLEAN
    BY <1>4 DEF receive, trap, BoundsInv
  <2>4. rsi'[epq.head] \in Tag
    BY <2>1 DEF MsgType
  <2>5. PICK caps \in extra_caps(messageinfo_from_u64(rsi'[epq.head])) :
            \E words \in CapWords(caps) :
            /\ currentExtraCaps' = caps
            /\ msgInfo' = [msgInfo EXCEPT ![ksCurThread] =
                               [length |-> copyMRs(ipcBuffer[epq.head], ipcBuffer[ksCurThread], n).count,
                                extraCaps |-> transfer_caps(words)]]
    BY <1>4 DEF receive
  <2>6. caps \in Seq(CPtr) /\ Len(caps) <= Os_MsgMaxExtraCaps
    BY <2>4, <2>5, ExtraCaps
  <2>7. ASSUME NEW words \in CapWords(caps) PROVE transfer_caps(words) = 0
    <3>1. Len(caps) \in Nat /\ DOMAIN words = 1..Len(caps)
      BY <2>6, <2>7 DEF CapWords
    <3>2. words \in [1..Len(caps) -> Range(words)]
      BY <2>7, <3>1 DEF CapWords, Range
    <3>3. words \in Seq(Range(words))
      BY <3>1, <3>2, IsASeq
    <3> QED BY <3>3, NothingTransferred
  <2> HIDE DEF n
  <2>8. copyMRs(ipcBuffer[epq.head], ipcBuffer[ksCurThread], n).count = n
    BY DEF copyMRs
  <2>9. msgInfo' \in [Plugin -> [length : 0..Os_MsgMaxLength, extraCaps : {0}]]
    BY <2>1, <2>5, <2>7, <2>8 DEF BoundsInv
  <2>10. \A t \in Plugin : Len(sent'[t].words) <= Os_MsgMaxLength
    <3>1. Len(<<>>) <= Os_MsgMaxLength /\ Nothing.words = <<>>
      BY IpcAssumption DEF Nothing
    <3>2. \A t \in Plugin : sent'[t].words \in {sent[t].words, <<>>}
      BY <2>1, <2>2, <3>1
    <3> QED BY <3>1, <3>2 DEF BoundsInv
  <2> QED BY <2>3, <2>5, <2>6, <2>9, <2>10 DEF BoundsInv
<1>5. ASSUME NEW tag \in Tags, stop(tag) PROVE BoundsInv'
  BY <1>5 DEF stop, trap, BoundsInv
<1>6. ASSUME NEW tag \in Tags, transfer_wild(tag) PROVE BoundsInv'
  <2>1. ksCurThread \in Plugin /\ epq.head \in Plugin /\ tag \in Tag
    BY <1>6, WhoRuns, IpcAssumption DEF transfer_wild, sys_wild
  <2>2. rsi'[epq.head] \in Tag
    BY <1>6, <2>1 DEF transfer_wild, trap, MsgInv, MsgType
  <2>3. PICK caps \in extra_caps(messageinfo_from_u64(rsi'[epq.head])) : currentExtraCaps' = caps
    BY <1>6 DEF transfer_wild
  <2>4. Len(currentExtraCaps') <= Os_MsgMaxExtraCaps
    BY <2>2, <2>3, ExtraCaps
  <2> QED BY <1>6, <2>4 DEF transfer_wild, trap, BoundsInv
<1>7. CASE kernel_step \/ UNCHANGED allVars
  BY <1>7 DEF kernel_step, allVars, msgVars, BoundsInv
<1> QED BY <1>1, <1>2, <1>3, <1>4, <1>5, <1>6, <1>7 DEF IpcNext

LEMMA BoundsInvariant == IpcSpec => []BoundsInv
BY BoundsInit, BoundsNext, MsgInvariant, IpcKernelInv, PTL DEF IpcSpec

\* The tag a receiver gets, the capabilities it names and the words a send leaves
\* behind are within their bounds, whatever the tags say.
THEOREM IpcTypeCorrect == IpcSpec => []IpcTypeOK
<1>1. ASSUME NEW w \in Seq(Word), Len(w) <= Os_MsgMaxLength
      PROVE  w \in UNION {[1..n -> Word] : n \in 0..Os_MsgMaxLength}
  <2>1. Len(w) \in 0..Os_MsgMaxLength /\ w \in [1..Len(w) -> Word]
    BY <1>1, IpcAssumption
  <2> QED BY <2>1
<1>2. MsgInv /\ BoundsInv => IpcTypeOK
  <2> SUFFICES ASSUME MsgInv, BoundsInv PROVE IpcTypeOK
    OBVIOUS
  <2>1. \A t \in Plugin : sent[t].words \in UNION {[1..n -> Word] : n \in 0..Os_MsgMaxLength}
    BY <1>1 DEF MsgInv, MsgType, BoundsInv
  <2>2. msgInfo \in [Plugin -> [length : 0..Os_MsgMaxLength,
                                extraCaps : 0..Os_MsgMaxExtraCaps]]
    BY IpcAssumption DEF BoundsInv
  <2> QED BY <2>1, <2>2 DEF MsgInv, MsgType, BoundsInv, IpcTypeOK
<1> QED BY <1>2, MsgInvariant, BoundsInvariant, PTL
=============================================================================
