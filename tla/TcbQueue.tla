------------------------------ MODULE TcbQueue ------------------------------
(***************************************************************************)
(* The two intrusive doubly linked lists of TCBs of src/object/tcb.c: the  *)
(* ready queue of the scheduler and the waiting queue of an endpoint.      *)
(*                                                                         *)
(* The ready queue is one record, the pair ksReadyQueues together with the *)
(* TCB fields only its three operations write:                             *)
(*   head, end    ksReadyQueues.head, ksReadyQueues.end                    *)
(*   next, prev   tcbSchedNext, tcbSchedPrev of every TCB                  *)
(*   queued       tcbState.tcbQueued of every TCB                          *)
(*                                                                         *)
(* The links of an endpoint queue are one record:                          *)
(*   head, end    the TcbQueue value taken from and put back in the        *)
(*                endpoint                                                 *)
(*   next, prev   tcbEPNext, tcbEPPrev of every TCB                        *)
(***************************************************************************)
EXTENDS Naturals, FiniteSets

CONSTANTS
    Plugin,     \* the TCBs of the loaded plugins
    NULL        \* the null pointer

ASSUME PluginAssumption == IsFiniteSet(Plugin) /\ NULL \notin Plugin

PluginOrNull == Plugin \cup {NULL}

----------------------------------------------------------------------------
(* The ready queue *)

ReadyQueues == [head   : PluginOrNull,
                end    : PluginOrNull,
                next   : [Plugin -> PluginOrNull],
                prev   : [Plugin -> PluginOrNull],
                queued : [Plugin -> BOOLEAN]]

\* Zeroed TCBs and the two assignments of NULL in main().
EmptyReadyQueue == [head   |-> NULL,
                    end    |-> NULL,
                    next   |-> [t \in Plugin |-> NULL],
                    prev   |-> [t \in Plugin |-> NULL],
                    queued |-> [t \in Plugin |-> FALSE]]

\* Mutant: the old last TCB is not linked to the new one.
tcb_sched_append_Unlinked(q, tcb) ==
    IF q.queued[tcb]
    THEN q
    ELSE [head   |-> IF q.head = NULL THEN tcb ELSE q.head,
          end    |-> tcb,
          next   |-> [q.next EXCEPT ![tcb] = NULL],
          prev   |-> [q.prev EXCEPT ![tcb] = q.end],
          queued |-> [q.queued EXCEPT ![tcb] = TRUE]]

\* Add a TCB to the end of the ready queue, unless it is already there.
tcb_sched_append(q, tcb) ==
    IF q.queued[tcb]
    THEN q
    ELSE [head   |-> IF q.head = NULL THEN tcb ELSE q.head,
          end    |-> tcb,
          next   |-> IF q.head = NULL
                     THEN [q.next EXCEPT ![tcb] = NULL]
                     ELSE [q.next EXCEPT ![q.end] = tcb, ![tcb] = NULL],
          prev   |-> [q.prev EXCEPT ![tcb] = q.end],
          queued |-> [q.queued EXCEPT ![tcb] = TRUE]]

\* Mutant: the old first TCB is not linked back to the new one.
tcb_sched_enqueue_Unlinked(q, tcb) ==
    IF q.queued[tcb]
    THEN q
    ELSE [head   |-> tcb,
          end    |-> IF q.head = NULL THEN tcb ELSE q.end,
          next   |-> [q.next EXCEPT ![tcb] = q.head],
          prev   |-> [q.prev EXCEPT ![tcb] = NULL],
          queued |-> [q.queued EXCEPT ![tcb] = TRUE]]

\* Mutant: a woken TCB goes to the end of the queue.
tcb_sched_enqueue_AtEnd(q, tcb) == tcb_sched_append(q, tcb)

\* Add a TCB to the head of the ready queue, unless it is already there.
tcb_sched_enqueue(q, tcb) ==
    IF q.queued[tcb]
    THEN q
    ELSE [head   |-> tcb,
          end    |-> IF q.head = NULL THEN tcb ELSE q.end,
          next   |-> [q.next EXCEPT ![tcb] = q.head],
          prev   |-> IF q.head = NULL
                     THEN [q.prev EXCEPT ![tcb] = NULL]
                     ELSE [q.prev EXCEPT ![q.head] = tcb, ![tcb] = NULL],
          queued |-> [q.queued EXCEPT ![tcb] = TRUE]]

\* Unlink a TCB from the ready queue; its own links keep their old values.
tcb_sched_dequeue(q, tcb) ==
    IF ~q.queued[tcb]
    THEN q
    ELSE [head   |-> IF q.prev[tcb] = NULL THEN q.next[tcb] ELSE q.head,
          end    |-> IF q.next[tcb] = NULL THEN q.prev[tcb] ELSE q.end,
          next   |-> IF q.prev[tcb] = NULL
                     THEN q.next
                     ELSE [q.next EXCEPT ![q.prev[tcb]] = q.next[tcb]],
          prev   |-> IF q.next[tcb] = NULL
                     THEN q.prev
                     ELSE [q.prev EXCEPT ![q.next[tcb]] = q.prev[tcb]],
          queued |-> [q.queued EXCEPT ![tcb] = FALSE]]

----------------------------------------------------------------------------
(* What the ready queue stands for *)

\* Every sequence of at most as many TCBs as there are plugins.
ThreadSeqs == UNION {[1..n -> Plugin] : n \in 0..Cardinality(Plugin)}

\* The linked list q holds exactly the TCBs of s, once each and in that order:
\* both chains of links, both ends and every tcbQueued flag agree with s.
Represents(q, n, s) ==
    /\ \A i, j \in 1..n : s[i] = s[j] => i = j
    /\ q.head = IF n = 0 THEN NULL ELSE s[1]
    /\ q.end = IF n = 0 THEN NULL ELSE s[n]
    /\ \A i \in 1..n : q.next[s[i]] = IF i = n THEN NULL ELSE s[i + 1]
    /\ \A i \in 1..n : q.prev[s[i]] = IF i = 1 THEN NULL ELSE s[i - 1]
    /\ \A t \in Plugin : q.queued[t] <=> \E i \in 1..n : s[i] = t

\* q is a proper doubly linked list.
WellFormed(q) ==
    \E n \in 0..Cardinality(Plugin) : \E s \in [1..n -> Plugin] : Represents(q, n, s)

----------------------------------------------------------------------------
(* An endpoint queue *)

EndpointQueues == [head : PluginOrNull,
                   end  : PluginOrNull,
                   next : [Plugin -> PluginOrNull],
                   prev : [Plugin -> PluginOrNull]]

\* tcb_ep_append has no return statement.  Its caller takes the pair from
\* RAX:RDX, where the code of the build (gcc, OPT = -O0) leaves the TCB and the
\* old queue.end: the caller always gets head = tcb and end = the end it passed.
\* A store through a NULL queue.end goes to page 0 of the calling plugin, which
\* is not kernel state.
tcb_ep_append(q, tcb) ==
    [head |-> tcb,
     end  |-> q.end,
     next |-> IF q.head = NULL \/ q.end = NULL
              THEN [q.next EXCEPT ![tcb] = NULL]
              ELSE [q.next EXCEPT ![q.end] = tcb, ![tcb] = NULL],
     prev |-> [q.prev EXCEPT ![tcb] = q.end]]

\* Mutant: the end of the queue is left as it was and its head is not unlinked.
tcb_ep_dequeue_KeepHead(q, tcb) ==
    [q EXCEPT !.next[tcb] = NULL, !.prev[tcb] = NULL]

\* Remove a TCB from an endpoint queue.
tcb_ep_dequeue(q, tcb) ==
    [head |-> IF q.prev[tcb] = NULL THEN q.next[tcb] ELSE q.head,
     end  |-> IF q.next[tcb] = NULL THEN q.prev[tcb] ELSE q.end,
     next |-> IF q.prev[tcb] = NULL
              THEN q.next
              ELSE [q.next EXCEPT ![q.prev[tcb]] = q.next[tcb]],
     prev |-> IF q.next[tcb] = NULL
              THEN q.prev
              ELSE [q.prev EXCEPT ![q.next[tcb]] = q.prev[tcb]]]
=============================================================================
