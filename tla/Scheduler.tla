----------------------------- MODULE Scheduler ------------------------------
(***************************************************************************)
(* What the scheduler and its context switch promise, without linked       *)
(* lists, saved contexts or ksSchedulerAction.                             *)
(*                                                                         *)
(* Ready threads form a sequence: boot appends, a wake-up goes to the      *)
(* front, the front is dispatched.  A thread really runs when it is        *)
(* dispatched for the first time.  After it yielded it runs again only if  *)
(* the very next dispatch picks it; any other dispatch makes its yield     *)
(* final, and dispatching it later has no effect.                          *)
(***************************************************************************)
EXTENDS Naturals, Sequences

CONSTANTS Thread, None

VARIABLES
    ready,      \* the ready threads, the next one to dispatch first
    running,    \* the thread in user mode, or None
    fresh,      \* the threads that never ran
    resumable   \* the thread that yielded last, if none was dispatched since

schedulerVars == <<ready, running, fresh, resumable>>

InReady(t) == \E i \in DOMAIN ready : ready[i] = t

Init ==
    /\ ready = <<>>
    /\ running = None
    /\ fresh = Thread
    /\ resumable = None

Admit(t) ==
    /\ running = None
    /\ ~InReady(t)
    /\ t \in fresh
    /\ ready' = Append(ready, t)
    /\ UNCHANGED <<running, fresh, resumable>>

Dispatch ==
    /\ running = None
    /\ ready # <<>>
    /\ ready' = Tail(ready)
    /\ running' = IF Head(ready) \in fresh \cup {resumable} THEN Head(ready) ELSE None
    /\ fresh' = fresh \ {Head(ready)}
    /\ resumable' = None

Wake(t) ==
    /\ running # None
    /\ ~InReady(t)
    /\ t \notin fresh
    /\ ready' = <<t>> \o ready
    /\ UNCHANGED <<running, fresh, resumable>>

Yield ==
    /\ running # None
    /\ running' = None
    /\ resumable' = running
    /\ UNCHANGED <<ready, fresh>>

Next ==
    \/ \E t \in Thread : Admit(t) \/ Wake(t)
    \/ Dispatch
    \/ Yield

Spec == Init /\ [][Next]_schedulerVars
=============================================================================
