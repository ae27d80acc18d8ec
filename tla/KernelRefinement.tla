-------------------------- MODULE KernelRefinement --------------------------
(***************************************************************************)
(* The kernel implements the abstract scheduler.  The ready sequence is    *)
(* the one the linked list represents; the rest is read off the saved      *)
(* contexts.                                                               *)
(***************************************************************************)
EXTENDS Kernel, Sequences

\* The thread whose program is in control of the processor, also when the kernel
\* stopped on its behalf.
Running == IF mode \in {"user", "panic", "wild"} THEN ksCurThread ELSE NULL

\* The sequence a linked list represents.
SeqOf(q) == CHOOSE s \in ThreadSeqs : Represents(q, Len(s), s)

\* Never dispatched: no context yet or the one alloc_proc() made.  The TCB of a
\* running plugin still holds that one, until exit() replaces it.
Fresh == {t \in Plugin : context[t] \in {NoContext, ForkretContext(t)} /\ t # Running}

Resumable ==
    IF mode = "main" /\ ksCurThread \in Plugin /\ context[ksCurThread] = SchedContext(ksCurThread)
    THEN ksCurThread
    ELSE NULL

Sched == INSTANCE Scheduler WITH
    Thread    <- Plugin,
    None      <- NULL,
    ready     <- SeqOf(rq),
    running   <- Running,
    fresh     <- Fresh,
    resumable <- Resumable

\* Every behaviour of the linked ready queue, the saved contexts and the system
\* calls is a behaviour of the abstract scheduler.
ImplementsScheduler == Sched!Spec
=============================================================================
