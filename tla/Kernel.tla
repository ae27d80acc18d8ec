------------------------------- MODULE Kernel -------------------------------
(***************************************************************************)
(* The running kernel: boot, the scheduler loop of main(), the context     *)
(* switch between that loop and the plugins, and the system calls that     *)
(* change kernel state (send, receive, exit) on the one endpoint that boot *)
(* creates.                                                                *)
(*                                                                         *)
(* There is one processor and plugins run with interrupts off (eflags = 0  *)
(* in load_plugin), so a kernel entry is never interrupted and a plugin    *)
(* runs until it calls exit(): every system call and every iteration of    *)
(* the loop up to the context switch is one atomic action.                 *)
(***************************************************************************)
EXTENDS TcbQueue

CONSTANTS
    BootThread,                      \* the TCB main() allocates for itself
    SchedulerAction_ChooseNewThread, \* (Tcb*)1
    Senders,                         \* plugins whose program may call send
    Receivers                        \* plugins whose program may call receive

ASSUME KernelAssumption ==
    /\ BootThread \notin Plugin \cup {NULL}
    /\ SchedulerAction_ChooseNewThread \notin Plugin \cup {NULL}
    /\ Senders \subseteq Plugin
    /\ Receivers \subseteq Plugin

SchedulerAction_ResumeCurrentThread == NULL

Tcb == Plugin \cup {BootThread}

VARIABLES
    rq,                 \* ksReadyQueues and the scheduler links of the TCBs
    ksCurThread,        \* the TCB the kernel takes for the running one
    oldThread,          \* the TCB that was current before it
    ksSchedulerAction,  \* resume, choose a new thread, or a TCB to switch to
    context,            \* tcb->context: where swtch() resumes a TCB
    vm,                 \* whose page tables are loaded; NULL: the kernel's
    mode,               \* what the processor executes, see Modes
    tsType,             \* tcbState.tsType
    epState,            \* state of the endpoint
    epq                 \* queue of the endpoint and endpoint links of the TCBs

schedVars == <<rq, ksCurThread, oldThread, ksSchedulerAction, context, vm>>
ipcVars == <<tsType, epState, epq>>
vars == <<rq, ksCurThread, oldThread, ksSchedulerAction, context, vm, mode,
          tsType, epState, epq>>

\* boot: main() before its loop.  main: the loop.  user: a plugin.
\* panic: panic() spins.  wild: the kernel followed a wild pointer, after which
\* nothing is known of it.
Modes == {"boot", "main", "user", "panic", "wild"}

----------------------------------------------------------------------------
(* Saved contexts: the place execution resumes at and the kernel stack it    *)
(* resumes on (NULL: the boot stack main() runs on).                         *)

Contexts == [at : {"none", "forkret", "sched", "schedule"}, stack : PluginOrNull]

NoContext == [at |-> "none", stack |-> NULL]      \* zeroed memory

\* alloc_proc(): a new plugin starts in forkret, which returns to user mode.
ForkretContext(t) == [at |-> "forkret", stack |-> t]

\* sched(): the plugin is inside exit(), which would return to user mode.
SchedContext(t) == [at |-> "sched", stack |-> t]

\* switch_to_thread(): the loop of main(), after the swtch call.  The loop always
\* reaches that call at the same depth of the boot stack.
MainContext == [at |-> "schedule", stack |-> NULL]

----------------------------------------------------------------------------
(* The scheduler's entry points, on the pair of ready queue and action *)

SchedState(q, a) == [rq |-> q, action |-> a]

reschedule_required(s) ==
    IF s.action \in {SchedulerAction_ResumeCurrentThread, SchedulerAction_ChooseNewThread}
    THEN SchedState(s.rq, SchedulerAction_ChooseNewThread)
    ELSE SchedState(tcb_sched_enqueue(s.rq, s.action), SchedulerAction_ChooseNewThread)

possible_switch_to(s, target) ==
    IF s.action # SchedulerAction_ResumeCurrentThread
    THEN LET r == reschedule_required(s)
         IN  SchedState(tcb_sched_enqueue(r.rq, target), r.action)
    ELSE SchedState(s.rq, target)

----------------------------------------------------------------------------
(* Boot *)

Init ==
    /\ rq = EmptyReadyQueue
    /\ ksCurThread = NULL
    /\ oldThread = NULL
    /\ ksSchedulerAction = SchedulerAction_ResumeCurrentThread
    /\ context = [t \in Tcb |-> NoContext]
    /\ vm = NULL
    /\ mode = "boot"
    /\ tsType = [t \in Plugin |-> "Inactive"]
    /\ epState = "Idle"
    /\ epq = [head |-> NULL, end |-> NULL,
              next |-> [t \in Plugin |-> NULL], prev |-> [t \in Plugin |-> NULL]]

\* Boot appends every plugin TCB to the ready queue before any is loaded.
ipc_test(t) ==
    /\ mode = "boot"
    /\ ~rq.queued[t]
    /\ rq' = tcb_sched_append(rq, t)
    /\ UNCHANGED <<ksCurThread, oldThread, ksSchedulerAction, context, vm, mode, ipcVars>>

\* alloc_proc() gives the plugin a kernel stack and its first context.
load_plugin(t) ==
    /\ mode = "boot"
    /\ \A u \in Plugin : rq.queued[u]
    /\ context[t] = NoContext
    /\ context' = [context EXCEPT ![t] = ForkretContext(t)]
    /\ UNCHANGED <<rq, ksCurThread, oldThread, ksSchedulerAction, vm, mode, ipcVars>>

\* main() becomes a thread of its own and enters its loop.
enter_loop ==
    /\ mode = "boot"
    /\ \A t \in Plugin : rq.queued[t] /\ context[t] # NoContext
    /\ ksCurThread' = BootThread
    /\ mode' = "main"
    /\ UNCHANGED <<rq, oldThread, ksSchedulerAction, context, vm, ipcVars>>

----------------------------------------------------------------------------
(* The loop of main(): schedule() with ksSchedulerAction set to choose       *)

\* choose_thread() finds the queue empty.
schedule_idle ==
    /\ mode = "main"
    /\ rq.head = NULL
    /\ ksSchedulerAction' = SchedulerAction_ResumeCurrentThread
    /\ UNCHANGED <<rq, ksCurThread, oldThread, context, vm, mode, ipcVars>>

\* Mutant: the loop is saved in the TCB of main() whoever was current.
switch_to_thread_SaveInBoot(t) ==
    /\ rq' = tcb_sched_dequeue(rq, t)
    /\ oldThread' = ksCurThread
    /\ ksCurThread' = t
    /\ context' = [context EXCEPT ![BootThread] = MainContext]

\* Mutant: ksCurThread is assigned before it is copied to oldThread.
switch_to_thread_Swapped(t) ==
    /\ rq' = tcb_sched_dequeue(rq, t)
    /\ oldThread' = t
    /\ ksCurThread' = t
    /\ context' = [context EXCEPT ![t] = MainContext]

\* switch_to_thread() up to and including swtch(): the loop is saved in the
\* context of the thread that was current, and the head of the queue resumes.
switch_to_thread(t) ==
    /\ rq' = tcb_sched_dequeue(rq, t)
    /\ oldThread' = ksCurThread
    /\ ksCurThread' = t
    /\ context' = [context EXCEPT ![ksCurThread] = MainContext]

\* Mutant: schedule() resets ksSchedulerAction before it chooses a thread.
schedule_user_EarlyReset ==
    /\ mode = "main"
    /\ rq.head # NULL
    /\ context[rq.head] # MainContext
    /\ switch_to_thread(rq.head)
    /\ vm' = rq.head
    /\ mode' = "user"
    /\ ksSchedulerAction' = SchedulerAction_ResumeCurrentThread
    /\ UNCHANGED ipcVars

\* The head of the queue resumes on its own kernel stack and returns to user mode;
\* any other saved context is no place to return to.
schedule_user ==
    /\ mode = "main"
    /\ rq.head # NULL
    /\ context[rq.head] # MainContext
    /\ switch_to_thread(rq.head)
    /\ vm' = rq.head
    /\ mode' = IF context[rq.head] \in {ForkretContext(rq.head), SchedContext(rq.head)}
               THEN "user" ELSE "wild"
    /\ ksSchedulerAction' = SchedulerAction_ChooseNewThread
    /\ UNCHANGED ipcVars

\* The head of the queue exited earlier and its context was overwritten with the
\* loop's: swtch() returns at once and the iteration ends.
schedule_return ==
    /\ mode = "main"
    /\ rq.head # NULL
    /\ context[rq.head] = MainContext
    /\ switch_to_thread(rq.head)
    /\ vm' = NULL
    /\ mode' = "main"
    /\ ksSchedulerAction' = SchedulerAction_ResumeCurrentThread
    /\ UNCHANGED ipcVars

----------------------------------------------------------------------------
(* System calls of the running plugin *)

\* exit() is sched(): the caller is saved and the context of the previous
\* thread resumes, which must be the loop's.  The loop then ends its iteration.
sys_exit ==
    /\ mode = "user"
    /\ context' = [context EXCEPT ![ksCurThread] = SchedContext(ksCurThread)]
    /\ mode' = IF context[oldThread] = MainContext THEN "main" ELSE "wild"
    /\ vm' = NULL
    /\ ksSchedulerAction' = SchedulerAction_ResumeCurrentThread
    /\ UNCHANGED <<rq, ksCurThread, oldThread, ipcVars>>

\* send_ipc with blocking set and doCall clear, the only way send() calls it.  The
\* caller is marked blocked and queued, and goes on running.
sys_send ==
    /\ mode = "user"
    /\ ksCurThread \in Senders
    /\ tsType' = [tsType EXCEPT ![ksCurThread] = "BlockedOnSend"]
    /\ epq' = tcb_ep_append(epq, ksCurThread)
    /\ epState' = "Send"
    /\ UNCHANGED <<schedVars, mode>>

\* Mutant: the endpoint is not reset to Idle with its last sender.
sys_receive_KeepState ==
    /\ mode = "user"
    /\ ksCurThread \in Receivers
    /\ epq.head # NULL
    /\ LET sender == epq.head
           s == possible_switch_to(SchedState(rq, ksSchedulerAction), sender)
       IN  /\ epq' = tcb_ep_dequeue(epq, sender)
           /\ tsType' = [tsType EXCEPT ![sender] = "Running"]
           /\ rq' = s.rq
           /\ ksSchedulerAction' = s.action
    /\ UNCHANGED <<epState, ksCurThread, oldThread, context, vm, mode>>

\* receive_ipc on an endpoint with a waiting sender: the cases of all three
\* endpoint states end in this code.
sys_receive ==
    /\ mode = "user"
    /\ ksCurThread \in Receivers
    /\ epq.head # NULL
    /\ LET sender == epq.head
           q == tcb_ep_dequeue(epq, sender)
           s == possible_switch_to(SchedState(rq, ksSchedulerAction), sender)
       IN  /\ epq' = q
           /\ epState' = IF q.head = NULL THEN "Idle" ELSE epState
           /\ tsType' = [tsType EXCEPT ![sender] = "Running"]
           /\ rq' = s.rq
           /\ ksSchedulerAction' = s.action
    /\ UNCHANGED <<ksCurThread, oldThread, context, vm, mode>>

\* receive_ipc with no waiting sender: the Idle case falls through into the Send
\* case, whose sender is NULL.  The kernel then uses page 0 of the plugin, its
\* program text, as a TCB.
sys_receive_none ==
    /\ mode = "user"
    /\ ksCurThread \in Receivers
    /\ epq.head = NULL
    /\ mode' = "wild"
    /\ UNCHANGED <<schedVars, ipcVars>>

\* send() or receive() with another capability pointer than 0: lookup_slot() adds it
\* to the address of the table whatever it is, in bytes, and what lies there is used
\* as a capability to an endpoint.  An empty slot gives no address the processor
\* accepts; anything else is memory whose contents the kernel did not choose.
sys_wild ==
    /\ mode = "user"
    /\ ksCurThread \in Senders \cup Receivers
    /\ mode' = "wild"
    /\ UNCHANGED <<schedVars, ipcVars>>

\* syscall() panics on an unknown number, brk() when memory is exhausted.
sys_panic ==
    /\ mode = "user"
    /\ mode' = "panic"
    /\ UNCHANGED <<schedVars, ipcVars>>

\* panic() spins; a fault on a wild pointer is ignored by trap() and repeats.
halted ==
    /\ mode \in {"panic", "wild"}
    /\ UNCHANGED vars

----------------------------------------------------------------------------
Next ==
    \/ \E t \in Plugin : ipc_test(t)
    \/ \E t \in Plugin : load_plugin(t)
    \/ enter_loop
    \/ schedule_idle
    \/ schedule_user
    \/ schedule_return
    \/ sys_exit
    \/ sys_send
    \/ sys_receive
    \/ sys_receive_none
    \/ sys_wild
    \/ sys_panic
    \/ halted

Spec == Init /\ [][Next]_vars
----------------------------------------------------------------------------
(* Fairness: the loop of main() never stops by itself, boot ends, and a      *)
(* plugin's program ends with exit(), as the two test plugins do.            *)

Fairness ==
    /\ WF_vars(\E t \in Plugin : ipc_test(t))
    /\ WF_vars(\E t \in Plugin : load_plugin(t))
    /\ WF_vars(enter_loop)
    /\ WF_vars(schedule_user)
    /\ WF_vars(schedule_return)
    /\ WF_vars(sys_exit)

FairSpec == Spec /\ Fairness

----------------------------------------------------------------------------
(* Properties *)

\* The type of every variable; in particular no step parks a value other than a
\* TCB pointer in a TCB field or loads page tables of the boot thread.
TypeOK ==
    /\ rq \in ReadyQueues
    /\ ksCurThread \in Tcb \cup {NULL}
    /\ oldThread \in Tcb \cup {NULL}
    /\ ksSchedulerAction \in Plugin \cup {SchedulerAction_ResumeCurrentThread,
                                          SchedulerAction_ChooseNewThread}
    /\ context \in [Tcb -> Contexts]
    /\ vm \in PluginOrNull
    /\ mode \in Modes
    /\ tsType \in [Plugin -> {"Inactive", "Running", "BlockedOnSend"}]
    /\ epState \in {"Idle", "Send"}
    /\ epq \in EndpointQueues

\* Whatever system calls wake which threads, the ready queue is a doubly linked
\* list of distinct TCBs, and tcbQueued is set in exactly the TCBs on it
\* (tcb_sched_enqueue, tcb_sched_append, tcb_sched_dequeue).
ReadyQueueWellFormed == WellFormed(rq)

\* While a plugin runs, the context sched() will switch to is the loop of main(),
\* although that loop is saved in the TCB of whichever thread ran before; its own
\* page tables are loaded; and possible_switch_to() will queue a woken thread
\* instead of parking it in ksSchedulerAction, where schedule() would lose it.
UserModeReady ==
    mode = "user" => /\ context[oldThread] = MainContext
                     /\ vm = ksCurThread
                     /\ ksSchedulerAction = SchedulerAction_ChooseNewThread

\* No plugin ever resumes on the stack of another, and a plugin that called
\* exit() can come back from it only as long as no other thread was dispatched:
\* the next switch_to_thread() overwrites the context exit() saved.
ExitIsFinal ==
    \A t \in Plugin :
        /\ mode # "boot" =>
               context[t] \in {ForkretContext(t), SchedContext(t), MainContext}
        /\ context[t] = SchedContext(t) => ksCurThread = t /\ mode # "user"

\* When the loop of main() finds the ready queue empty, every plugin has run.
IdleMeansAllRan ==
    mode = "main" /\ rq.head = NULL =>
        \A t \in Plugin : context[t] # ForkretContext(t)

\* The endpoint is in state Send exactly while it has a sender, that sender is
\* marked BlockedOnSend, and it is the only one: all links stay NULL.
EndpointHoldsSender ==
    /\ epState = "Send" <=> epq.head # NULL
    /\ epq.head # NULL => tsType[epq.head] = "BlockedOnSend"
    /\ epq.end = NULL
    /\ \A t \in Plugin : epq.next[t] = NULL /\ epq.prev[t] = NULL

\* A sender that a receive made Running is in the ready queue after that step.
WakeupNotLost ==
    [][\A t \in Plugin : tsType[t] = "BlockedOnSend" /\ tsType'[t] = "Running"
           => rq'.queued[t]]_vars

\* A thread leaves the ready queue only from its head and by being switched to.
LeavesQueueToRun ==
    [][\A t \in Plugin : rq.queued[t] /\ ~rq'.queued[t]
           => rq.head = t /\ ksCurThread' = t]_vars

\* Every plugin in the ready queue is eventually switched to, or the kernel has
\* stopped.  tcb_sched_enqueue() puts a woken thread at the front, so plugins that
\* send can keep the others waiting by receiving for ever; nobody else can.
QueuedIsDispatched ==
    \/ []<><<sys_receive /\ tsType[ksCurThread] # "Inactive">>_vars
    \/ \A t \in Plugin :
          rq.queued[t] ~> ksCurThread = t \/ mode \in {"panic", "wild"}

----------------------------------------------------------------------------
(* What comments of the code say and the code does not do *)

\* "Place calling thread in endpoint queue": a thread that is BlockedOnSend can
\* be found in the queue of its endpoint.
BlockedSenderIsQueued ==
    \A t \in Plugin : tsType[t] = "BlockedOnSend" =>
        \/ epq.head = t
        \/ epq.end = t
        \/ \E u \in Plugin : epq.next[u] = t

\* "Set thread state to BlockedOnReveive": receiving from an endpoint without a
\* sender leaves the caller BlockedOnReceive.
IdleReceiveBlocks ==
    [][sys_receive_none => tsType'[ksCurThread] = "BlockedOnReceive"]_vars
=============================================================================
