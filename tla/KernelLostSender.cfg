SPECIFICATION Spec
CONSTANTS
    Plugin = {a, b}
    Senders = {a, b}
    Receivers = {a, b}
    NULL = NULL
    BootThread = BootThread
    SchedulerAction_ChooseNewThread = ChooseNewThread
INVARIANT
    BlockedSenderIsQueued
