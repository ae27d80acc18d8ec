SPECIFICATION FairSpec
CONSTANTS
    Plugin = {a, b, c, d}
    Senders = {a, b, c, d}
    Receivers = {a, b, c, d}
    NULL = NULL
    BootThread = BootThread
    SchedulerAction_ChooseNewThread = ChooseNewThread
INVARIANTS
    ReadyQueueWellFormed
    UserModeReady
    ExitIsFinal
    IdleMeansAllRan
    EndpointHoldsSender
PROPERTIES
    WakeupNotLost
    ImplementsScheduler
    QueuedIsDispatched
