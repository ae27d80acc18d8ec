SPECIFICATION IpcSpec
CONSTANTS
    Plugin = {a, b, c}
    Senders = {a, b}
    Receivers = {b, c}
    NULL = NULL
    BootThread = BootThread
    SchedulerAction_ChooseNewThread = ChooseNewThread
    Word = {v, w}
    Os_MsgMaxLength = 1
    Os_MsgMaxExtraCaps = 1
    Tags <- MCTags
    CPtr = {0, 40, 4096}
    StrayWords <- MCStrayWords
    EndpointPage = 130000
    Grants = {TRUE, FALSE}
SYMMETRY Symmetry
INVARIANTS
    IpcTypeOK
    ReceivedOnce
PROPERTIES
    MessageIntact
