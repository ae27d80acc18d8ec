SPECIFICATION Spec
CONSTANTS
    Buf = {b1, b2, b3}
    Data = {v, w}
    Disk1 = {b3}
    NULL = NULL
    Head = Head
INVARIANTS
    DiskServesFirst
    ServedInSync
    QueueMoves
