SPECIFICATION Spec
CONSTANTS
    BSIZE = 2
    NDIRECT = 1
    BPB = 1
    NBLOCK = 7
    LOGSIZE = 6
    nlog = 7
    UsedSets <- MCUsedSets
    Buffers <- MCBuffers
INVARIANTS
    NoOverrun
    DiskConsistent
    DiskHoldsFile
    ReadsBack
