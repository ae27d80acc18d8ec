SPECIFICATION Spec
CONSTANTS
    Sector = {s1, s2, s3}
    Data = {a, b}
    LOGSIZE = 3
    nlog = 3
INVARIANTS
    LogHoldsTransaction
    OneEntryPerSector
    HeadClearWhileRunning
PROPERTIES
    ImplementsAtomicDisk
    RecoveryEnds
