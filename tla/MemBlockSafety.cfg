SPECIFICATION Spec
CONSTANTS
    PGSIZE = 4
    ULLONG_MAX = 100
    MaxRegions = 128
    E820Maps <- MCMaps
    AllocSizes = {0, 1, 4, 6}
INVARIANTS
    RegionsCanonical
    ReservedIsHeld
    PagesExclusive
PROPERTY
    ImplementsFrames
