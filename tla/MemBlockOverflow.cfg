SPECIFICATION Spec
CONSTANTS
    PGSIZE = 4
    ULLONG_MAX = 100
    MaxRegions = 3
    E820Maps <- MCHole
    AllocSizes = {1}
INVARIANT
    RegionsFit
