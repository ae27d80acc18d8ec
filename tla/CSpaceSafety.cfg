SPECIFICATION Spec
CONSTANTS
    PageSets <- MCPageSets
    NSlot = 3
    Offsets = {0, 1, 2}
    Lengths = {1, 2}
    Bases = {0, 2048}
    UserSize = 4
    Garbage = {10}
    MaxMade = 2
CHECK_DEADLOCK FALSE
INVARIANTS
    SameEndpoint
    EndpointsReached
