SPECIFICATION Spec
CONSTANTS
    NINODEs = {2, 3}
    NFILE = 2
    FD = {d1, d2, d3}
    Dirs = {1, 2}
    Files = {3}
    Name = {"x", "y"}
    Tree <- MCTree
    Paths <- MCPaths
    Cwd = {1, 2}
    MaxLink = 2
    MaxLost = 2
SYMMETRY Symmetry
INVARIANTS
    INodeRefs
    FileRefs
    CacheCoherent
    RemovedWhenUnused
