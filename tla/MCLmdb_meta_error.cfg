\* The sync of a meta page fails.
SPECIFICATION FaultySpec
CONSTANTS
    r = r
    v = v
    w = w
    Procs = {r, v, w}
    Readers = {r}
    Writers = {v, w}
    Setups <- ReaderSetup
    NoProc = NoProc
    OwnerDead = OwnerDead
    Leaves = {a, b}
    Branch = Branch
    FreeRoot = FreeRoot
    NoNode = NoNode
    MaxReaders = 2
    MaxPg = 11
    MaxWrites = 1
    MaxEvents = 3
SYMMETRY Symmetry
INVARIANT
    SnapshotIntact
CHECK_DEADLOCK FALSE
