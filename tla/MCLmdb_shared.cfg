\* Transactions of several processes, which may die, and of one on a system that crashes.
SPECIFICATION Spec
CONSTANTS
    r = r
    v = v
    w = w
    Procs = {r, v, w}
    Readers = {r}
    Writers = {v, w}
    Setups <- MCSetups
    NoProc = NoProc
    OwnerDead = OwnerDead
    Leaves = {a, b}
    Branch = Branch
    FreeRoot = FreeRoot
    NoNode = NoNode
    MaxReaders = 2
    MaxPg = 11
    MaxWrites = 1
    MaxEvents = 3
SYMMETRY Symmetry
INVARIANTS
    TypeOK
    SnapshotIntact
    OldestSafe
    NewestIntact
    Audit
    SlotsOwned
PROPERTY
    ImplementsSnapshots
CHECK_DEADLOCK FALSE
