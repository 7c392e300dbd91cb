\* Invocations one after the other or at once, of which any may be killed.
SPECIFICATION Spec
CONSTANTS
    Proc = {p1, p2, p3}
    NoProc = noproc
    Pkg = {k1, k2}
    Setups <- MCSetups
    Kills = TRUE
SYMMETRY Symmetry
INVARIANTS
    TypeOK
    SandboxIntact
    RemovesUnmounted
PROPERTY
    NothingLeftMounted
