\* Three invocations, one after the other.
SPECIFICATION Spec
CONSTANTS
    Proc = {p1, p2, p3}
    NoProc = noproc
    Pkg = {k}
    Setups <- InTurn
    Kills = TRUE
SYMMETRY Symmetry
INVARIANT
    UnmountedOutside
