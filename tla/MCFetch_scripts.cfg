\* Two scripts that share their source, as those of xz and xz/lib do.
SPECIFICATION Spec
CONSTANTS
    Scripts = {s, t}
    Version = {one, two}
    Patch = 2
    MaxFaults = 2
    MaxEdits = 1
SYMMETRY Symmetry
INVARIANTS
    TypeOK
    UnpacksVerified
    TreeExact
    RunOnceComplete
