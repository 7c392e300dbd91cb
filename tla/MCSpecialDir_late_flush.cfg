\* Three processes of one release: the comment "up to date".
SPECIFICATION Spec
CONSTANTS
    Proc = {p1, p2, p3}
    release = release
    Version = {release}
    VersionOf <- MCVersionOf
    NoProc = noproc
    Absent = absent
    Partial = partial
SYMMETRY Symmetry
INVARIANT
    UpToDateIsComplete
