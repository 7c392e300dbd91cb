\* Three processes of one release, any of which may be killed anywhere.
SPECIFICATION FairSpec
CONSTANTS
    Proc = {p1, p2, p3}
    release = release
    Version = {release}
    VersionOf <- MCVersionOf
    NoProc = noproc
    Absent = absent
    Partial = partial
INVARIANTS
    TypeOK
    UsersHaveLayer
PROPERTIES
    CallReturns
