\* Every graph over three packages for one architecture; cross builds without cycles.
SPECIFICATION FairSpec
CONSTANTS
    pa = pa
    pb = pb
    pc = pc
    Pkg = {pa, pb, pc}
    NoPkg = nopkg
    native = native
    target = target
    Arch = {native, target}
    NoArch = noarch
    NATIVE_ARCH = native
    Projects <- AllProjects
    TopLists <- Tops
    Targets <- MCTargets
INVARIANTS
    TypeOK
    BuildlistSorted
    CycleVerdictExact
    BuildlistComplete
    BuildlistClosed
PROPERTY
    ResolveTerminates
