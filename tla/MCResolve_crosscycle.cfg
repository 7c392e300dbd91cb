\* Cross builds of two packages that may use each other.
SPECIFICATION Spec
CONSTANTS
    pa = pa
    pb = pb
    pc = pc
    Pkg = {pa, pb, pc}
    NoPkg = nopkg
    native = native
    target = target
    Arch = {native, target}
    NoArch = noarch
    NATIVE_ARCH = native
    Projects <- MutualProjects
    TopLists <- Tops
    Targets <- CrossTarget
INVARIANT
    BuildlistSorted
