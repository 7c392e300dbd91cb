\* A forced build that fails after one that succeeded.
SPECIFICATION Spec
CONSTANTS
    Build <- MCBuild
    Index <- MCIndex
    deps <- MCdeps
    hostdeps <- MChostdeps
    transitive <- MCtransitive
    Meta <- MCMeta
    TopSets <- MCTopSets
    Val <- MCVal
    Content <- MCContent
    Make <- MCMake
    MetaSum <- MCMetaSum
    Option <- MCOption
    NoOut = noout
    Junk = junk
    NoSum = nosum
    NoStamp = nostamp
    Graph = "pair"
    MaxEdits = 2
    MaxRuns = 3
    Versions = 2
    OptionNames = {"plain", "force"}
    ConcurrentEdits = FALSE
    Reverts = FALSE
    Crashes = TRUE
    ScansFail = FALSE
INVARIANTS
    FreshAfterSuccess
