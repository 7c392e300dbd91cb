\* A dependency that itself has nothing but a build tool.
SPECIFICATION Spec
CONSTANTS
    Build <- MCBuild
    Index <- MCIndex
    deps <- MCdeps
    hostdeps <- MChostdeps
    transitive <- MCtransitive
    Meta <- MCMeta
    TopSets <- MCTopSets
    Val <- MCVal
    Content <- MCContent
    Make <- MCMake
    MetaSum <- MCMetaSum
    Option <- MCOption
    NoOut = noout
    Junk = junk
    NoSum = nosum
    NoStamp = nostamp
    Graph = "tool"
    MaxEdits = 2
    MaxRuns = 3
    Versions = 2
    OptionNames = {"plain"}
    ConcurrentEdits = FALSE
    Reverts = TRUE
    Crashes = FALSE
    ScansFail = FALSE
INVARIANTS
    FreshAfterSuccess
