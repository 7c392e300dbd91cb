\* Every option, failures, failed scans and edits at any time.
SPECIFICATION Spec
CONSTANTS
    Build <- MCBuild
    Index <- MCIndex
    deps <- MCdeps
    hostdeps <- MChostdeps
    transitive <- MCtransitive
    Meta <- MCMeta
    TopSets <- MCTopSets
    Val <- MCVal
    Content <- MCContent
    Make <- MCMake
    MetaSum <- MCMetaSum
    Option <- MCOption
    NoOut = noout
    Junk = junk
    NoSum = nosum
    NoStamp = nostamp
    Graph = "pair"
    MaxEdits = 1
    MaxRuns = 3
    Versions = 2
    OptionNames = {"plain", "clean_all", "skip_deps", "skip_deps_shell"}
    ConcurrentEdits = TRUE
    Reverts = TRUE
    Crashes = TRUE
    ScansFail = TRUE
INVARIANTS
    CleanAllFresh
