\* Scripts fail and are killed; no edit restores an earlier content.
SPECIFICATION Spec
CONSTANTS
    Build <- MCBuild
    Index <- MCIndex
    deps <- MCdeps
    hostdeps <- MChostdeps
    transitive <- MCtransitive
    Meta <- MCMeta
    TopSets <- MCTopSets
    Val <- MCVal
    Content <- MCContent
    Make <- MCMake
    MetaSum <- MCMetaSum
    Option <- MCOption
    NoOut = noout
    Junk = junk
    NoSum = nosum
    NoStamp = nostamp
    Graph = "chain"
    MaxEdits = 1
    MaxRuns = 4
    Versions = 2
    OptionNames = {"plain", "clean"}
    ConcurrentEdits = FALSE
    Reverts = FALSE
    Crashes = TRUE
    ScansFail = FALSE
INVARIANTS
    FreshUnlessTorn
    BuildsOnFreshDeps
