\* A metapackage and a build tool.
SPECIFICATION Spec
CONSTANTS
    Build <- MCBuild
    Index <- MCIndex
    deps <- MCdeps
    hostdeps <- MChostdeps
    transitive <- MCtransitive
    Meta <- MCMeta
    TopSets <- MCTopSets
    Val <- MCVal
    Content <- MCContent
    Make <- MCMake
    MetaSum <- MCMetaSum
    Option <- MCOption
    NoOut = noout
    Junk = junk
    NoSum = nosum
    NoStamp = nostamp
    Graph = "meta"
    MaxEdits = 2
    MaxRuns = 3
    Versions = 2
    OptionNames = {"plain", "cleanup", "dry_run"}
    ConcurrentEdits = FALSE
    Reverts = TRUE
    Crashes = FALSE
    ScansFail = FALSE
INVARIANTS
    TypeOK
    FreshAfterSuccess
    BuildsOnFreshDeps
PROPERTY
    SettledSelectsNothing
