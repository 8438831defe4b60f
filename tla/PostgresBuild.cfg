SPECIFICATION FairSpec
CONSTANTS
    Builders = {api, cli}
    Cli = {cli}
    Killable = {api, cli}
    Promoters = {promote}
    Sessions = {session}
    Builds = {s1, s2, s3}
    NoBuild = NoBuild
    Free = Free
    Passes = 2
CHECK_DEADLOCK FALSE
INVARIANTS
    OneBuildAtATime
    PromoteReadsOneBuild
    SwapNeverCollides
    PinnedTablesSurvive
PROPERTIES
    ImplementsPromise
    LockComesBack
