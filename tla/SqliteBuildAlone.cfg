SPECIFICATION Spec
CONSTANTS
    Builders = {cli}
    Cli = {cli}
    Killable = {cli}
    Readers = {r1, r2}
    Builds = {s1, s2, s3}
    NoBuild = NoBuild
    Files = {f1, f2, f3, f4, f5}
    NoFile = NoFile
    Passes = 2
CHECK_DEADLOCK FALSE
INVARIANTS
    NothingHalfBuilt
PROPERTIES
    ImplementsPromise
