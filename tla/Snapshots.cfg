SPECIFICATION BucketSpec
CONSTANTS
    Snaps = {old, s1, s2}
    Legacy = {old}
    Operators = {admin}
    Loads = {load}
    MaxRecords = 2
    NoFile = NoFile
    NoSnap = NoSnap
CHECK_DEADLOCK FALSE
INVARIANTS
    FinishedCountIsExact
    LoadedIsFrozen
