SPECIFICATION Spec
CONSTANTS
    r1 = r1
    r2 = r2
    r3 = r3
    a = a
    b = b
    x = x
    y = y
    z = z
    Runs = {r1, r2, r3}
    Cli = {r2}
    Sources = {a, b}
    SourceOf <- MCSourceOf
    Ids = {1, 2}
    Mentions = {2}
    Contents = {"v1", "v2"}
    Names = {x, y, z}
    Feeds <- MCFeeds
    Batch = 2
    NoRow = NoRow
CHECK_DEADLOCK FALSE
INVARIANTS
    CompletedIsStored
    CountsAreHonest
    LastSightingWins
