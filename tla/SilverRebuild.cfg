SPECIFICATION Spec
CONSTANTS
    r1 = r1
    r2 = r2
    bach = bach
    ann = ann
    anna = anna
    m1 = m1
    m2 = m2
    sonata = sonata
    suite = suite
    c1 = c1
    c2 = c2
    n1 = n1
    Rebuilds = {r1, r2}
    Snapshots = {1, 2}
    Entities = {bach, ann, anna}
    Nobody = Nobody
    Pairs <- MCPairs
    Mentions = {m1}
    Contents = {c1, c2}
    Absent = Absent
    Titles = {sonata, suite}
    Stated = {n1}
    Unstated = Unstated
    Brings <- MCBrings
    Says <- MCSays
    Heading <- MCHeading
    Meant <- MCMeant
    Free = Free
SYMMETRY MCRebuilds
INVARIANTS
    NothingDangles
PROPERTIES
    DecisionsCarried
    NewestWins
