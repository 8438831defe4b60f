SPECIFICATION Spec
CONSTANTS
    KV = KV
    wikidata = wikidata
    k550 = k550
    k551 = k551
    q1 = q1
    arrangement = arrangement
    m1 = m1
    m2 = m2
    m3 = m3
    Composers = {1, 2, 3}
    Titles = {1, 2, 3}
    Schemes = {KV, wikidata}
    ExternalSchemes = {wikidata}
    ComposerScoped = {KV}
    Values = {k550, q1}
    Derivations = {arrangement}
    Original = Original
    Opuses = {}
    TitleFeatures <- MCTitleFeatures
    Ratio <- MCRatio
    MaxWorks = 3
    MaxLoads = 2
    MaxCommands = 2
    Mentions = {m1, m2, m3}
    Feeds <- MCFeeds
    Absent = Absent
    Clusterings <- MCClusterings
    Enforced = TRUE
CHECK_DEADLOCK FALSE
INVARIANTS
    PointersResolve
    PremiereIsBest
    DerivedStaysApart
    CacheIsDatabase
