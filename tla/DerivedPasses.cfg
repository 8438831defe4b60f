SPECIFICATION Spec
CONSTANTS
    r1 = r1
    r2 = r2
    Names = {"Berlin", "tone poem", "symphonic poem", "Symphony Orchestra", "Rundfunk", "Ann", "Sir Ann", "Ben", "symphony", "Album", "C1", "C2"}
    Items = {"Q64", "Q142659", "Q1", "Q2", "Q3", "Q4", "Q5"}
    NoItem = NoItem
    Entities = {"berlin", "Q64", "Q142659", "tone poem", "Q1", "Q2", "Q3", "orchestra", "Q4", "Q5", "members", "Ann", "symphony"}
    Entity <- MCEntity
    Members <- MCMembers
    Wikidata = "wikidata"
    Original = "original"
    Keys = {1, 2, 3, 4}
    SourceOf <- MCSourceOf
    Fields = {"title", "catalogue"}
    Null = Null
    Performer <- MCPerformer
    RecordingPayload <- MCRecordingPayload
    ConcertPayload <- MCConcertPayload
    Refreshers = {r1, r2}
    MaxCommits = 1
    Works = {"symphony", "second", "third", "arrangement", "volume"}
    WorkOf <- MCWorkOf
    Merges <- MCMerges
    Mentions = {1, 2, 3, 4}
    Sightings <- MCSightings
    WorksFor <- MCWorksFor
    ComposerOf <- MCComposerOf
    PartOf <- MCPartOf
    RecordOf <- MCRecordOf
    Nothing = Nothing
    Base <- MCBase
CHECK_DEADLOCK FALSE
SYMMETRY MCRefreshers
INVARIANTS
    LeavesNothingStale
    ReleasesStayApart
    LinksNameOneThing
