SPECIFICATION Spec
CONSTANTS
    c1 = c1
    c2 = c2
    Persons = {1, 2, 3}
    Commands = {c1, c2}
    Scores = {1}
    Review = 1
    AutoLink = 2
    Catalogue = 3
    Batch = 2
    MaxShared = 1
    MaxConflicts = 0
    MaxNews = 0
SYMMETRY MCSessions
INVARIANTS
    OneHopUnlessOvertaken
    DecisionsStand
