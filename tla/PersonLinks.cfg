SPECIFICATION Spec
CONSTANTS
    c1 = c1
    Persons = {1, 2, 3}
    Commands = {c1}
    Scores = {0, 1, 2}
    Review = 1
    AutoLink = 2
    Catalogue = 3
    Batch = 2
    MaxShared = 1
    MaxConflicts = 1
    MaxNews = 1
INVARIANTS
    OneHop
    LinksFollowDecisions
PROPERTIES
    NeverReunited
