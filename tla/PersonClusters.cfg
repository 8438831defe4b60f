SPECIFICATION MCSpec
CONSTANTS
    Nodes = {1, 2, 3, 4}
    Scores = {1, 2}
    MaxCannot = 2
    Edges <- MCEdges
CHECK_DEADLOCK FALSE
INVARIANTS
    NeverTogether
PROPERTIES
    ImplementsGreedy
    Ends
