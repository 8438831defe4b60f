--------------------------- MODULE GreedyClusters ---------------------------
(***************************************************************************)
(* What persons/cluster.py promises: scored edges are considered strongest *)
(* first, and each merges the two clusters it touches unless a cannot-link *)
(* holds between any member of the one and any member of the other.        *)
(***************************************************************************)
EXTENDS Integers

CONSTANTS
    Nodes,      \* the entities; their ids are ordered
    Edges       \* the scored pairs there can be: [a, b, score]

VARIABLES
    cannot,     \* the cannot-links
    todo,       \* the edges not considered yet
    refused,    \* the edges a cannot-link has refused
    cluster     \* the cluster of each node

vars == <<cannot, todo, refused, cluster>>

\* The order of build_clusters: (-score, a, b).
Before(e, f) ==
    \/ e.score > f.score
    \/ e.score = f.score /\ e.a < f.a
    \/ e.score = f.score /\ e.a = f.a /\ e.b < f.b

Strongest(e, edges) == e \in edges /\ \A f \in edges \ {e} : Before(e, f)

Barred(x, y) == <<x, y>> \in cannot \/ <<y, x>> \in cannot

Compatible(A, B) == \A x \in A, y \in B : ~Barred(x, y)

Init ==
    /\ cannot \subseteq {p \in Nodes \X Nodes : p[1] # p[2]}
    /\ todo \subseteq Edges
    /\ refused = {}
    /\ cluster = [x \in Nodes |-> {x}]

Merge(A, B) ==
    cluster' = [x \in Nodes |-> IF x \in A \union B THEN A \union B ELSE cluster[x]]

Consider(e) ==
    /\ Strongest(e, todo)
    /\ todo' = todo \ {e}
    /\ LET A == cluster[e.a]
           B == cluster[e.b]
       IN  \/ A = B /\ UNCHANGED <<cluster, refused>>
           \/ A # B /\ Compatible(A, B) /\ Merge(A, B) /\ UNCHANGED refused
           \/ A # B /\ ~Compatible(A, B) /\ refused' = refused \union {e} /\ UNCHANGED cluster
    /\ UNCHANGED cannot

Next == \E e \in todo : Consider(e)

Spec == Init /\ [][Next]_vars
=============================================================================
