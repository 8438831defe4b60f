--------------------------- MODULE PersonClusters ---------------------------
(***************************************************************************)
(* build_clusters and the union-find under it (persons/cluster.py), one    *)
(* step per turn of its loops.  It is the same code that partitions the    *)
(* links of the person dedupe, the components authority constraints are    *)
(* looked for in, and the edges of shared catalogue numbers.               *)
(*                                                                         *)
(* A node that add has not met yet is taken as its own root, which is what *)
(* add makes of it before anything looks at it.                            *)
(***************************************************************************)
EXTENDS Integers, FiniteSets

CONSTANTS
    Nodes,      \* the entities; their ids are ordered
    Edges       \* the scored pairs there can be: [a, b, score]

ASSUME NodesAssumption == Nodes \subseteq Int
ASSUME EdgesAssumption == Edges \subseteq [a : Nodes, b : Nodes, score : Int]

VARIABLES
    cannot,     \* the cannot_link argument
    given,      \* the edges argument
    todo,       \* the rest of the sorted edges
    refused,    \* the list of refused edges
    parent,     \* _Partition.parent
    members,    \* _Partition.members; {} for a node that is no key
    barred,     \* _Partition.barred; {} for a node that is no key
    pc,         \* where the loop over the edges is
    edge,       \* the edge union is called with
    node, root, \* the two variables of find
    ra          \* what find(a) returned

partition == <<parent, members, barred>>
call == <<edge, node, root, ra>>
clustering == <<cannot, given, todo, refused, partition, pc, call>>

TwoNodes == {p \in Nodes \X Nodes : p[1] # p[2]}

Before(e, f) ==
    \/ e.score > f.score
    \/ e.score = f.score /\ e.a < f.a
    \/ e.score = f.score /\ e.a = f.a /\ e.b < f.b

Barred(x, y) == <<x, y>> \in cannot \/ <<y, x>> \in cannot

ClusteringTypeOK ==
    /\ cannot \subseteq TwoNodes
    /\ given \subseteq Edges
    /\ todo \subseteq given
    /\ refused \subseteq given
    /\ parent \in [Nodes -> Nodes]
    /\ members \in [Nodes -> SUBSET Nodes]
    /\ barred \in [Nodes -> SUBSET Nodes]
    /\ pc \in {"next", "climb_a", "squash_a", "climb_b", "squash_b", "union"}
    /\ pc # "next" => edge \in todo /\ node \in Nodes /\ root \in Nodes
    /\ pc \in {"climb_b", "squash_b", "union"} => ra \in Nodes

\* The call's locals mean nothing outside it, and start as any nodes.
ClusteringInit ==
    /\ cannot \in SUBSET TwoNodes
    /\ given \in SUBSET Edges
    /\ todo = given
    /\ refused = {}
    /\ parent = [x \in Nodes |-> x]
    /\ members = [x \in Nodes |-> {x}]
    /\ barred = [x \in Nodes |-> {y \in Nodes : Barred(x, y)}]
    /\ pc = "next"
    /\ edge = CHOOSE e \in Edges : TRUE
    /\ node = CHOOSE x \in Nodes : TRUE
    /\ root = node
    /\ ra = node

-----------------------------------------------------------------------------
\* Mutant: ties are broken by nothing, so the order of iteration shows.
TakeEdgeTied ==
    /\ pc = "next"
    /\ \E e \in todo :
        /\ \A f \in todo : e.score >= f.score
        /\ edge' = e
        /\ node' = e.a
        /\ root' = e.a
    /\ pc' = "climb_a"
    /\ UNCHANGED <<cannot, given, todo, refused, partition, ra>>

\* The next of the edges sorted by (-score, a, b).
TakeEdge ==
    /\ pc = "next"
    /\ \E e \in todo :
        /\ \A f \in todo \ {e} : Before(e, f)
        /\ edge' = e
        /\ node' = e.a
        /\ root' = e.a
    /\ pc' = "climb_a"
    /\ UNCHANGED <<cannot, given, todo, refused, partition, ra>>

\* Mutant: the loop looks up the node it was asked about, over and over.
ClimbFromNode ==
    /\ pc \in {"climb_a", "climb_b"}
    /\ parent[root] # root
    /\ root' = parent[node]
    /\ UNCHANGED <<cannot, given, todo, refused, partition, pc, edge, node, ra>>

\* while parent[root] != root: root = parent[root]
Climb ==
    /\ pc \in {"climb_a", "climb_b"}
    /\ parent[root] # root
    /\ root' = parent[root]
    /\ UNCHANGED <<cannot, given, todo, refused, partition, pc, edge, node, ra>>

TopReached ==
    /\ pc \in {"climb_a", "climb_b"}
    /\ parent[root] = root
    /\ pc' = IF pc = "climb_a" THEN "squash_a" ELSE "squash_b"
    /\ UNCHANGED <<cannot, given, todo, refused, partition, call>>

\* while parent[node] != root: parent[node], node = root, parent[node]
Squash ==
    /\ pc \in {"squash_a", "squash_b"}
    /\ parent[node] # root
    /\ parent' = [parent EXCEPT ![node] = root]
    /\ node' = parent[node]
    /\ UNCHANGED <<cannot, given, todo, refused, members, barred, pc, edge, root, ra>>

FoundA ==
    /\ pc = "squash_a"
    /\ parent[node] = root
    /\ ra' = root
    /\ node' = edge.b
    /\ root' = edge.b
    /\ pc' = "climb_b"
    /\ UNCHANGED <<cannot, given, todo, refused, partition, edge>>

FoundB ==
    /\ pc = "squash_b"
    /\ parent[node] = root
    /\ pc' = "union"
    /\ UNCHANGED <<cannot, given, todo, refused, partition, call>>

-----------------------------------------------------------------------------
(* The rest of union, with rb = root.                                      *)

Same ==
    /\ pc = "union"
    /\ ra = root
    /\ todo' = todo \ {edge}
    /\ pc' = "next"
    /\ UNCHANGED <<cannot, given, refused, partition, call>>

\* Mutant: only the pair that was scored is looked at.
ClashOfPair ==
    edge.b \in barred[edge.a] \/ edge.a \in barred[edge.b]

Clash ==
    \/ barred[ra] \intersect members[root] # {}
    \/ barred[root] \intersect members[ra] # {}

Refuse ==
    /\ pc = "union"
    /\ ra # root
    /\ Clash
    /\ refused' = refused \union {edge}
    /\ todo' = todo \ {edge}
    /\ pc' = "next"
    /\ UNCHANGED <<cannot, given, partition, call>>

Absorb(winner, loser) ==
    /\ parent' = [parent EXCEPT ![loser] = winner]
    /\ members' = [members EXCEPT ![winner] = @ \union members[loser], ![loser] = {}]
    /\ barred' = [barred EXCEPT ![winner] = @ \union barred[loser], ![loser] = {}]

Union ==
    /\ pc = "union"
    /\ ra # root
    /\ ~Clash
    /\ IF Cardinality(members[ra]) < Cardinality(members[root])
       THEN Absorb(root, ra)
       ELSE Absorb(ra, root)
    /\ todo' = todo \ {edge}
    /\ pc' = "next"
    /\ UNCHANGED <<cannot, given, refused, call>>

-----------------------------------------------------------------------------
ClusteringNext ==
    \/ TakeEdge \/ Climb \/ TopReached \/ Squash \/ FoundA \/ FoundB
    \/ Same \/ Refuse \/ Union

ClusteringSpec == ClusteringInit /\ [][ClusteringNext]_clustering
FairClusteringSpec == ClusteringSpec /\ WF_clustering(ClusteringNext)
-----------------------------------------------------------------------------
(* Properties.                                                             *)

\* The cluster of a node, as groups() reports it.
GroupOf(x) == UNION {members[r] : r \in {q \in Nodes : x \in members[q]}}
Groups == [x \in Nodes |-> GroupOf(x)]

\* Two records somebody said are not one person are never in one cluster,
\* however many edges lead from one to the other.
NeverTogether ==
    \A r \in Nodes : \A x, y \in members[r] : ~Barred(x, y)

\* "It is the weakest evidence that gets dropped" (cluster.py): an edge that
\* was refused joins two clusters that some cannot-link keeps apart for good.
RefusalsStand ==
    \A e \in refused :
        \E x \in GroupOf(e.a), y \in GroupOf(e.b) : Barred(x, y)

\* Every edge that was considered and not refused is inside a cluster.
LinksHold ==
    \A e \in given \ (todo \union refused) : GroupOf(e.a) = GroupOf(e.b)

\* The keys of members are the roots, and the trees under them are the
\* clusters.
TreesAreClusters ==
    /\ \A x \in Nodes : \E r \in Nodes : x \in members[r]
    /\ \A q, r \in Nodes : members[q] \intersect members[r] # {} => q = r
    /\ \A r \in Nodes : members[r] # {} <=> parent[r] = r
    /\ \A r \in Nodes : members[r] # {} => r \in members[r]
    /\ \A r \in Nodes : \A x \in members[r] : parent[x] \in members[r]

\* A root answers for its whole cluster.
BarredOfMembers ==
    \A r \in Nodes : members[r] # {} =>
        barred[r] = {y \in Nodes : \E x \in members[r] : Barred(x, y)}

\* find is always inside the tree of the node it was asked about, and below
\* the top it has found.
FindStaysInTree ==
    /\ pc \in {"climb_a", "squash_a"} =>
        \E r \in Nodes : {edge.a, node, root} \subseteq members[r]
    /\ pc \in {"climb_b", "squash_b", "union"} =>
        /\ \E r \in Nodes : {edge.b, node, root} \subseteq members[r]
        /\ edge.a \in members[ra]
    /\ pc \in {"squash_a", "squash_b", "union"} => parent[root] = root

\* The inductive invariant of the union-find.
ClusteringInv ==
    /\ ClusteringTypeOK
    /\ TreesAreClusters
    /\ BarredOfMembers
    /\ FindStaysInTree
    /\ NeverTogether

Greedy == INSTANCE GreedyClusters WITH cluster <- Groups

\* The union-find, its path compression and its barred sets compute what the
\* set-level definition says, merge for merge and refusal for refusal.
ImplementsGreedy == Greedy!Spec

\* find's loops and the loop over the edges end.
Ends == <>(pc = "next" /\ todo = {})
=============================================================================
