------------------------- MODULE PersonLinksProofs -------------------------
(***************************************************************************)
(* Proofs about PersonClusters, for any graph and any cannot-links, and    *)
(* about PersonLinks, for any persons, scores and evidence.                *)
(*                                                                         *)
(* Of the union-find: a root answers for its whole cluster, so what it has *)
(* barred is all that a union need look at, and the merges are those of    *)
(* the set-level definition.  One call of it is the one step that the      *)
(* dedupe takes.  That it ends needs fairness; what else it needs is here: *)
(* heights under which every step of find goes up (FindsCannotLoop).       *)
(*                                                                         *)
(* Of the rows: an answer is a human's, and, when nobody else has a        *)
(* session open, the pairs left to score have no row and the rows looked   *)
(* up are as they were.                                                    *)
(*                                                                         *)
(* Of the clusters: build_clusters considers the links one after another,  *)
(* so what holds of the clusters of fewer links holds of all of them.      *)
(* There is no least set of links of which it does not (LeastSubset).      *)
(*                                                                         *)
(* Of the links: a session alone holds them as they are, and what it is    *)
(* about to write are the roots of the clusters of the rows as they are.   *)
(***************************************************************************)
EXTENDS PersonClusters, PersonLinks, FiniteSetTheorems, WellFoundedInduction, TLAPS

-----------------------------------------------------------------------------
(* Least sets.                                                             *)

\* A set of subsets of a finite set has a least one, if it has any.
LEMMA LeastSubset ==
  ASSUME NEW S, IsFiniteSet(S), NEW bad \in SUBSET SUBSET S, bad # {}
  PROVE  \E T \in bad : \A U \in bad : U \subseteq T => U = T
<1>1. bad \subseteq FiniteSubsetsOf(S)
  BY FS_Subset DEF FiniteSubsetsOf
<1>2. PICK T \in bad : \A U \in bad : <<U, T>> \notin StrictSubsetOrdering(S)
  BY <1>1, FS_StrictSubsetOrderingWellFounded, WFMin
<1> QED
  BY <1>1, <1>2 DEF StrictSubsetOrdering

-----------------------------------------------------------------------------
(* The union-find.                                                         *)

\* Every node is its own cluster before the first edge.
LEMMA ClusteringBegins == ClusteringInit => ClusteringInv
<1> SUFFICES ASSUME ClusteringInit PROVE ClusteringInv
  OBVIOUS
<1>1. ClusteringTypeOK
  BY DEF ClusteringInit, ClusteringTypeOK
<1>2. TreesAreClusters
  BY DEF ClusteringInit, TreesAreClusters
<1>3. BarredOfMembers
  BY DEF ClusteringInit, BarredOfMembers
<1>4. FindStaysInTree
  BY DEF ClusteringInit, FindStaysInTree
<1>5. NeverTogether
  BY DEF ClusteringInit, NeverTogether, Barred, TwoNodes
<1> QED
  BY <1>1, <1>2, <1>3, <1>4, <1>5 DEF ClusteringInv

\* A node that is its own parent is the key of the cluster it is in.
LEMMA TopIsKey ==
  ASSUME ClusteringTypeOK, TreesAreClusters, NEW r \in Nodes, NEW x \in members[r], parent[x] = x
  PROVE  x = r
<1>1. x \in Nodes
  BY DEF ClusteringTypeOK
<1> QED
  BY <1>1 DEF TreesAreClusters

\* While find runs, the edge it was called with is one of the graph's.
LEMMA CallIsTyped ==
  ASSUME ClusteringTypeOK, pc # "next"
  PROVE  edge \in todo /\ edge \in given /\ edge.a \in Nodes /\ edge.b \in Nodes
  BY EdgesAssumption DEF ClusteringTypeOK

\* A step that leaves the partition and the cannot-links alone keeps what is
\* said about them only.
LEMMA PartitionUnchanged ==
  ASSUME ClusteringInv, UNCHANGED <<partition, cannot>>
  PROVE  TreesAreClusters' /\ BarredOfMembers' /\ NeverTogether'
  BY DEF ClusteringInv, TreesAreClusters, BarredOfMembers, NeverTogether, Barred, partition

\* Compression moves a node up to the top of its own tree.
LEMMA SquashPreserves ==
  ASSUME ClusteringInv, Squash
  PROVE  ClusteringInv'
<1> USE DEF ClusteringInv
<1>1. edge.a \in Nodes /\ edge.b \in Nodes /\ node \in Nodes /\ root \in Nodes
  BY CallIsTyped DEF Squash, ClusteringTypeOK
<1>2. PICK r \in Nodes : node \in members[r] /\ root \in members[r]
  BY DEF Squash, FindStaysInTree
<1>3. parent[root] = root /\ root = r
  BY <1>2, TopIsKey DEF Squash, FindStaysInTree
<1>4. parent[node] # node
  BY <1>2, <1>3, TopIsKey DEF Squash
<1>5. node # root /\ parent'[root] = root
  BY <1>1, <1>3, <1>4 DEF Squash, ClusteringTypeOK
<1>6. ClusteringTypeOK'
  BY <1>1, CallIsTyped DEF Squash, ClusteringTypeOK
<1>7. TreesAreClusters'
  <2>1. /\ UNCHANGED members
        /\ \A x \in Nodes : parent'[x] = IF x = node THEN root ELSE parent[x]
    BY DEF Squash, ClusteringTypeOK
  <2>2. \A q \in Nodes : members'[q] # {} <=> parent'[q] = q
    BY <1>4, <1>5, <2>1 DEF TreesAreClusters
  <2>3. \A q \in Nodes : \A x \in members'[q] : parent'[x] \in members'[q]
    <3> SUFFICES ASSUME NEW q \in Nodes, NEW x \in members[q]
                 PROVE  parent'[x] \in members[q]
      BY <2>1
    <3>1. x \in Nodes
      BY DEF ClusteringTypeOK
    <3>2. CASE x = node
      BY <1>2, <2>1, <3>1, <3>2 DEF TreesAreClusters
    <3>3. CASE x # node
      BY <2>1, <3>1, <3>3 DEF TreesAreClusters
    <3> QED
      BY <3>2, <3>3
  <2> QED
    BY <2>1, <2>2, <2>3 DEF TreesAreClusters
<1>8. BarredOfMembers' /\ NeverTogether'
  <2>1. UNCHANGED <<members, barred, cannot>>
    BY DEF Squash
  <2> QED
    BY <2>1 DEF BarredOfMembers, NeverTogether, Barred
<1>9. FindStaysInTree'
  BY <1>1, <1>2, <1>3, <1>5 DEF Squash, ClusteringTypeOK, TreesAreClusters, FindStaysInTree
<1> QED
  BY <1>6, <1>7, <1>8, <1>9

\* Two roots that no cannot-link parts become one, whichever is larger.
LEMMA AbsorbPreserves ==
  ASSUME ClusteringInv, NEW w \in Nodes, NEW l \in Nodes, w # l,
         members[w] # {}, members[l] # {},
         barred[w] \intersect members[l] = {}, barred[l] \intersect members[w] = {},
         Absorb(w, l), UNCHANGED cannot
  PROVE  TreesAreClusters' /\ BarredOfMembers' /\ NeverTogether'
<1> USE DEF ClusteringInv
<1> DEFINE both == members[w] \union members[l]
<1>1. /\ members' = [x \in Nodes |-> IF x = w THEN both ELSE IF x = l THEN {} ELSE members[x]]
      /\ barred' = [x \in Nodes |-> IF x = w THEN barred[w] \union barred[l]
                                    ELSE IF x = l THEN {} ELSE barred[x]]
      /\ parent' = [x \in Nodes |-> IF x = l THEN w ELSE parent[x]]
  <2>1. members' = [x \in Nodes |-> IF x = w THEN both ELSE IF x = l THEN {} ELSE members[x]]
    BY DEF Absorb, ClusteringTypeOK
  <2>2. barred' = [x \in Nodes |-> IF x = w THEN barred[w] \union barred[l]
                                   ELSE IF x = l THEN {} ELSE barred[x]]
    BY DEF Absorb, ClusteringTypeOK
  <2>3. parent' = [x \in Nodes |-> IF x = l THEN w ELSE parent[x]]
    BY DEF Absorb, ClusteringTypeOK
  <2> QED
    BY <2>1, <2>2, <2>3
<1>2. parent[w] = w /\ parent[l] = l /\ w \in members[w] /\ l \in members[l]
  BY DEF TreesAreClusters
<1>3. TreesAreClusters'
  <2>1. \A x \in Nodes : \E r \in Nodes : x \in members'[r]
    BY <1>1 DEF TreesAreClusters
  <2>2. \A q, r \in Nodes : members'[q] \intersect members'[r] # {} => q = r
    BY <1>1 DEF TreesAreClusters
  <2>3. \A r \in Nodes : members'[r] # {} <=> parent'[r] = r
    BY <1>1, <1>2 DEF TreesAreClusters
  <2>4. \A r \in Nodes : members'[r] # {} => r \in members'[r]
    BY <1>1, <1>2 DEF TreesAreClusters
  <2>5. \A r \in Nodes : \A x \in members'[r] : parent'[x] \in members'[r]
    <3> SUFFICES ASSUME NEW r \in Nodes, NEW x \in members'[r]
                 PROVE  parent'[x] \in members'[r]
      OBVIOUS
    <3>1. x \in Nodes
      BY <1>1 DEF ClusteringTypeOK
    <3>2. CASE r = w
      BY <1>1, <1>2, <3>1, <3>2 DEF TreesAreClusters
    <3>3. CASE r # w
      <4>1. r # l /\ x \in members[r] /\ x # l
        BY <1>1, <1>2, <3>3 DEF TreesAreClusters
      <4> QED
        BY <1>1, <3>1, <3>3, <4>1 DEF TreesAreClusters
    <3> QED
      BY <3>2, <3>3
  <2> QED
    BY <2>1, <2>2, <2>3, <2>4, <2>5 DEF TreesAreClusters
<1>4. BarredOfMembers'
  BY <1>1 DEF BarredOfMembers, Barred
<1>5. \A x \in members[w], y \in members[l] : ~Barred(x, y)
  BY DEF BarredOfMembers, ClusteringTypeOK
<1>6. NeverTogether'
  <2> SUFFICES ASSUME NEW r \in Nodes, NEW x \in members'[r], NEW y \in members'[r]
               PROVE  ~Barred(x, y)
    BY DEF NeverTogether, Barred
  <2>1. CASE r = w
    <3>1. x \in both /\ y \in both
      BY <1>1, <2>1
    <3>2. \A z \in members[w], v \in members[l] : ~Barred(v, z)
      BY <1>5 DEF Barred
    <3> QED
      BY <1>5, <3>1, <3>2 DEF NeverTogether
  <2>2. CASE r # w
    <3>1. x \in members[r] /\ y \in members[r]
      BY <1>1, <2>2
    <3> QED
      BY <3>1 DEF NeverTogether
  <2> QED
    BY <2>1, <2>2
<1> QED
  BY <1>3, <1>4, <1>6

\* The step of union that merges.
LEMMA UnionPreserves ==
  ASSUME ClusteringInv, Union
  PROVE  ClusteringInv'
<1> USE DEF ClusteringInv
<1>1. edge \in todo /\ ra \in Nodes /\ root \in Nodes
  BY DEF Union, ClusteringTypeOK
<1>2. members[ra] # {} /\ members[root] # {}
  BY <1>1 DEF Union, FindStaysInTree, TreesAreClusters
<1>3. barred[ra] \intersect members[root] = {} /\ barred[root] \intersect members[ra] = {}
  BY DEF Union, Clash
<1>4. Absorb(root, ra) \/ Absorb(ra, root)
  BY DEF Union
<1>5. ra # root /\ UNCHANGED cannot
  BY DEF Union
<1>6. TreesAreClusters' /\ BarredOfMembers' /\ NeverTogether'
  BY <1>1, <1>2, <1>3, <1>4, <1>5, AbsorbPreserves
<1>7. ClusteringTypeOK'
  BY <1>1, <1>4 DEF Union, Absorb, ClusteringTypeOK
<1>8. FindStaysInTree'
  BY DEF Union, FindStaysInTree
<1> QED
  BY <1>6, <1>7, <1>8

\* One step per action; all but the two above leave the partition alone.
LEMMA ClusteringGoesOn == ClusteringInv /\ [ClusteringNext]_clustering => ClusteringInv'
<1> SUFFICES ASSUME ClusteringInv, [ClusteringNext]_clustering PROVE ClusteringInv'
  OBVIOUS
<1> USE DEF ClusteringInv
<1>1. CASE TakeEdge
  <2>1. TreesAreClusters' /\ BarredOfMembers' /\ NeverTogether'
    BY <1>1, PartitionUnchanged DEF TakeEdge
  <2>2. ClusteringTypeOK' /\ FindStaysInTree'
    BY <1>1, EdgesAssumption DEF TakeEdge, ClusteringTypeOK, FindStaysInTree, TreesAreClusters, partition
  <2> QED
    BY <2>1, <2>2
<1>2. CASE Climb
  <2>1. TreesAreClusters' /\ BarredOfMembers' /\ NeverTogether'
    BY <1>2, PartitionUnchanged DEF Climb
  <2>2. PICK r \in Nodes : node \in members[r] /\ root \in members[r]
    BY <1>2 DEF Climb, FindStaysInTree
  <2>3. parent[root] \in members[r] /\ parent[root] \in Nodes
    BY <1>2, <2>2 DEF Climb, ClusteringTypeOK, TreesAreClusters
  <2>4. ClusteringTypeOK'
    BY <1>2, <2>3 DEF Climb, ClusteringTypeOK, partition
  <2>5. FindStaysInTree'
    <3>1. CASE pc = "climb_a"
      BY <1>2, <2>3, <3>1 DEF Climb, ClusteringTypeOK, FindStaysInTree, TreesAreClusters, partition
    <3>2. CASE pc = "climb_b"
      BY <1>2, <2>3, <3>2 DEF Climb, ClusteringTypeOK, FindStaysInTree, TreesAreClusters, partition
    <3> QED
      BY <1>2, <3>1, <3>2 DEF Climb
  <2> QED
    BY <2>1, <2>4, <2>5
<1>3. CASE TopReached
  <2>1. TreesAreClusters' /\ BarredOfMembers' /\ NeverTogether'
    BY <1>3, PartitionUnchanged DEF TopReached
  <2>2. ClusteringTypeOK' /\ FindStaysInTree'
    BY <1>3 DEF TopReached, ClusteringTypeOK, FindStaysInTree, partition, call
  <2> QED
    BY <2>1, <2>2
<1>4. CASE Squash
  BY <1>4, SquashPreserves
<1>5. CASE FoundA
  <2>1. TreesAreClusters' /\ BarredOfMembers' /\ NeverTogether'
    BY <1>5, PartitionUnchanged DEF FoundA
  <2>2. edge.a \in Nodes /\ edge.b \in Nodes
    BY <1>5, CallIsTyped DEF FoundA
  <2>3. edge.a \in members[root]
    BY <1>5, TopIsKey DEF FoundA, FindStaysInTree
  <2>4. \E r \in Nodes : edge.b \in members[r]
    BY <2>2 DEF TreesAreClusters
  <2>5. ClusteringTypeOK'
    BY <1>5, <2>2 DEF FoundA, ClusteringTypeOK, partition
  <2>6. FindStaysInTree'
    BY <1>5, <2>3, <2>4 DEF FoundA, FindStaysInTree, partition
  <2> QED
    BY <2>1, <2>5, <2>6
<1>6. CASE FoundB
  <2>1. TreesAreClusters' /\ BarredOfMembers' /\ NeverTogether'
    BY <1>6, PartitionUnchanged DEF FoundB
  <2>2. ClusteringTypeOK' /\ FindStaysInTree'
    BY <1>6 DEF FoundB, ClusteringTypeOK, FindStaysInTree, partition, call
  <2> QED
    BY <2>1, <2>2
<1>7. CASE Same
  <2>1. TreesAreClusters' /\ BarredOfMembers' /\ NeverTogether'
    BY <1>7, PartitionUnchanged DEF Same
  <2>2. ClusteringTypeOK' /\ FindStaysInTree'
    BY <1>7 DEF Same, ClusteringTypeOK, FindStaysInTree, partition, call
  <2> QED
    BY <2>1, <2>2
<1>8. CASE Refuse
  <2>1. TreesAreClusters' /\ BarredOfMembers' /\ NeverTogether'
    BY <1>8, PartitionUnchanged DEF Refuse
  <2>2. ClusteringTypeOK' /\ FindStaysInTree'
    BY <1>8, CallIsTyped DEF Refuse, ClusteringTypeOK, FindStaysInTree, partition, call
  <2> QED
    BY <2>1, <2>2
<1>9. CASE Union
  BY <1>9, UnionPreserves
<1>10. CASE UNCHANGED clustering
  <2>1. TreesAreClusters' /\ BarredOfMembers' /\ NeverTogether'
    BY <1>10, PartitionUnchanged DEF clustering
  <2>2. ClusteringTypeOK' /\ FindStaysInTree'
    BY <1>10 DEF clustering, ClusteringTypeOK, FindStaysInTree, partition, call
  <2> QED
    BY <2>1, <2>2
<1> QED
  BY ONLY [ClusteringNext]_clustering, <1>1, <1>2, <1>3, <1>4, <1>5, <1>6, <1>7, <1>8, <1>9, <1>10 DEF ClusteringNext

\* The inductive invariant of the union-find.
THEOREM ClusteringInvariant == ClusteringSpec => []ClusteringInv
  BY ClusteringBegins, ClusteringGoesOn, PTL DEF ClusteringSpec

\* Records a cannot-link parts are never put in one cluster, at any step and
\* through any chain of edges.
THEOREM CannotLinksHold == ClusteringSpec => []NeverTogether
<1>1. ClusteringInv => NeverTogether
  BY DEF ClusteringInv
<1> QED
  BY <1>1, ClusteringInvariant, PTL

-----------------------------------------------------------------------------
(* The union-find implements the set-level definition.                     *)

\* The edge union is called with is the strongest of those left.
EdgeIsStrongest == pc # "next" => Greedy!Strongest(edge, todo)

LEMMA StepStrongest ==
  ASSUME ClusteringTypeOK, EdgeIsStrongest, [ClusteringNext]_clustering
  PROVE  EdgeIsStrongest'
<1>1. CASE TakeEdge
  BY <1>1 DEF TakeEdge, EdgeIsStrongest, Greedy!Strongest, Before, Greedy!Before
<1>2. CASE UNCHANGED <<edge, todo>> /\ pc # "next"
  BY <1>2 DEF EdgeIsStrongest, Greedy!Strongest, Greedy!Before
<1>3. CASE pc' = "next"
  BY <1>3 DEF EdgeIsStrongest
<1>4. CASE UNCHANGED clustering
  BY <1>4 DEF clustering, call, EdgeIsStrongest, Greedy!Strongest, Greedy!Before
<1> QED
  BY <1>1, <1>2, <1>3, <1>4
     DEF ClusteringNext, Climb, TopReached, Squash, FoundA, FoundB, Same, Refuse, Union, call

\* The cluster of a node is what its root lists.
LEMMA ClusterIsListed ==
  ASSUME ClusteringTypeOK, TreesAreClusters, NEW r \in Nodes, NEW x \in members[r]
  PROVE  x \in Nodes /\ GroupOf(x) = members[r] /\ Groups[x] = members[r]
<1>1. x \in Nodes
  BY DEF ClusteringTypeOK
<1>2. {q \in Nodes : x \in members[q]} = {r}
  BY DEF TreesAreClusters
<1>3. GroupOf(x) = members[r]
  BY <1>2 DEF GroupOf
<1> QED
  BY <1>1, <1>3 DEF Groups

\* At the end of union's two finds, the two roots list the clusters of the
\* edge's ends.
LEMMA RootsList ==
  ASSUME ClusteringInv, pc = "union"
  PROVE  /\ ra \in Nodes /\ root \in Nodes
         /\ edge.a \in Nodes /\ Groups[edge.a] = members[ra]
         /\ edge.b \in Nodes /\ Groups[edge.b] = members[root]
         /\ members[ra] # {} /\ members[root] # {}
         /\ ra # root => members[ra] \intersect members[root] = {}
<1> USE DEF ClusteringInv
<1>1. ra \in Nodes /\ root \in Nodes /\ parent[root] = root
  BY DEF ClusteringTypeOK, FindStaysInTree
<1>2. edge.a \in members[ra]
  BY DEF FindStaysInTree
<1>3. PICK r \in Nodes : edge.b \in members[r] /\ root \in members[r]
  BY DEF FindStaysInTree
<1>4. r = root
  BY <1>1, <1>3, TopIsKey
<1>5. edge.a \in Nodes /\ Groups[edge.a] = members[ra]
  BY <1>1, <1>2, ClusterIsListed
<1>6. edge.b \in Nodes /\ Groups[edge.b] = members[root]
  BY <1>1, <1>3, <1>4, ClusterIsListed
<1>7. ra # root => members[ra] \intersect members[root] = {}
  BY <1>1 DEF TreesAreClusters
<1> QED
  BY <1>1, <1>2, <1>3, <1>4, <1>5, <1>6, <1>7

\* Two clusters that one root has absorbed are merged, the others as before.
LEMMA AbsorbMerges ==
  ASSUME ClusteringInv, ClusteringTypeOK', TreesAreClusters', NEW w \in Nodes, NEW l \in Nodes, w # l,
         members[w] # {}, members[l] # {}, Absorb(w, l)
  PROVE  Groups' = [x \in Nodes |-> IF x \in members[w] \union members[l]
                                      THEN members[w] \union members[l] ELSE Groups[x]]
<1> USE DEF ClusteringInv
<1> DEFINE both == members[w] \union members[l]
<1>1. members' = [x \in Nodes |-> IF x = w THEN both ELSE IF x = l THEN {} ELSE members[x]]
  BY DEF Absorb, ClusteringTypeOK
<1>2. \A x \in Nodes : Groups'[x] = GroupOf(x)'
  BY DEF Groups
<1>3. ASSUME NEW x \in Nodes, x \in both PROVE GroupOf(x)' = both
  <2>1. \A q \in Nodes : x \in members'[q] <=> q = w
    BY <1>1, <1>3 DEF TreesAreClusters
  <2>2. {q \in Nodes : x \in members'[q]} = {w} /\ members'[w] = both
    BY <1>1, <2>1
  <2> HIDE DEF both
  <2> QED
    BY <2>2 DEF GroupOf
<1>4. ASSUME NEW x \in Nodes, x \notin both PROVE GroupOf(x)' = Groups[x]
  <2>1. PICK r \in Nodes : x \in members[r]
    BY DEF TreesAreClusters
  <2>2. r # w /\ r # l /\ members'[r] = members[r]
    BY <1>1, <1>4, <2>1
  <2>3. \A q \in Nodes : x \in members'[q] <=> q = r
    BY <1>1, <1>4, <2>1, <2>2 DEF TreesAreClusters
  <2>4. {q \in Nodes : x \in members'[q]} = {r}
    BY <2>3
  <2>5. GroupOf(x)' = members[r]
    BY <2>2, <2>4 DEF GroupOf
  <2> QED
    BY <2>1, <2>5, ClusterIsListed
<1>5. Groups' = [x \in Nodes |-> Groups'[x]]
  BY DEF Groups
<1> QED
  BY <1>2, <1>3, <1>4, <1>5

LEMMA InitGreedy == ClusteringInit => Greedy!Init /\ EdgeIsStrongest
<1> SUFFICES ASSUME ClusteringInit PROVE Greedy!Init /\ EdgeIsStrongest
  OBVIOUS
<1>1. ASSUME NEW x \in Nodes PROVE GroupOf(x) = {x}
  <2>1. {q \in Nodes : x \in members[q]} = {x} /\ members[x] = {x}
    BY DEF ClusteringInit
  <2> QED
    BY <2>1 DEF GroupOf
<1>2. Groups = [x \in Nodes |-> {x}]
  BY <1>1 DEF Groups
<1> QED
  BY <1>2 DEF ClusteringInit, Greedy!Init, TwoNodes, EdgeIsStrongest

\* A step of union considers its edge; every other step changes nothing that
\* a caller sees.
LEMMA StepGreedy ==
  ASSUME ClusteringInv, ClusteringInv', EdgeIsStrongest, [ClusteringNext]_clustering
  PROVE  [Greedy!Next]_(Greedy!vars)
<1>1. CASE UNCHANGED <<cannot, todo, refused, members>>
  BY <1>1 DEF Greedy!vars, Groups, GroupOf
<1>2. ASSUME Same \/ Refuse \/ Union
      PROVE  /\ edge \in todo /\ Greedy!Strongest(edge, todo) /\ todo' = todo \ {edge}
             /\ UNCHANGED cannot /\ pc = "union"
  BY <1>2 DEF Same, Refuse, Union, EdgeIsStrongest, Greedy!Strongest
<1> DEFINE A == Groups[edge.a]
           B == Groups[edge.b]
<1>3. CASE Same
  <2>1. A = B
    BY <1>2, <1>3, RootsList DEF Same
  <2>2. UNCHANGED <<Groups, refused>>
    BY <1>3 DEF Same, partition, Groups, GroupOf
  <2>3. Greedy!Consider(edge)
    BY <1>2, <1>3, <2>1, <2>2 DEF Greedy!Consider
  <2> QED
    BY <1>2, <1>3, <2>3 DEF Greedy!Next
<1>4. CASE Refuse
  <2>1. A = members[ra] /\ B = members[root] /\ A # B /\ ra \in Nodes /\ root \in Nodes
    BY <1>2, <1>4, RootsList DEF Refuse
  <2>2. members[ra] # {} /\ members[root] # {}
    BY <1>2, <1>4, RootsList
  <2>3. \E x \in members[ra], y \in members[root] : Barred(x, y)
    BY <1>4, <2>1, <2>2 DEF Refuse, Clash, ClusteringInv, BarredOfMembers, Barred
  <2>4. ~Greedy!Compatible(A, B)
    BY <2>1, <2>3 DEF Greedy!Compatible, Greedy!Barred, Barred
  <2>5. UNCHANGED Groups /\ refused' = refused \union {edge}
    BY <1>4 DEF Refuse, partition, Groups, GroupOf
  <2>6. Greedy!Consider(edge)
    BY <1>2, <1>4, <2>1, <2>4, <2>5 DEF Greedy!Consider
  <2> QED
    BY <1>2, <1>4, <2>6 DEF Greedy!Next
<1>5. CASE Union
  <2>1. A = members[ra] /\ B = members[root] /\ A # B /\ ra \in Nodes /\ root \in Nodes /\ ra # root
    BY <1>2, <1>5, RootsList DEF Union
  <2>2. members[ra] # {} /\ members[root] # {}
    BY <1>2, <1>5, RootsList
  <2>3. \A x \in members[ra], y \in members[root] : ~Barred(x, y)
    <3>1. barred[ra] \intersect members[root] = {}
      BY <1>5 DEF Union, Clash
    <3>2. barred[ra] = {y \in Nodes : \E x \in members[ra] : Barred(x, y)}
      BY <2>1, <2>2 DEF ClusteringInv, BarredOfMembers
    <3>3. members[root] \subseteq Nodes
      BY <2>1 DEF ClusteringInv, ClusteringTypeOK
    <3> HIDE DEF A, B
    <3> QED
      BY <3>1, <3>2, <3>3
  <2>4. Greedy!Compatible(A, B)
    BY <2>1, <2>3 DEF Greedy!Compatible, Greedy!Barred, Barred
  <2>5. Absorb(ra, root) \/ Absorb(root, ra)
    BY <1>5 DEF Union
  <2>6. ClusteringTypeOK' /\ TreesAreClusters'
    BY DEF ClusteringInv
  <2>7. Groups' = [x \in Nodes |-> IF x \in members[ra] \union members[root]
                                     THEN members[ra] \union members[root] ELSE Groups[x]]
    <3>1. CASE Absorb(ra, root)
      BY <2>1, <2>2, <2>6, <3>1, AbsorbMerges
    <3>2. CASE Absorb(root, ra)
      <4>1. members[root] \union members[ra] = members[ra] \union members[root]
        OBVIOUS
      <4>2. Groups' = [x \in Nodes |-> IF x \in members[root] \union members[ra]
                                         THEN members[root] \union members[ra] ELSE Groups[x]]
        BY <2>1, <2>2, <2>6, <3>2, AbsorbMerges
      <4> QED
        BY <4>1, <4>2
    <3> QED
      BY <2>5, <3>1, <3>2
  <2>8. Greedy!Merge(A, B)
    BY <2>1, <2>7 DEF Greedy!Merge
  <2>9. Greedy!Consider(edge)
    BY <1>2, <1>5, <2>1, <2>4, <2>8 DEF Greedy!Consider, Union
  <2> QED
    BY <1>2, <1>5, <2>9 DEF Greedy!Next
<1> QED
  BY <1>1, <1>3, <1>4, <1>5
     DEF ClusteringNext, clustering, TakeEdge, Climb, TopReached, Squash, FoundA, FoundB, partition

\* Whatever the graph, the ties and the cannot-links: the union-find, its path
\* compression and its barred sets compute what the set-level definition says,
\* merge for merge and refusal for refusal.
THEOREM Refinement == ClusteringSpec => ImplementsGreedy
<1>1. ClusteringInv => ClusteringTypeOK
  BY DEF ClusteringInv
<1>2. ClusteringSpec => [](ClusteringInv /\ EdgeIsStrongest)
  BY <1>1, ClusteringInvariant, InitGreedy, StepStrongest, PTL DEF ClusteringSpec
<1>3. ClusteringSpec => Greedy!Init /\ [][Greedy!Next]_(Greedy!vars)
  BY <1>2, InitGreedy, StepGreedy, PTL DEF ClusteringSpec
<1> QED
  BY <1>3 DEF ImplementsGreedy, Greedy!Spec

-----------------------------------------------------------------------------
(* What there is to Ends besides fairness.                                 *)

\* A height for every node: a parent is higher than its children, and the
\* root is the highest of its cluster. With one, no walk up goes in circles.
Heights(h) ==
    /\ h \in [Nodes -> Nat]
    /\ \A r \in Nodes : \A x \in members[r] :
        /\ x # r => h[x] < h[r]
        /\ parent[x] # x => h[x] < h[parent[x]]
NoCycle == \E h : Heights(h)

\* How far below the top find has come, in the loop it is in.
Ahead(h) == h[CHOOSE r \in Nodes : root \in members[r]] - h[IF pc \in {"climb_a", "climb_b"} THEN root ELSE node]
Phase == [next |-> 0, climb_a |-> 1, squash_a |-> 2, climb_b |-> 3, squash_b |-> 4, union |-> 5]

\* Every step is done with an edge, enters the next part of the call, or
\* brings the loop of find closer to its end.
FindAdvances ==
    \A h : Heights(h) =>
        \/ todo' # todo /\ todo' \subseteq todo
        \/ todo' = todo /\ Phase[pc'] > Phase[pc] /\ Heights(h)'
        \/ todo' = todo /\ pc' = pc /\ Heights(h)' /\ Ahead(h) \in Nat /\ Ahead(h)' \in Nat /\ Ahead(h)' < Ahead(h)

LEMMA HeightsBegin == ClusteringInit => NoCycle
<1> SUFFICES ASSUME ClusteringInit PROVE NoCycle
  OBVIOUS
<1>1. Heights([x \in Nodes |-> 0])
  BY DEF ClusteringInit, Heights
<1> QED
  BY <1>1 DEF NoCycle

\* Compression goes from a node to the highest of its cluster.
LEMMA SquashHeights ==
  ASSUME ClusteringInv, Squash, NEW h, Heights(h)
  PROVE  /\ Heights(h)'
         /\ Ahead(h) \in Nat /\ Ahead(h)' \in Nat /\ Ahead(h)' < Ahead(h)
<1> USE DEF ClusteringInv
<1>1. edge.a \in Nodes /\ edge.b \in Nodes /\ node \in Nodes /\ root \in Nodes
  BY CallIsTyped DEF Squash, ClusteringTypeOK
<1>2. PICK r \in Nodes : node \in members[r] /\ root \in members[r]
  BY DEF Squash, FindStaysInTree
<1>3. parent[root] = root /\ root = r
  BY <1>2, TopIsKey DEF Squash, FindStaysInTree
<1>4. parent[node] # node
  BY <1>2, <1>3, TopIsKey DEF Squash
<1>5. node # root
  BY <1>1, <1>3, <1>4
<1>6. h \in [Nodes -> Nat] /\ h[node] < h[root] /\ h[node] < h[parent[node]]
  BY <1>2, <1>3, <1>4, <1>5 DEF Heights
<1>7. parent[node] \in members[r] /\ parent[node] \in Nodes
  BY <1>1, <1>2 DEF TreesAreClusters, ClusteringTypeOK
<1>8. h[parent[node]] <= h[root]
  BY <1>2, <1>3, <1>6, <1>7 DEF Heights
<1>9. /\ UNCHANGED <<members, root, pc>> /\ node' = parent[node]
      /\ \A x \in Nodes : parent'[x] = IF x = node THEN root ELSE parent[x]
  BY DEF Squash, ClusteringTypeOK
<1>10. Heights(h)'
  <2> SUFFICES ASSUME NEW q \in Nodes, NEW x \in members[q]
               PROVE  (x # q => h[x] < h[q]) /\ (parent'[x] # x => h[x] < h[parent'[x]])
    BY <1>6, <1>9 DEF Heights
  <2>1. x \in Nodes
    BY DEF ClusteringTypeOK
  <2> QED
    BY <1>6, <1>9, <2>1 DEF Heights
<1>11. (CHOOSE q \in Nodes : root \in members[q]) = root
  <2>1. \A q \in Nodes : root \in members[q] => q = root
    BY <1>2, <1>3 DEF TreesAreClusters
  <2> QED
    BY <1>1, <1>2, <1>3, <2>1
<1>12. Ahead(h) = h[root] - h[node] /\ Ahead(h)' = h[root] - h[parent[node]]
  BY <1>9, <1>11 DEF Ahead, Squash
<1> QED
  BY <1>1, <1>6, <1>7, <1>8, <1>10, <1>12

\* A step of the climb goes to a higher node of the same cluster.
LEMMA ClimbHeights ==
  ASSUME ClusteringInv, Climb, NEW h, Heights(h)
  PROVE  /\ Heights(h)'
         /\ Ahead(h) \in Nat /\ Ahead(h)' \in Nat /\ Ahead(h)' < Ahead(h)
<1> USE DEF ClusteringInv
<1>1. root \in Nodes /\ pc \in {"climb_a", "climb_b"} /\ parent[root] # root
  BY DEF Climb, ClusteringTypeOK
<1>2. PICK r \in Nodes : root \in members[r]
  BY DEF Climb, FindStaysInTree
<1>3. parent[root] \in members[r] /\ parent[root] \in Nodes
  BY <1>1, <1>2 DEF TreesAreClusters, ClusteringTypeOK
<1>4. h \in [Nodes -> Nat] /\ h[root] < h[parent[root]]
  BY <1>1, <1>2 DEF Heights
<1>5. h[parent[root]] <= h[r] /\ h[root] <= h[r]
  <2>1. \A x \in members[r] : x = r \/ h[x] < h[r]
    BY DEF Heights
  <2>2. h[r] \in Nat /\ h[root] \in Nat /\ h[parent[root]] \in Nat
    BY <1>1, <1>3, <1>4
  <2>3. ASSUME NEW x \in members[r], h[x] \in Nat PROVE h[x] <= h[r]
    BY <2>1, <2>2, <2>3
  <2> QED
    BY <1>2, <1>3, <2>2, <2>3
<1>6. UNCHANGED <<members, parent, pc>> /\ root' = parent[root]
  BY DEF Climb, partition
<1>7. \A x \in members[r] : (CHOOSE q \in Nodes : x \in members[q]) = r
  <2> SUFFICES ASSUME NEW x \in members[r] PROVE (CHOOSE q \in Nodes : x \in members[q]) = r
    OBVIOUS
  <2>1. \A q \in Nodes : x \in members[q] => q = r
    BY DEF TreesAreClusters
  <2> QED
    BY <2>1
<1>8. Ahead(h) = h[r] - h[root]
  BY <1>1, <1>2, <1>7 DEF Ahead
<1>9. Ahead(h)' = h[r] - h[parent[root]]
  <2>1. PICK up \in members[r] : up = parent[root]
    BY <1>3
  <2>2. (CHOOSE q \in Nodes : up \in members[q]) = r
    BY <1>7
  <2>3. root' = up /\ members' = members /\ pc' \in {"climb_a", "climb_b"}
    BY <1>1, <1>6, <2>1
  <2> QED
    BY <2>1, <2>2, <2>3 DEF Ahead
<1>10. Heights(h)'
  BY <1>6 DEF Heights
<1> QED
  BY <1>1, <1>2, <1>3, <1>4, <1>5, <1>8, <1>9, <1>10

\* A union puts the winner above everybody.
LEMMA AbsorbHeights ==
  ASSUME ClusteringInv, NEW w \in Nodes, NEW l \in Nodes, w # l,
         members[w] # {}, members[l] # {}, Absorb(w, l), NoCycle
  PROVE  NoCycle'
<1> USE DEF ClusteringInv
<1>1. PICK h : Heights(h)
  BY DEF NoCycle
<1>2. h \in [Nodes -> Nat] /\ h[w] \in Nat /\ h[l] \in Nat
  BY <1>1 DEF Heights
<1> DEFINE g == [x \in Nodes |-> IF x = w THEN h[w] + h[l] + 1 ELSE h[x]]
<1>3. g \in [Nodes -> Nat]
  BY <1>2
<1>4. /\ \A x \in Nodes : members'[x] = IF x = w THEN members[w] \union members[l] ELSE IF x = l THEN {} ELSE members[x]
      /\ \A x \in Nodes : parent'[x] = IF x = l THEN w ELSE parent[x]
  <2>1. /\ parent \in [Nodes -> Nodes]
        /\ members \in [Nodes -> SUBSET Nodes]
    BY DEF ClusteringTypeOK
  <2>2. /\ parent' = [parent EXCEPT ![l] = w]
        /\ members' = [members EXCEPT ![w] = members[w] \union members[l], ![l] = {}]
    BY DEF Absorb
  <2>3. \A x \in Nodes : parent'[x] = IF x = l THEN w ELSE parent[x]
    BY <2>1, <2>2
  <2>4. \A x \in Nodes : members'[x] = IF x = w THEN members[w] \union members[l] ELSE IF x = l THEN {} ELSE members[x]
    BY <2>1, <2>2
  <2> QED
    BY <2>3, <2>4
<1>5. parent[w] = w /\ parent[l] = l /\ w \in members[w] /\ l \in members[l]
  BY DEF TreesAreClusters
<1>6. ASSUME NEW r \in Nodes, NEW x \in members'[r]
      PROVE  (x # r => g[x] < g[r]) /\ (parent'[x] # x => g[x] < g[parent'[x]])
  <2>1. x \in Nodes /\ r # l /\ h[x] \in Nat /\ h[r] \in Nat /\ parent[x] \in Nodes
    BY <1>2, <1>4, <1>6 DEF ClusteringTypeOK
  <2>2. CASE x \in members[w] \union members[l]
    <3>1. r = w
      BY <1>4, <1>6, <2>1, <2>2 DEF TreesAreClusters
    <3>2. x # w => h[x] < h[w] + h[l] + 1
      BY <1>1, <1>2, <2>1, <2>2 DEF Heights
    <3>3. x # w => g[x] < g[w]
      BY <2>1, <3>2
    <3>4. ASSUME parent'[x] # x PROVE g[x] < g[parent'[x]]
      <4>1. x # w
        BY <1>4, <1>5, <3>4
      <4>2. CASE parent'[x] = w
        BY <3>3, <4>1, <4>2
      <4>3. CASE parent'[x] # w
        <5>1. parent'[x] = parent[x] /\ parent[x] # x /\ parent[x] # w
          BY <1>4, <2>1, <3>4, <4>3
        <5>2. h[x] < h[parent[x]]
          BY <1>1, <2>2, <5>1 DEF Heights
        <5> QED
          BY <2>1, <4>1, <5>1, <5>2
      <4> QED
        BY <4>2, <4>3
    <3> QED
      BY <3>1, <3>3, <3>4
  <2>3. CASE x \notin members[w] \union members[l]
    <3>1. r # w /\ x \in members[r] /\ x # w /\ x # l
      BY <1>4, <1>5, <1>6, <2>1, <2>3
    <3>2. x # r => h[x] < h[r]
      BY <1>1, <3>1 DEF Heights
    <3>3. parent'[x] = parent[x] /\ parent[x] \in members[r]
      BY <1>4, <2>1, <3>1 DEF TreesAreClusters
    <3>4. parent[x] # w
      BY <1>5, <3>1, <3>3 DEF TreesAreClusters
    <3>5. parent[x] # x => h[x] < h[parent[x]]
      BY <1>1, <3>1 DEF Heights
    <3> QED
      BY <2>1, <3>1, <3>2, <3>3, <3>4, <3>5
  <2> QED
    BY <2>2, <2>3
<1> HIDE DEF g
<1>7. Heights(g)'
  BY <1>3, <1>6 DEF Heights
<1> QED
  BY <1>7 DEF NoCycle

LEMMA HeightsGoOn == ClusteringInv /\ NoCycle /\ [ClusteringNext]_clustering => NoCycle'
<1> SUFFICES ASSUME ClusteringInv, NoCycle, [ClusteringNext]_clustering PROVE NoCycle'
  OBVIOUS
<1>1. CASE UNCHANGED <<members, parent>>
  BY <1>1 DEF NoCycle, Heights
<1>2. CASE Squash
  BY <1>2, SquashHeights DEF NoCycle
<1>3. CASE Union
  <2>1. ra \in Nodes /\ root \in Nodes /\ ra # root
    BY <1>3 DEF Union, ClusteringInv, ClusteringTypeOK
  <2>2. members[ra] # {} /\ members[root] # {}
    BY <1>3, <2>1 DEF Union, ClusteringInv, FindStaysInTree, TreesAreClusters
  <2>3. Absorb(root, ra) \/ Absorb(ra, root)
    BY <1>3 DEF Union
  <2> QED
    BY <2>1, <2>2, <2>3, AbsorbHeights
<1> QED
  BY <1>1, <1>2, <1>3 DEF ClusteringNext, clustering, partition, TakeEdge, Climb, TopReached, FoundA, FoundB, Same, Refuse

LEMMA StepAdvances == ClusteringInv /\ [ClusteringNext]_clustering => [FindAdvances]_clustering
<1> SUFFICES ASSUME ClusteringInv, ClusteringNext, NEW h, Heights(h)
             PROVE \/ todo' # todo /\ todo' \subseteq todo
                   \/ todo' = todo /\ Phase[pc'] > Phase[pc] /\ Heights(h)'
                   \/ todo' = todo /\ pc' = pc /\ Heights(h)' /\ Ahead(h) \in Nat /\ Ahead(h)' \in Nat /\ Ahead(h)' < Ahead(h)
  BY DEF FindAdvances
<1>1. CASE TakeEdge \/ TopReached \/ FoundA \/ FoundB
  <2>1. todo' = todo /\ UNCHANGED <<members, parent>>
    BY <1>1 DEF TakeEdge, TopReached, FoundA, FoundB, partition
  <2>2. Heights(h)'
    BY <2>1 DEF Heights
  <2>3. Phase[pc'] > Phase[pc]
    BY <1>1 DEF TakeEdge, TopReached, FoundA, FoundB, Phase
  <2> QED
    BY <2>1, <2>2, <2>3
<1>2. CASE Climb
  BY <1>2, ClimbHeights DEF Climb
<1>3. CASE Squash
  BY <1>3, SquashHeights DEF Squash
<1>4. CASE Same \/ Refuse \/ Union
  BY <1>4 DEF Same, Refuse, Union, ClusteringInv, ClusteringTypeOK
<1> QED
  BY <1>1, <1>2, <1>3, <1>4 DEF ClusteringNext

\* Some edge comes first of the rest.
NextEdge == todo # {} => \E e \in todo : \A f \in todo \ {e} : Before(e, f)
LEMMA FirstEdge == ASSUME ClusteringTypeOK, IsFiniteSet(Edges) PROVE NextEdge
<1> SUFFICES ASSUME todo # {} PROVE \E e \in todo : \A f \in todo \ {e} : Before(e, f)
  BY DEF NextEdge
<1>1. todo \subseteq [a : Nodes, b : Nodes, score : Int] /\ todo \subseteq Edges
  BY EdgesAssumption DEF ClusteringTypeOK
<1>2. IsFiniteSet(todo)
  BY <1>1, FS_Subset
<1> DEFINE NotAfter(e) == {f \in todo : f = e \/ Before(f, e)}
           bad == {NotAfter(e) : e \in todo}
<1>3. bad \in SUBSET SUBSET todo /\ bad # {}
  OBVIOUS
<1> HIDE DEF bad
<1>4. PICK T \in bad : \A U \in bad : U \subseteq T => U = T
  BY <1>2, <1>3, LeastSubset
<1>5. PICK e \in todo : T = NotAfter(e)
  BY <1>4 DEF bad
<1>6. \A f, g \in todo : f.a \in Int /\ f.b \in Int /\ f.score \in Int /\ (f.a = g.a /\ f.b = g.b /\ f.score = g.score => f = g)
  <2>1. \A f \in todo : f \in [a : Nodes, b : Nodes, score : Int]
    BY <1>1
  <2>2. \A f \in todo : f = [a |-> f.a, b |-> f.b, score |-> f.score]
    BY <2>1
  <2>3. \A f \in todo : f.a \in Nodes /\ f.b \in Nodes /\ f.score \in Int
    BY <2>1
  <2>4. \A f, g \in todo : f.a = g.a /\ f.b = g.b /\ f.score = g.score => f = g
    BY <2>2, Zenon
  <2> QED
    BY <2>3, <2>4, NodesAssumption
<1>7. ASSUME NEW f \in todo, f # e, ~Before(e, f) PROVE FALSE
  <2>1. Before(f, e) /\ ~Before(e, f)
    BY <1>6, <1>7 DEF Before
  <2>2. \A g \in todo : Before(g, f) => Before(g, e)
    BY <1>6, <2>1 DEF Before
  <2>3. NotAfter(f) \subseteq NotAfter(e)
    BY <2>1, <2>2
  <2>4. e \in NotAfter(e) /\ e \notin NotAfter(f)
    BY <1>7
  <2>5. NotAfter(f) \in bad
    BY DEF bad
  <2> HIDE DEF NotAfter
  <2> QED
    BY <1>4, <1>5, <2>3, <2>4, <2>5
<1> QED
  BY <1>7

\* The union-find always comes to an end, fairness granted: no parent chain
\* goes in circles, each step is done with an edge, enters the next part of
\* a call or brings find closer to its root, and of finitely many edges
\* there is always a next one to take.
THEOREM FindsCannotLoop ==
  ASSUME IsFiniteSet(Edges)
  PROVE  ClusteringSpec => [](NoCycle /\ NextEdge) /\ [][FindAdvances]_clustering
<1>1. ClusteringInv => NextEdge
  BY FirstEdge DEF ClusteringInv
<1> QED
  BY ClusteringInvariant, HeightsBegin, HeightsGoOn, StepAdvances, <1>1, PTL DEF ClusteringSpec

-----------------------------------------------------------------------------
(* The rows.                                                               *)

RowsOK ==
    /\ status \in [Pairs -> Statuses]
    /\ shared \subseteq Pairs
    /\ DOMAIN run = Commands
    /\ \A c \in Commands :
        /\ run[c].todo \subseteq Pairs
        /\ DOMAIN run[c].rows \subseteq Pairs
        /\ DOMAIN run[c] = DOMAIN Idle
        /\ run[c].at = "answer" => run[c].verdict \in HumanStatuses
        /\ run[c].at = "answer" => run[c].pair \in Pairs

\* What a command remembers of the rows is still so.
RowsRemembered ==
    \A c \in Commands :
        /\ run[c].at = "score" => \A p \in run[c].todo : status[p] = "none"
        /\ run[c].at = "upgrade" =>
            \A p \in DOMAIN run[c].rows : status[p] \in {"none", "needs_review"}

\* Before the first command there is no row to remember.
LEMMA InitRows == Init => RowsOK /\ RowsRemembered
  BY DEF Init, RowsOK, RowsRemembered, Idle, Statuses

\* One step per action: the rows and what a command is about stay well formed.
LEMMA StepRows == RowsOK /\ [Next]_vars => RowsOK'
<1> SUFFICES ASSUME RowsOK, [Next]_vars PROVE RowsOK'
  OBVIOUS
<1> USE DEF RowsOK, evidence, Become, Close, Idle, At, Statuses, HumanStatuses
<1>1. ASSUME NEW c \in Commands, StartDedupe(c) PROVE RowsOK'
  BY <1>1 DEF StartDedupe
<1>2. ASSUME NEW c \in Commands, Reset(c) PROVE RowsOK'
  BY <1>2 DEF Reset
<1>3. ASSUME NEW c \in Commands, Load(c) PROVE RowsOK'
  BY <1>3 DEF Load
<1>4. ASSUME NEW c \in Commands, ScoreBatch(c) PROVE RowsOK'
  BY <1>4 DEF ScoreBatch, NextBatch
<1>5. ASSUME NEW c \in Commands, ScoreBatchCollides(c) PROVE RowsOK'
  BY <1>5 DEF ScoreBatchCollides
<1>6. ASSUME NEW c \in Commands, Weigh(c) PROVE RowsOK'
  <2> DEFINE apart == Rejected \union run[c].known.conflict
             cluster == Clusters(Links, apart)
  <2>1. PICK S \in SUBSET Joining(cluster) :
          run' = [run EXCEPT ![c] = [run[c] EXCEPT !.at = "lookup",
                                                   !.todo = Surviving(S, cluster, apart),
                                                   !.known = <<>>]]
    BY <1>6 DEF Weigh
  <2>2. Surviving(S, cluster, apart) \subseteq Pairs
    BY DEF Surviving, Joining
  <2>3. UNCHANGED <<status, shared>>
    BY <1>6 DEF Weigh
  <2> HIDE DEF cluster, apart
  <2> DEFINE found == Surviving(S, cluster, apart)
  <2> HIDE DEF found
  <2>4. run' = [run EXCEPT ![c] = [run[c] EXCEPT !.at = "lookup", !.todo = found, !.known = <<>>]]
    BY <2>1 DEF found
  <2>5. found \subseteq Pairs
    BY <2>2 DEF found
  <2> QED
    BY <2>3, <2>4, <2>5
<1>7. ASSUME NEW c \in Commands, Lookup(c) PROVE RowsOK'
  BY <1>7 DEF Lookup
<1>8. ASSUME NEW c \in Commands, Upgrade(c) PROVE RowsOK'
  BY <1>8 DEF Upgrade
<1>9. ASSUME NEW c \in Commands, UpgradeCollides(c) PROVE RowsOK'
  BY <1>9 DEF UpgradeCollides
<1>10. ASSUME NEW c \in Commands, StartReview(c) PROVE RowsOK'
  BY <1>10 DEF StartReview
<1>11. ASSUME NEW c \in Commands, Answer(c) PROVE RowsOK'
  BY <1>11 DEF Answer
<1>12. ASSUME NEW c \in Commands, AnswerIsStale(c) PROVE RowsOK'
  BY <1>12 DEF AnswerIsStale
<1>13. ASSUME NEW c \in Commands, ReadEntities(c) PROVE RowsOK'
  BY <1>13 DEF ReadEntities
<1>14. ASSUME NEW c \in Commands, ReadMatches(c) PROVE RowsOK'
  BY <1>14 DEF ReadMatches
<1>15. ASSUME NEW c \in Commands, Write(c) PROVE RowsOK'
  BY <1>15 DEF Write
<1>16. ASSUME NEW c \in Commands, Killed(c) PROVE RowsOK'
  BY <1>16 DEF Killed
<1>17. ASSUME NEW x \in Persons, News(x) PROVE RowsOK'
  BY <1>17 DEF News
<1>18. CASE UNCHANGED vars
  BY <1>18 DEF vars
<1> QED
  BY ONLY [Next]_vars, <1>1, <1>2, <1>3, <1>4, <1>5, <1>6, <1>7, <1>8, <1>9, <1>10, <1>11,
     <1>12, <1>13, <1>14, <1>15, <1>16, <1>17, <1>18
     DEF Next, Step, Dedupe, Human, Apply

\* A session alone finds the rows as it read them.
LEMMA StepRemembered ==
  ASSUME \A c, d \in Commands : c = d, RowsOK, RowsRemembered, [Next]_vars
  PROVE  RowsRemembered'
<1> USE DEF RowsOK, RowsRemembered, evidence, Become, Close, Idle, At, Statuses, HumanStatuses
<1>1. ASSUME NEW c \in Commands, StartDedupe(c) PROVE RowsRemembered'
  BY <1>1 DEF StartDedupe
<1>2. ASSUME NEW c \in Commands, Reset(c) PROVE RowsRemembered'
  BY <1>2 DEF Reset
<1>3. ASSUME NEW c \in Commands, Load(c) PROVE RowsRemembered'
  BY <1>3 DEF Load
<1>4. ASSUME NEW c \in Commands, ScoreBatch(c) PROVE RowsRemembered'
  BY <1>4 DEF ScoreBatch, NextBatch
<1>5. ASSUME NEW c \in Commands, ScoreBatchCollides(c) PROVE RowsRemembered'
  BY <1>5 DEF ScoreBatchCollides
<1>6. ASSUME NEW c \in Commands, Weigh(c) PROVE RowsRemembered'
  BY <1>6 DEF Weigh
<1>7. ASSUME NEW c \in Commands, Lookup(c) PROVE RowsRemembered'
  BY <1>7 DEF Lookup
<1>8. ASSUME NEW c \in Commands, Upgrade(c) PROVE RowsRemembered'
  BY <1>8 DEF Upgrade
<1>9. ASSUME NEW c \in Commands, UpgradeCollides(c) PROVE RowsRemembered'
  BY <1>9 DEF UpgradeCollides
<1>10. ASSUME NEW c \in Commands, StartReview(c) PROVE RowsRemembered'
  BY <1>10 DEF StartReview
<1>11. ASSUME NEW c \in Commands, Answer(c) PROVE RowsRemembered'
  BY <1>11 DEF Answer
<1>12. ASSUME NEW c \in Commands, AnswerIsStale(c) PROVE RowsRemembered'
  BY <1>12 DEF AnswerIsStale
<1>13. ASSUME NEW c \in Commands, ReadEntities(c) PROVE RowsRemembered'
  BY <1>13 DEF ReadEntities
<1>14. ASSUME NEW c \in Commands, ReadMatches(c) PROVE RowsRemembered'
  BY <1>14 DEF ReadMatches
<1>15. ASSUME NEW c \in Commands, Write(c) PROVE RowsRemembered'
  BY <1>15 DEF Write
<1>16. ASSUME NEW c \in Commands, Killed(c) PROVE RowsRemembered'
  BY <1>16 DEF Killed
<1>17. ASSUME NEW x \in Persons, News(x) PROVE RowsRemembered'
  BY <1>17 DEF News
<1>18. CASE UNCHANGED vars
  BY <1>18 DEF vars
<1> QED
  BY ONLY [Next]_vars, <1>1, <1>2, <1>3, <1>4, <1>5, <1>6, <1>7, <1>8, <1>9, <1>10, <1>11,
     <1>12, <1>13, <1>14, <1>15, <1>16, <1>17, <1>18
     DEF Next, Step, Dedupe, Human, Apply

\* The actions that write rows, and the ones that leave them alone.
LEMMA RowWriters ==
  ASSUME [Next]_vars
  PROVE  \/ UNCHANGED status
         \/ \E c \in Commands : Reset(c) \/ ScoreBatch(c) \/ Upgrade(c) \/ Answer(c)
  BY DEF Next, Step, Dedupe, Human, Apply, vars, StartDedupe, Load, ScoreBatchCollides, Weigh, Lookup,
         UpgradeCollides, StartReview, AnswerIsStale, ReadEntities, ReadMatches, Write, Killed, News

\* Only an answer takes a session from a review to applying it.
LEMMA AnswersOnly ==
  ASSUME RowsOK, Next, NEW c \in Commands, run[c].at = "answer", run'[c].at = "entities"
  PROVE  Answer(c)
<1> USE DEF RowsOK, Become, Close, At, Idle
<1>1. ASSUME NEW d \in Commands, Answer(d) PROVE Answer(c)
  BY <1>1 DEF Answer
<1>2. ASSUME NEW d \in Commands, StartDedupe(d) PROVE FALSE
  BY <1>2 DEF StartDedupe
<1>3. ASSUME NEW d \in Commands, Reset(d) \/ Load(d) PROVE FALSE
  BY <1>3 DEF Reset, Load
<1>4. ASSUME NEW d \in Commands, ScoreBatch(d) PROVE FALSE
  BY <1>4 DEF ScoreBatch, NextBatch
<1>5. ASSUME NEW d \in Commands, ScoreBatchCollides(d) PROVE FALSE
  BY <1>5 DEF ScoreBatchCollides, NextBatch, Idle
<1>6. ASSUME NEW d \in Commands, Weigh(d) PROVE FALSE
  BY <1>6 DEF Weigh
<1>7. ASSUME NEW d \in Commands, Lookup(d) \/ Upgrade(d) PROVE FALSE
  BY <1>7 DEF Lookup, Upgrade
<1>8. ASSUME NEW d \in Commands, StartReview(d) PROVE FALSE
  BY <1>8 DEF StartReview
<1>9. ASSUME NEW d \in Commands, ReadEntities(d) \/ ReadMatches(d) PROVE FALSE
  BY <1>9 DEF ReadEntities, ReadMatches
<1>10. ASSUME NEW d \in Commands, UpgradeCollides(d) \/ AnswerIsStale(d) \/ Write(d) \/ Killed(d) PROVE FALSE
  BY <1>10 DEF UpgradeCollides, AnswerIsStale, Write, Killed, Idle
<1>11. ASSUME NEW x \in Persons, News(x) PROVE FALSE
  BY <1>11 DEF News
<1> QED
  BY ONLY Next, <1>1, <1>2, <1>3, <1>4, <1>5, <1>6, <1>7, <1>8, <1>9, <1>10, <1>11
     DEF Next, Step, Dedupe, Human, Apply

\* What is decided of a pair changes with an answer only, and says it unless a
\* pass is about to overwrite the row.
LEMMA AnswersDecide ==
  ASSUME RowsOK, [Next]_vars, NEW p \in Pairs
  PROVE  \/ decided'[p] = decided[p]
         \/ \E c \in Commands : /\ Answer(c) /\ run[c].pair = p
                                /\ decided'[p] = IF Upgrading(p) THEN "none" ELSE status'[p]
<1>1. CASE UNCHANGED vars
  BY <1>1 DEF vars, history
<1>2. CASE Next
  <2>1. decided'[p] = IF ~Answered(p) THEN decided[p] ELSE IF Upgrading(p) THEN "none" ELSE status'[p]
    BY <1>2 DEF Next, Remember
  <2>2. CASE ~Answered(p)
    BY <2>1, <2>2
  <2>3. CASE Answered(p)
    <3>1. PICK c \in Commands : run[c].at = "answer" /\ run[c].pair = p /\ run'[c].at = "entities"
      BY <2>3 DEF Answered, At
    <3>2. Answer(c)
      BY <1>2, <3>1, AnswersOnly
    <3> QED
      BY <2>1, <2>3, <3>1, <3>2
  <2> QED
    BY <2>2, <2>3
<1> QED
  BY <1>1, <1>2

\* Only a look-up brings a session to the point of upgrading rows.
LEMMA LookupsOnly ==
  ASSUME RowsOK, [Next]_vars, NEW c \in Commands, run'[c].at = "upgrade", run'[c] # run[c]
  PROVE  Lookup(c)
<1> USE DEF RowsOK, Become, Close, At, Idle
<1>1. ASSUME NEW d \in Commands, Lookup(d) PROVE Lookup(c)
  BY <1>1 DEF Lookup
<1>2. ASSUME NEW d \in Commands, StartDedupe(d) PROVE FALSE
  BY <1>2 DEF StartDedupe
<1>3. ASSUME NEW d \in Commands, Reset(d) \/ Load(d) PROVE FALSE
  BY <1>3 DEF Reset, Load
<1>4. ASSUME NEW d \in Commands, ScoreBatch(d) PROVE FALSE
  BY <1>4 DEF ScoreBatch
<1>5. ASSUME NEW d \in Commands, ScoreBatchCollides(d) PROVE FALSE
  BY <1>5 DEF ScoreBatchCollides, Idle
<1>6. ASSUME NEW d \in Commands, Weigh(d) PROVE FALSE
  BY <1>6 DEF Weigh
<1>7. ASSUME NEW d \in Commands, Answer(d) PROVE FALSE
  BY <1>7 DEF Answer
<1>13. ASSUME NEW d \in Commands, Upgrade(d) PROVE FALSE
  BY <1>13 DEF Upgrade
<1>8. ASSUME NEW d \in Commands, StartReview(d) PROVE FALSE
  BY <1>8 DEF StartReview
<1>9. ASSUME NEW d \in Commands, ReadEntities(d) \/ ReadMatches(d) PROVE FALSE
  BY <1>9 DEF ReadEntities, ReadMatches
<1>10. ASSUME NEW d \in Commands, UpgradeCollides(d) \/ AnswerIsStale(d) \/ Write(d) \/ Killed(d) PROVE FALSE
  BY <1>10 DEF UpgradeCollides, AnswerIsStale, Write, Killed, Idle
<1>11. ASSUME NEW x \in Persons, News(x) PROVE FALSE
  BY <1>11 DEF News
<1>12. ~UNCHANGED vars
  BY DEF vars
<1> QED
  BY ONLY [Next]_vars, <1>1, <1>2, <1>3, <1>4, <1>5, <1>6, <1>7, <1>8, <1>9, <1>10, <1>11, <1>12, <1>13
     DEF Next, Step, Dedupe, Human, Apply

\* What stands is what the row says, and no catalogue pass is about to
\* overwrite a row that stands.
DecidedRows ==
    /\ decided \in [Pairs -> HumanStatuses \union {"none"}]
    /\ DecisionsStand
    /\ \A c \in Commands : run[c].at = "upgrade" => \A p \in DOMAIN run[c].rows : decided[p] = "none"

\* One step per action that writes rows or looks them up.
LEMMA StepDecided == RowsOK /\ DecidedRows /\ [Next]_vars => DecidedRows'
<1> SUFFICES ASSUME RowsOK, DecidedRows, [Next]_vars PROVE DecidedRows'
  OBVIOUS
<1>1. decided' \in [Pairs -> HumanStatuses \union {"none"}]
  <2>1. decided' = decided \/ decided' = [p \in Pairs |-> decided'[p]]
    BY DEF Next, Remember, vars, history
  <2>2. ASSUME NEW p \in Pairs PROVE decided'[p] \in HumanStatuses \union {"none"}
    <3>1. CASE decided'[p] = decided[p]
      BY <3>1 DEF DecidedRows
    <3>2. ASSUME NEW c \in Commands, Answer(c), run[c].pair = p PROVE status'[p] \in HumanStatuses
      BY <3>2 DEF Answer, At, RowsOK
    <3> QED
      BY <3>1, <3>2, AnswersDecide
  <2> QED
    BY <2>1, <2>2 DEF DecidedRows
<1>2. ASSUME NEW p \in Pairs, decided'[p] \in HumanStatuses PROVE status'[p] = decided'[p]
  <2>1. CASE decided'[p] # decided[p]
    BY <1>2, <2>1, AnswersDecide DEF HumanStatuses
  <2>2. CASE decided'[p] = decided[p]
    <3> USE DEF RowsOK, At, HumanStatuses, Statuses
    <3>0. status[p] = decided[p] /\ status[p] \in HumanStatuses
      BY <1>2, <2>2 DEF DecidedRows, DecisionsStand
    <3>1. CASE UNCHANGED status
      BY <2>2, <3>0, <3>1
    <3>2. ASSUME NEW c \in Commands, Reset(c) PROVE status'[p] = status[p]
      BY <3>0, <3>2 DEF Reset
    <3>3. ASSUME NEW c \in Commands, ScoreBatch(c) PROVE status'[p] = status[p]
      BY <3>0, <3>3 DEF ScoreBatch
    <3>4. ASSUME NEW c \in Commands, Upgrade(c) PROVE status'[p] = status[p]
      <4>1. p \notin DOMAIN run[c].rows
        BY <3>0, <3>4 DEF Upgrade, DecidedRows
      <4> QED
        BY <3>4, <4>1 DEF Upgrade
    <3>5. ASSUME NEW c \in Commands, Answer(c) PROVE status'[p] = decided'[p]
      <4>1. CASE run[c].pair # p
        BY <2>2, <3>0, <3>5, <4>1 DEF Answer
      <4>2. CASE run[c].pair = p
        <5>1. Answered(p) /\ Next
          <6>1. run'[c].at = "entities" /\ run[c].at = "answer"
            BY <3>5 DEF Answer, Become, RowsOK, Idle
          <6>2. Next
            BY <6>1 DEF vars
          <6> QED
            BY <4>2, <6>1, <6>2 DEF Answered, At
        <5>2. decided'[p] = IF Upgrading(p) THEN "none" ELSE status'[p]
          BY <5>1 DEF Next, Remember
        <5> QED
          BY <1>2, <5>2
      <4> QED
        BY <4>1, <4>2
    <3> QED
      BY <2>2, <3>0, <3>1, <3>2, <3>3, <3>4, <3>5, RowWriters
  <2> QED
    BY <2>1, <2>2
<1>3. ASSUME NEW c \in Commands, run'[c].at = "upgrade", NEW p \in DOMAIN run'[c].rows
      PROVE  decided'[p] = "none"
  <2>1. p \in Pairs
    BY <1>3, StepRows DEF RowsOK
  <2>2. CASE decided'[p] = decided[p]
    <3>1. CASE run'[c] = run[c]
      BY <1>3, <2>2, <3>1 DEF DecidedRows
    <3>2. CASE run'[c] # run[c]
      <4>1. Lookup(c)
        BY <1>3, <3>2, LookupsOnly
      <4>2. status[p] \in {"none", "needs_review"}
        BY <1>3, <4>1 DEF Lookup, Become, RowsOK
      <4> QED
        BY <2>1, <2>2, <4>2 DEF DecidedRows, DecisionsStand, HumanStatuses
    <3> QED
      BY <3>1, <3>2
  <2>3. CASE decided'[p] # decided[p]
    <3>1. PICK d \in Commands : /\ Answer(d)
                                /\ decided'[p] = IF Upgrading(p) THEN "none" ELSE status'[p]
      BY <2>1, <2>3, AnswersDecide
    <3>2. run'[c] = run[c]
      BY <1>3, <3>1 DEF Answer, Become, RowsOK
    <3>3. Upgrading(p)
      BY <1>3, <3>2 DEF Upgrading, At
    <3> QED
      BY <3>1, <3>3
  <2> QED
    BY <2>2, <2>3
<1> QED
  BY <1>1, <1>2, <1>3 DEF DecidedRows, DecisionsStand

\* Whatever passes, resets and reviews run at once or one after another, a row
\* says what a human last answered, unless that answer came while a catalogue
\* pass was about to overwrite the row.
THEOREM DecidedStaysDecided == Spec => []DecisionsStand
<1>1. Init => RowsOK /\ DecidedRows
  BY InitRows DEF Init, DecidedRows, DecisionsStand, HumanStatuses, Idle
<1>2. RowsOK /\ DecidedRows /\ [Next]_vars => RowsOK' /\ DecidedRows'
  BY StepRows, StepDecided
<1>3. DecidedRows => DecisionsStand
  BY DEF DecidedRows
<1> QED
  BY <1>1, <1>2, <1>3, PTL DEF Spec

\* With one session open at a time, no reset, pass or review but another
\* answer changes what a human decided.
THEOREM HumanDecisionsSurvive ==
  ASSUME \A c, d \in Commands : c = d
  PROVE  Spec => HumanDecisionsStay
<1> DEFINE Kept == \A p \in Pairs :
                      status[p] \in HumanStatuses =>
                        \/ status'[p] = status[p]
                        \/ \E c \in Commands : At(c, "answer") /\ status'[p] = run[c].verdict
<1>1. RowsOK /\ RowsRemembered /\ [Next]_vars => Kept
  <2> SUFFICES ASSUME RowsOK, RowsRemembered, [Next]_vars,
                      NEW p \in Pairs, status[p] \in HumanStatuses
               PROVE  \/ status'[p] = status[p]
                      \/ \E c \in Commands : At(c, "answer") /\ status'[p] = run[c].verdict
    OBVIOUS
  <2> USE DEF RowsOK, RowsRemembered, At, HumanStatuses, Statuses
  <2>1. CASE UNCHANGED status
    BY <2>1
  <2>2. ASSUME NEW c \in Commands, Reset(c) PROVE status'[p] = status[p]
    BY <2>2 DEF Reset
  <2>3. ASSUME NEW c \in Commands, ScoreBatch(c) PROVE status'[p] = status[p]
    BY <2>3 DEF ScoreBatch
  <2>4. ASSUME NEW c \in Commands, Upgrade(c) PROVE status'[p] = status[p]
    BY <2>4 DEF Upgrade
  <2>5. ASSUME NEW c \in Commands, Answer(c)
        PROVE  At(c, "answer") /\ (status'[p] = status[p] \/ status'[p] = run[c].verdict)
    BY <2>5 DEF Answer
  <2> QED
    BY <2>1, <2>2, <2>3, <2>4, <2>5, RowWriters
<1>2. Spec => [](RowsOK /\ RowsRemembered)
  BY InitRows, StepRows, StepRemembered, PTL DEF Spec
<1> QED
  BY <1>1, <1>2, PTL DEF Spec, HumanDecisionsStay

-----------------------------------------------------------------------------
(* The order of the links, and build_clusters unfolded.                    *)

\* Finitely many persons make finitely many pairs.
LEMMA PairsFinite == IsFiniteSet(Pairs)
  BY PersonsAssumption, FS_SUBSET, FS_Subset DEF Pairs

\* A pair is two persons, and its sides are told apart by their ids.
LEMMA PairHasSides ==
  ASSUME NEW p \in Pairs
  PROVE  /\ DuplicateSide(p) \in Persons /\ CanonicalSide(p) \in Persons
         /\ DuplicateSide(p) < CanonicalSide(p)
         /\ p = {DuplicateSide(p), CanonicalSide(p)}
<1>1. IsFiniteSet(p) /\ Cardinality(p) = 2 /\ p \subseteq Persons
  BY PersonsAssumption, FS_Subset DEF Pairs
<1>2. PICK x : x \in p
  BY <1>1, FS_EmptySet
<1>3. IsFiniteSet(p \ {x}) /\ Cardinality(p \ {x}) = 1
  BY <1>1, <1>2, FS_RemoveElement
<1>4. PICK y : p \ {x} = {y}
  BY <1>3, FS_Singleton
<1>5. p = {x, y} /\ x # y /\ x \in Int /\ y \in Int
  BY <1>1, <1>2, <1>4, PersonsAssumption
<1>6. \E a, b \in p : a < b /\ p = {a, b}
  <2>1. x < y \/ y < x
    BY <1>5
  <2> QED
    BY <1>5, <2>1
<1>7. PICK a \in p, b \in p : a < b /\ p = {a, b}
  BY <1>6
<1>8. DuplicateSide(p) = a /\ CanonicalSide(p) = b
  <2>1. a \in Int /\ b \in Int
    BY <1>1, <1>7, PersonsAssumption
  <2> QED
    BY <1>7, <2>1 DEF DuplicateSide, CanonicalSide
<1> QED
  BY <1>1, <1>7, <1>8

\* What the rows say of a pair, and what the model gives it.
Scored == status \in [Pairs -> Statuses] /\ score \in [Pairs -> Scores]

\* The order the links are considered in is a strict total order.
LEMMA StrongerIsAnOrder ==
  ASSUME Scored, NEW p \in Pairs, NEW q \in Pairs, NEW r \in Pairs
  PROVE  /\ ~(Stronger(p, q) /\ Stronger(q, p))
         /\ p # q => Stronger(p, q) \/ Stronger(q, p)
         /\ Stronger(p, q) /\ Stronger(q, r) => Stronger(p, r)
<1>1. Weight(p) \in Int /\ Weight(q) \in Int /\ Weight(r) \in Int
  BY ScoresAssumption DEF Scored, Weight
<1>2. /\ DuplicateSide(p) \in Int /\ DuplicateSide(q) \in Int /\ DuplicateSide(r) \in Int
      /\ CanonicalSide(p) \in Int /\ CanonicalSide(q) \in Int /\ CanonicalSide(r) \in Int
  BY PairHasSides, PersonsAssumption
<1>3. p # q => DuplicateSide(p) # DuplicateSide(q) \/ CanonicalSide(p) # CanonicalSide(q)
  BY PairHasSides
<1> QED
  BY <1>1, <1>2, <1>3 DEF Stronger

\* Some links have a weakest.
LEMMA WeakestExists ==
  ASSUME Scored, NEW links \in SUBSET Pairs, links # {}
  PROVE  \E p \in links : \A q \in links \ {p} : Stronger(q, p)
<1> DEFINE HasWeakest(T) == \E p \in T : \A q \in T \ {p} : Stronger(q, p)
           bad == {T \in SUBSET Pairs : T # {} /\ ~HasWeakest(T)}
<1>1. SUFFICES ASSUME bad # {} PROVE FALSE
  OBVIOUS
<1>2. PICK T \in bad : \A U \in bad : U \subseteq T => U = T
  <2>1. bad \in SUBSET SUBSET Pairs
    OBVIOUS
  <2> HIDE DEF bad
  <2> QED
    BY <1>1, <2>1, PairsFinite, LeastSubset
<1>3. PICK p \in T : TRUE
  BY <1>2
<1>4. CASE T = {p}
  BY <1>2, <1>4
<1>5. CASE T # {p}
  <2>1. T \ {p} \in SUBSET Pairs /\ T \ {p} # {} /\ T \ {p} # T
    BY <1>2, <1>3, <1>5
  <2>2. HasWeakest(T \ {p})
    BY <1>2, <2>1
  <2>3. PICK m \in T \ {p} : \A q \in (T \ {p}) \ {m} : Stronger(q, m)
    BY <2>2
  <2>4. m \in Pairs /\ p \in Pairs /\ p # m
    BY <1>2, <2>3
  <2>5. CASE Stronger(p, m)
    BY <1>2, <2>3, <2>5
  <2>6. CASE Stronger(m, p)
    <3>1. \A q \in T \ {p} : Stronger(q, p)
      <4> TAKE q \in T \ {p}
      <4>1. q \in Pairs
        BY <1>2
      <4>2. CASE q = m
        BY <2>6, <4>2
      <4>3. CASE q # m
        <5>1. Stronger(q, m)
          BY <2>3, <4>3
        <5> QED
          BY <2>4, <2>6, <4>1, <5>1, StrongerIsAnOrder
      <4> QED
        BY <4>2, <4>3
    <3> QED
      BY <1>2, <3>1
  <2> QED
    BY <2>4, <2>5, <2>6, StrongerIsAnOrder
<1> QED
  BY <1>4, <1>5

\* So the one that is considered last is one of them.
LEMMA WeakestIsThere ==
  ASSUME Scored, NEW links \in SUBSET Pairs, links # {}
  PROVE  Weakest(links) \in links /\ \A q \in links \ {Weakest(links)} : Stronger(q, Weakest(links))
  BY WeakestExists DEF Weakest

\* The weakest of some links is the weakest of fewer, where it is among them.
LEMMA WeakestOfFewer ==
  ASSUME Scored, NEW links \in SUBSET Pairs, NEW some \in SUBSET links, links # {},
         Weakest(links) \in some
  PROVE  Weakest(some) = Weakest(links)
<1> DEFINE w == Weakest(links)
           v == Weakest(some)
<1>1. w \in links /\ \A q \in links \ {w} : Stronger(q, w)
  BY WeakestIsThere
<1>2. v \in some /\ \A q \in some \ {v} : Stronger(q, v)
  BY WeakestIsThere
<1>3. w \in Pairs /\ v \in Pairs /\ w \in some /\ v \in links
  BY <1>1, <1>2
<1> HIDE DEF w, v
<1>4. w # v => Stronger(v, w) /\ Stronger(w, v)
  BY <1>1, <1>2, <1>3
<1>5. ~(Stronger(v, w) /\ Stronger(w, v))
  BY <1>3, StrongerIsAnOrder
<1>6. w = v
  BY <1>4, <1>5
<1> QED
  BY <1>6 DEF w, v

\* Before any link is considered everybody is alone.
Singles == [x \in Persons |-> {x}]

\* What build_clusters comes to, as a function of the links considered.
Considered(after, links, apart) ==
    after = [some \in SUBSET links |->
                IF some = {} THEN Singles
                ELSE Consider(after[some \ {Weakest(some)}], Weakest(some), apart)]

\* There is such a function, for the links can be considered one after another.
LEMMA ConsideredExists ==
  ASSUME Scored, NEW links \in SUBSET Pairs, NEW apart
  PROVE  \E after : Considered(after, links, apart)
<1> DEFINE bad == {T \in SUBSET Pairs : ~ \E after : Considered(after, T, apart)}
<1>1. SUFFICES ASSUME bad # {} PROVE FALSE
  OBVIOUS
<1>2. PICK T \in bad : \A U \in bad : U \subseteq T => U = T
  <2>1. bad \in SUBSET SUBSET Pairs
    OBVIOUS
  <2> HIDE DEF bad
  <2> QED
    BY <1>1, <2>1, PairsFinite, LeastSubset
<1>3. T \in SUBSET Pairs /\ ~ \E after : Considered(after, T, apart)
  OBVIOUS
<1>4. T # {}
  <2> DEFINE f == [some \in SUBSET {} |-> Singles]
  <2>1. Considered(f, {}, apart)
    <3>1. \A some \in SUBSET {} : some = {}
      OBVIOUS
    <3>2. [some \in SUBSET {} |->
                IF some = {} THEN Singles
                ELSE Consider(f[some \ {Weakest(some)}], Weakest(some), apart)] = f
      BY <3>1
    <3> QED
      BY <3>2 DEF Considered
  <2> QED
    BY <1>3, <2>1
<1> DEFINE w == Weakest(T)
           U == T \ {w}
<1>5. w \in T
  BY <1>3, <1>4, WeakestIsThere
<1>6. U \in SUBSET Pairs /\ U \subseteq T /\ U # T
  BY <1>3, <1>5
<1>7. PICK f : Considered(f, U, apart)
  BY <1>2, <1>6
<1> DEFINE g == [some \in SUBSET T |->
                    IF w \in some THEN Consider(f[some \ {w}], w, apart) ELSE f[some]]
<1>8. \A some \in SUBSET U :
        f[some] = IF some = {} THEN Singles
                  ELSE Consider(f[some \ {Weakest(some)}], Weakest(some), apart)
  BY <1>7, Zenon DEF Considered
<1>9. \A some \in SUBSET T : w \in some => Weakest(some) = w
  BY <1>3, <1>4, WeakestOfFewer
<1>10. \A some \in SUBSET T :
         g[some] = IF some = {} THEN Singles
                   ELSE Consider(g[some \ {Weakest(some)}], Weakest(some), apart)
  <2> TAKE some \in SUBSET T
  <2>1. CASE w \in some
    <3>1. Weakest(some) = w /\ some # {}
      BY <1>9, <2>1
    <3>2. g[some] = Consider(f[some \ {w}], w, apart)
      BY <2>1
    <3>3. g[some \ {w}] = f[some \ {w}]
      OBVIOUS
    <3> HIDE DEF g, w
    <3> QED
      BY <3>1, <3>2, <3>3
  <2>2. CASE w \notin some /\ some # {}
    <3> DEFINE v == Weakest(some)
    <3>1. some \in SUBSET U /\ g[some] = f[some] /\ g[some \ {v}] = f[some \ {v}]
      BY <2>2
    <3>2. f[some] = Consider(f[some \ {v}], v, apart)
      BY <1>8, <2>2, <3>1
    <3> HIDE DEF g, w
    <3> QED
      BY <2>2, <3>1, <3>2
  <2>3. CASE w \notin some /\ some = {}
    <3>1. some \in SUBSET U /\ g[some] = f[some]
      BY <2>3
    <3> HIDE DEF g, w
    <3> QED
      BY <1>8, <2>3, <3>1
  <2> QED
    BY <2>1, <2>2, <2>3
<1>11. g = [some \in SUBSET T |-> g[some]]
  OBVIOUS
<1>12. Considered(g, T, apart)
  <2> HIDE DEF g
  <2> QED
    BY <1>10, <1>11, Zenon DEF Considered
<1> QED
  BY <1>3, <1>12

\* The clusters are what that function makes of all the links.
LEMMA ClustersUnfold ==
  ASSUME Scored, NEW links \in SUBSET Pairs, NEW apart
  PROVE  \E after : Considered(after, links, apart) /\ Clusters(links, apart) = after[links]
<1> DEFINE after[some \in SUBSET links] ==
            IF some = {} THEN [x \in Persons |-> {x}]
            ELSE Consider(after[some \ {Weakest(some)}], Weakest(some), apart)
<1>1. Clusters(links, apart) = after[links]
  BY DEF Clusters
<1>2. after = CHOOSE f : Considered(f, links, apart)
  BY DEF Considered, Singles
<1>3. Considered(CHOOSE f : Considered(f, links, apart), links, apart)
  BY ConsideredExists
<1> QED
  BY <1>1, <1>2, <1>3

-----------------------------------------------------------------------------
(* What the clusters are, whatever the order.                              *)

\* Every person in one cluster, its own.
Partition(cluster) ==
    /\ cluster \in [Persons -> SUBSET Persons]
    /\ \A x \in Persons : x \in cluster[x]
    /\ \A x \in Persons : \A y \in cluster[x] : cluster[y] = cluster[x]

\* No such pair inside a cluster.
Apart(cluster, apart) == \A x \in Persons : \A q \in apart : ~(q \subseteq cluster[x])

\* A link that joins nothing is one that a pair between the clusters explains.
Explained(cluster, links, apart) ==
    \A p \in links :
        \/ \E x \in Persons : p \subseteq cluster[x]
        \/ \E q \in apart : q \subseteq UNION {cluster[x] : x \in p}

\* No part of a cluster that no link inside it leads out of.
Connected(cluster, links) ==
    \A x \in Persons : \A S \in SUBSET cluster[x] :
        S \in {{}, cluster[x]} \/
            \E p \in links : p \subseteq cluster[x] /\ p \intersect S # {} /\ ~(p \subseteq S)

Clustering(cluster, links, apart) ==
    /\ Partition(cluster)
    /\ Apart(cluster, apart)
    /\ Explained(cluster, links, apart)
    /\ Connected(cluster, links)

\* Persons alone are a clustering by no links.
LEMMA SinglesCluster ==
  ASSUME NEW apart \in SUBSET Pairs
  PROVE  Clustering(Singles, {}, apart)
<1>1. Partition(Singles) /\ Explained(Singles, {}, apart) /\ Connected(Singles, {})
  BY DEF Singles, Partition, Explained, Connected
<1>2. Apart(Singles, apart)
  <2> SUFFICES ASSUME NEW x \in Persons, NEW q \in apart, q \subseteq {x} PROVE FALSE
    BY DEF Apart, Singles
  <2>1. DuplicateSide(q) = x /\ CanonicalSide(q) = x
    BY PairHasSides
  <2>2. DuplicateSide(q) < CanonicalSide(q) /\ x \in Int
    BY PairHasSides, PersonsAssumption
  <2> QED
    BY <2>1, <2>2
<1> QED
  BY <1>1, <1>2 DEF Clustering

\* A link considered keeps the clustering and is accounted for.
LEMMA ConsiderClusters ==
  ASSUME NEW apart \in SUBSET Pairs, NEW links \in SUBSET Pairs, NEW p \in Pairs, NEW cluster,
         Clustering(cluster, links, apart)
  PROVE  Clustering(Consider(cluster, p, apart), links \union {p}, apart)
<1> DEFINE both == UNION {cluster[x] : x \in p}
           merged == [x \in Persons |-> IF x \in both THEN both ELSE cluster[x]]
<1>1. /\ Partition(cluster) /\ Apart(cluster, apart)
      /\ Explained(cluster, links, apart) /\ Connected(cluster, links)
  BY DEF Clustering
<1>2. PICK a \in Persons, b \in Persons : p = {a, b}
  BY PairHasSides
<1>3. both = cluster[a] \union cluster[b]
  BY <1>2
<1>4. CASE \E q \in apart : q \subseteq both
  <2>1. Consider(cluster, p, apart) = cluster
    BY <1>4 DEF Consider
  <2>2. Explained(cluster, links \union {p}, apart)
    BY <1>1, <1>4 DEF Explained
  <2>3. Connected(cluster, links \union {p})
    BY <1>1 DEF Connected
  <2> QED
    BY <1>1, <2>1, <2>2, <2>3 DEF Clustering
<1>5. CASE ~ \E q \in apart : q \subseteq both
  <2>1. Consider(cluster, p, apart) = merged
    BY <1>5 DEF Consider
  <2>2. both \subseteq Persons /\ a \in cluster[a] /\ b \in cluster[b] /\ a \in both /\ b \in both
    BY <1>1, <1>3 DEF Partition
  <2>3. \A x \in Persons : merged[x] = IF x \in both THEN both ELSE cluster[x]
    OBVIOUS
  <2>4. merged \in [Persons -> SUBSET Persons]
    BY <1>1, <2>2 DEF Partition
  <2>5. ASSUME NEW x \in Persons, x \notin both, NEW y \in cluster[x] PROVE y \in Persons /\ y \notin both
    <3>1. y \in Persons /\ cluster[y] = cluster[x] /\ x \in cluster[x]
      BY <1>1 DEF Partition
    <3>2. \A z \in {a, b} : y \in cluster[z] => cluster[y] = cluster[z]
      BY <1>1 DEF Partition
    <3> QED
      BY <1>3, <2>5, <3>1, <3>2
  <2> HIDE DEF both, merged
  <2>6. Partition(merged)
    <3>1. \A x \in Persons : x \in merged[x]
      BY <1>1, <2>3 DEF Partition
    <3>2. \A x \in Persons : \A y \in merged[x] : merged[y] = merged[x]
      <4> TAKE x \in Persons
      <4> TAKE y \in merged[x]
      <4>1. CASE x \in both
        BY <2>2, <2>3, <4>1
      <4>2. CASE x \notin both
        <5>1. y \in cluster[x] /\ merged[x] = cluster[x]
          BY <2>3, <4>2
        <5>2. y \in Persons /\ y \notin both
          BY <2>5, <4>2, <5>1
        <5>3. cluster[y] = cluster[x]
          BY <1>1, <5>1 DEF Partition
        <5> QED
          BY <2>3, <5>1, <5>2, <5>3
      <4> QED
        BY <4>1, <4>2
    <3> QED
      BY <2>4, <3>1, <3>2 DEF Partition
  <2>7. Apart(merged, apart)
    BY <1>1, <1>5, <2>3 DEF Apart
  <2>8. \A x \in Persons : cluster[x] \subseteq merged[x]
    <3> TAKE x \in Persons
    <3>1. CASE x \in both
      <4>1. PICK z \in {a, b} : x \in cluster[z]
        BY <1>3, <3>1
      <4>2. cluster[x] = cluster[z] /\ cluster[z] \subseteq both
        BY <1>1, <1>3, <4>1 DEF Partition
      <4> QED
        BY <2>3, <3>1, <4>2
    <3>2. CASE x \notin both
      BY <2>3, <3>2
    <3> QED
      BY <3>1, <3>2
  <2>9. Explained(merged, links \union {p}, apart)
    <3> SUFFICES ASSUME NEW l \in links \union {p}
                 PROVE  \/ \E x \in Persons : l \subseteq merged[x]
                        \/ \E q \in apart : q \subseteq UNION {merged[x] : x \in l}
      BY DEF Explained
    <3>1. CASE l = p
      BY <1>2, <2>2, <2>3, <3>1
    <3>2. CASE l \in links
      <4>1. l \subseteq Persons
        BY <3>2 DEF Pairs
      <4>2. CASE \E x \in Persons : l \subseteq cluster[x]
        BY <2>8, <4>2
      <4>3. CASE \E q \in apart : q \subseteq UNION {cluster[x] : x \in l}
        <5>1. PICK q \in apart : q \subseteq UNION {cluster[x] : x \in l}
          BY <4>3
        <5>2. UNION {cluster[x] : x \in l} \subseteq UNION {merged[x] : x \in l}
          BY <2>8, <4>1
        <5> QED
          BY <5>1, <5>2
      <4> QED
        BY <1>1, <3>2, <4>2, <4>3 DEF Explained
    <3> QED
      BY <3>1, <3>2
  <2>10. Connected(merged, links \union {p})
    <3> SUFFICES ASSUME NEW x \in Persons, NEW S \in SUBSET merged[x],
                        S # {}, S # merged[x]
                 PROVE  \E l \in links \union {p} :
                            l \subseteq merged[x] /\ l \intersect S # {} /\ ~(l \subseteq S)
      BY DEF Connected
    <3>1. CASE x \notin both
      <4>1. merged[x] = cluster[x]
        BY <2>3, <3>1
      <4> QED
        BY <1>1, <4>1 DEF Connected
    <3>2. CASE x \in both
      <4>1. merged[x] = both
        BY <2>3, <3>2
      <4>2. ASSUME NEW z \in {a, b}, S \intersect cluster[z] \notin {{}, cluster[z]}
            PROVE  \E l \in links \union {p} :
                       l \subseteq merged[x] /\ l \intersect S # {} /\ ~(l \subseteq S)
        <5>1. PICK l \in links : /\ l \subseteq cluster[z]
                                 /\ l \intersect (S \intersect cluster[z]) # {}
                                 /\ ~(l \subseteq (S \intersect cluster[z]))
          BY <1>1, <4>2 DEF Connected
        <5>2. cluster[z] \subseteq both
          BY <1>3
        <5> QED
          BY <4>1, <5>1, <5>2
      <4>3. CASE \A z \in {a, b} : S \intersect cluster[z] \in {{}, cluster[z]}
        <5>1. p \subseteq both
          BY <1>2, <2>2
        <5>2. (a \in S /\ b \notin S) \/ (a \notin S /\ b \in S)
          BY <1>3, <2>2, <4>1, <4>3
        <5> QED
          BY <1>2, <4>1, <5>1, <5>2
      <4> QED
        BY <4>2, <4>3
    <3> QED
      BY <3>1, <3>2
  <2> QED
    BY <2>1, <2>6, <2>7, <2>9, <2>10 DEF Clustering
<1> QED
  BY <1>4, <1>5

\* build_clusters: whatever the links and what is apart.
LEMMA ClustersCluster ==
  ASSUME Scored, NEW links \in SUBSET Pairs, NEW apart \in SUBSET Pairs
  PROVE  Clustering(Clusters(links, apart), links, apart)
<1>1. PICK after : Considered(after, links, apart) /\ Clusters(links, apart) = after[links]
  BY ClustersUnfold
<1> DEFINE bad == {T \in SUBSET links : ~Clustering(after[T], T, apart)}
<1>2. SUFFICES ASSUME bad # {} PROVE FALSE
  BY <1>1
<1>3. PICK T \in bad : \A U \in bad : U \subseteq T => U = T
  <2>1. bad \in SUBSET SUBSET Pairs
    OBVIOUS
  <2> HIDE DEF bad
  <2> QED
    BY <1>2, <2>1, PairsFinite, LeastSubset
<1>4. T \in SUBSET links /\ ~Clustering(after[T], T, apart)
  OBVIOUS
<1>5. after[T] = IF T = {} THEN Singles
                 ELSE Consider(after[T \ {Weakest(T)}], Weakest(T), apart)
  BY <1>1, <1>4 DEF Considered
<1>6. CASE T = {}
  BY <1>4, <1>5, <1>6, SinglesCluster
<1>7. CASE T # {}
  <2> DEFINE w == Weakest(T)
             U == T \ {w}
  <2>1. w \in T
    BY <1>4, <1>7, WeakestIsThere
  <2>2. U \in SUBSET links /\ U \in SUBSET Pairs /\ U # T /\ w \in Pairs /\ U \union {w} = T
    BY <1>4, <2>1
  <2>3. Clustering(after[U], U, apart)
    BY <1>3, <2>2
  <2>4. after[T] = Consider(after[U], w, apart)
    BY <1>5, <1>7
  <2> HIDE DEF U, w
  <2>5. Clustering(Consider(after[U], w, apart), U \union {w}, apart)
    BY <2>2, <2>3, ConsiderClusters
  <2> QED
    BY <1>4, <2>2, <2>4, <2>5
<1> QED
  BY <1>6, <1>7

-----------------------------------------------------------------------------
(* One call of build_clusters, in the loops of PersonClusters and as the   *)
(* one step it is in PersonLinks.                                          *)

\* Considering a link after all the stronger ones is what the definition does last.
LEMMA ClustersGrow ==
  ASSUME Scored, NEW links \in SUBSET Pairs, NEW apart, NEW w \in Pairs \ links,
         \A q \in links : Stronger(q, w)
  PROVE  Clusters(links \union {w}, apart) = Consider(Clusters(links, apart), w, apart)
<1> DEFINE more == links \union {w}
<1>1. more \in SUBSET Pairs /\ links \in SUBSET more /\ more # {} /\ more \ {w} = links
  OBVIOUS
<1>2. Weakest(more) = w
  <2>1. Weakest(more) \in more /\ \A q \in more \ {Weakest(more)} : Stronger(q, Weakest(more))
    BY <1>1, WeakestIsThere
  <2>2. PICK v \in more : v = Weakest(more) /\ \A q \in more \ {v} : Stronger(q, v)
    BY <2>1
  <2>3. v # w => Stronger(v, w) /\ Stronger(w, v)
    BY <2>2
  <2> QED
    BY <2>2, <2>3, StrongerIsAnOrder
<1> HIDE DEF more
<1>3. PICK f : Considered(f, more, apart) /\ Clusters(more, apart) = f[more]
  BY <1>1, ClustersUnfold
<1>4. PICK g : Considered(g, links, apart) /\ Clusters(links, apart) = g[links]
  BY ClustersUnfold
<1>5. \A some \in SUBSET more :
        f[some] = IF some = {} THEN Singles
                  ELSE Consider(f[some \ {Weakest(some)}], Weakest(some), apart)
  BY <1>3, Zenon DEF Considered
<1>6. \A some \in SUBSET links :
        g[some] = IF some = {} THEN Singles
                  ELSE Consider(g[some \ {Weakest(some)}], Weakest(some), apart)
  BY <1>4, Zenon DEF Considered
<1>7. f[links] = g[links]
  <2> DEFINE bad == {T \in SUBSET links : f[T] # g[T]}
  <2>1. SUFFICES ASSUME bad # {} PROVE FALSE
    OBVIOUS
  <2>2. PICK T \in bad : \A U \in bad : U \subseteq T => U = T
    <3>1. bad \in SUBSET SUBSET Pairs
      OBVIOUS
    <3> HIDE DEF bad
    <3> QED
      BY <2>1, <3>1, PairsFinite, LeastSubset
  <2>3. T \in SUBSET links /\ f[T] # g[T] /\ T \in SUBSET more
    BY <1>1
  <2>4. T # {}
    BY <1>5, <1>6, <2>3
  <2> DEFINE U == T \ {Weakest(T)}
  <2>5. U \in SUBSET links /\ U \subseteq T /\ U # T
    BY <2>3, <2>4, WeakestIsThere
  <2>6. f[U] = g[U]
    BY <2>2, <2>5
  <2>7. f[T] = Consider(f[U], Weakest(T), apart) /\ g[T] = Consider(g[U], Weakest(T), apart)
    BY <1>5, <1>6, <2>3, <2>4
  <2> HIDE DEF U
  <2> QED
    BY <2>3, <2>6, <2>7
<1>8. f[more] = Consider(f[links], w, apart)
  BY <1>1, <1>2, <1>5
<1>9. Clusters(more, apart) = Consider(Clusters(links, apart), w, apart)
  BY <1>3, <1>4, <1>7, <1>8
<1> QED
  BY <1>9 DEF more

\* Before any of them everybody is alone.
LEMMA ClustersOfNothing ==
  ASSUME Scored, NEW apart
  PROVE  Clusters({}, apart) = Singles
<1>1. PICK f : Considered(f, {}, apart) /\ Clusters({}, apart) = f[{}]
  BY ClustersUnfold
<1>2. f = [some \in SUBSET {} |->
                IF some = {} THEN Singles
                ELSE Consider(f[some \ {Weakest(some)}], Weakest(some), apart)]
  BY <1>1, Zenon DEF Considered
<1>3. {} \in SUBSET {}
  OBVIOUS
<1>4. f[{}] = Singles
  BY <1>2, <1>3
<1> QED
  BY <1>1, <1>4

\* _cluster_edges: a row as an edge.
EdgeOf(p) == [a |-> DuplicateSide(p), b |-> CanonicalSide(p), score |-> Weight(p)]

\* The arguments of a call that is given these links and told what is apart.
CalledWith(links, apart) ==
    /\ given = {EdgeOf(p) : p \in links}
    /\ \A x, y \in Persons : Barred(x, y) <=> {x, y} \in apart

\* The links that are behind the loop.
Behind(links) == {p \in links : EdgeOf(p) \notin todo}

\* So far the union-find has the clusters of the links behind it.
Agrees(links, apart) ==
    /\ CalledWith(links, apart)
    /\ todo \subseteq given
    /\ Groups = Clusters(Behind(links), apart)
    /\ \A p \in Behind(links), q \in links \ Behind(links) : Stronger(p, q)

\* Rows are told apart by their edges, which are considered in the order of the rows.
LEMMA EdgesAreRows ==
  ASSUME NEW p \in Pairs, NEW q \in Pairs
  PROVE  /\ EdgeOf(p) = EdgeOf(q) => p = q
         /\ Greedy!Before(EdgeOf(p), EdgeOf(q)) <=> Stronger(p, q)
         /\ p = {EdgeOf(p).a, EdgeOf(p).b} /\ EdgeOf(p).a \in Persons /\ EdgeOf(p).b \in Persons
<1>1. EdgeOf(p).a = DuplicateSide(p) /\ EdgeOf(p).b = CanonicalSide(p) /\ EdgeOf(p).score = Weight(p)
  BY DEF EdgeOf
<1>2. EdgeOf(q).a = DuplicateSide(q) /\ EdgeOf(q).b = CanonicalSide(q) /\ EdgeOf(q).score = Weight(q)
  BY DEF EdgeOf
<1>3. EdgeOf(p) = EdgeOf(q) => p = q
  BY <1>1, <1>2, PairHasSides
<1>4. Greedy!Before(EdgeOf(p), EdgeOf(q)) <=> Stronger(p, q)
  BY <1>1, <1>2 DEF Greedy!Before, Stronger
<1> QED
  BY <1>1, <1>3, <1>4, PairHasSides

\* What the set-level definition makes of the clusters of an edge's ends.
Joined(cluster, a, b, apart, next) ==
    \/ cluster[a] = cluster[b] /\ next = cluster
    \/ /\ cluster[a] # cluster[b]
       /\ \A x \in cluster[a], y \in cluster[b] : {x, y} \notin apart
       /\ next = [x \in Persons |-> IF x \in cluster[a] \union cluster[b]
                                    THEN cluster[a] \union cluster[b] ELSE cluster[x]]
    \/ /\ cluster[a] # cluster[b]
       /\ \E x \in cluster[a], y \in cluster[b] : {x, y} \in apart
       /\ next = cluster

\* A merge of two clusters, or its refusal, is what considering the row makes of them.
LEMMA MergeConsiders ==
  ASSUME NEW apart \in SUBSET Pairs, NEW links, NEW cluster, Clustering(cluster, links, apart),
         NEW a \in Persons, NEW b \in Persons, NEW p, p = {a, b},
         NEW next, Joined(cluster, a, b, apart, next)
  PROVE  next = Consider(cluster, p, apart)
<1> DEFINE both == UNION {cluster[x] : x \in p}
           merged == [x \in Persons |-> IF x \in both THEN both ELSE cluster[x]]
<1>1. Consider(cluster, p, apart) = IF \E q \in apart : q \subseteq both THEN cluster ELSE merged
  BY DEF Consider
<1>2. both = cluster[a] \union cluster[b]
  OBVIOUS
<1>3. Partition(cluster) /\ Apart(cluster, apart)
  BY DEF Clustering
<1>4. cluster = [x \in Persons |-> cluster[x]]
  BY <1>3 DEF Partition
<1> HIDE DEF both
<1>5. CASE cluster[a] = cluster[b] /\ next = cluster
  <2>1. \A x \in Persons : x \in both => cluster[x] = both
    BY <1>2, <1>3, <1>5 DEF Partition
  <2>2. merged = cluster
    BY <1>4, <2>1
  <2> QED
    BY <1>1, <1>5, <2>2
<1>6. CASE /\ cluster[a] # cluster[b]
           /\ \A x \in cluster[a], y \in cluster[b] : {x, y} \notin apart
           /\ next = [x \in Persons |-> IF x \in cluster[a] \union cluster[b]
                                        THEN cluster[a] \union cluster[b] ELSE cluster[x]]
  <2>1. ASSUME NEW q \in apart, q \subseteq both PROVE FALSE
    <3>1. PICK x \in Persons, y \in Persons : q = {x, y}
      BY PairHasSides
    <3>2. ~(q \subseteq cluster[a]) /\ ~(q \subseteq cluster[b])
      BY <1>3 DEF Apart
    <3>3. q = {y, x}
      BY <3>1
    <3> QED
      BY <1>2, <1>6, <2>1, <3>1, <3>2, <3>3
  <2>2. merged = next
    BY <1>2, <1>6
  <2> QED
    BY <1>1, <2>1, <2>2
<1>7. CASE /\ cluster[a] # cluster[b]
           /\ \E x \in cluster[a], y \in cluster[b] : {x, y} \in apart
           /\ next = cluster
  <2>1. \E q \in apart : q \subseteq both
    BY <1>2, <1>7
  <2> QED
    BY <1>1, <1>7, <2>1
<1> QED
  BY <1>5, <1>6, <1>7 DEF Joined

\* At the start of the call no link is behind the loop.
LEMMA CallBegins ==
  ASSUME Nodes = Persons, Scored, ClusteringInit, NEW links \in SUBSET Pairs, NEW apart \in SUBSET Pairs,
         CalledWith(links, apart)
  PROVE  Agrees(links, apart)
<1>1. Behind(links) = {}
  BY DEF Behind, CalledWith, ClusteringInit
<1>2. Groups = Singles
  BY InitGreedy DEF Greedy!Init, Singles
<1>3. Groups = Clusters(Behind(links), apart)
  BY <1>1, <1>2, ClustersOfNothing
<1> QED
  BY <1>1, <1>3 DEF Agrees, ClusteringInit

\* A turn of the loop considers the strongest of the links that are left.
LEMMA CallTurns ==
  ASSUME Nodes = Persons, Scored, NEW links \in SUBSET Pairs, NEW apart \in SUBSET Pairs,
         Agrees(links, apart), UNCHANGED <<status, score, given>>, NEW e \in todo, Greedy!Consider(e)
  PROVE  Agrees(links, apart)'
<1>1. /\ todo' = todo \ {e} /\ UNCHANGED cannot
      /\ \A f \in todo \ {e} : Greedy!Before(e, f)
  BY DEF Greedy!Consider, Greedy!Strongest
<1>2. CalledWith(links, apart) /\ todo \subseteq given
  BY DEF Agrees
<1>3. PICK w \in links : e = EdgeOf(w)
  BY <1>2 DEF CalledWith
<1>4. \A p : EdgeOf(p)' = EdgeOf(p)
  BY DEF EdgeOf, Weight
<1>5. CalledWith(links, apart)' /\ todo' \subseteq given'
  BY <1>1, <1>2, <1>4 DEF CalledWith, Barred
<1> DEFINE seen == Behind(links)
<1>6. w \in Pairs /\ w \notin seen /\ seen \subseteq links
  BY <1>3 DEF Behind
<1>7. Behind(links)' = seen \union {w}
  BY <1>1, <1>3, <1>4, EdgesAreRows DEF Behind
<1>8. ASSUME NEW q \in links \ (seen \union {w}) PROVE Stronger(w, q)
  <2>1. EdgeOf(q) \in todo /\ EdgeOf(q) # e
    BY <1>3, <1>8, EdgesAreRows DEF Behind
  <2>2. Greedy!Before(EdgeOf(w), EdgeOf(q))
    BY <1>1, <1>3, <2>1
  <2> QED
    BY <1>6, <2>2, EdgesAreRows
<1>9. \A p \in seen, q \in links \ seen : Stronger(p, q)
  BY DEF Agrees
<1>10. \A p, q : Stronger(p, q)' <=> Stronger(p, q)
  BY DEF Stronger, Weight
<1>11. \A p \in Behind(links)', q \in links \ Behind(links)' : Stronger(p, q)'
  BY <1>6, <1>7, <1>8, <1>9, <1>10
<1>12. Clusters(seen \union {w}, apart) = Consider(Clusters(seen, apart), w, apart)
  <2>1. seen \in SUBSET Pairs /\ w \in Pairs \ seen /\ \A q \in seen : Stronger(q, w)
    BY <1>6, <1>9
  <2> HIDE DEF seen
  <2> QED
    BY <2>1, ClustersGrow
<1>13. Groups = Clusters(seen, apart)
  BY DEF Agrees
<1>14. Clustering(Groups, seen, apart)
  <2>1. seen \in SUBSET Pairs
    BY <1>6
  <2> HIDE DEF seen
  <2> QED
    BY <1>13, <2>1, ClustersCluster
<1>15. Groups' = Consider(Groups, w, apart)
  <2>1. e.a \in Persons /\ e.b \in Persons /\ w = {e.a, e.b}
    BY <1>3, <1>6, EdgesAreRows
  <2>2. /\ Groups[e.a] \subseteq Persons /\ Groups[e.b] \subseteq Persons
    BY <1>14, <2>1 DEF Clustering, Partition
  <2>3. \A x, y \in Persons : Greedy!Barred(x, y) <=> {x, y} \in apart
    BY <1>2 DEF CalledWith, Barred, Greedy!Barred
  <2>4. Greedy!Compatible(Groups[e.a], Groups[e.b])
          <=> \A x \in Groups[e.a], y \in Groups[e.b] : {x, y} \notin apart
    BY <2>2, <2>3 DEF Greedy!Compatible
  <2> DEFINE a == e.a
             b == e.b
             joined == [x \in Persons |-> IF x \in Groups[a] \union Groups[b]
                                          THEN Groups[a] \union Groups[b] ELSE Groups[x]]
  <2>5. \/ Groups[a] = Groups[b] /\ Groups' = Groups
        \/ /\ Groups[a] # Groups[b]
           /\ \A x \in Groups[a], y \in Groups[b] : {x, y} \notin apart
           /\ Groups' = joined
        \/ /\ Groups[a] # Groups[b]
           /\ \E x \in Groups[a], y \in Groups[b] : {x, y} \in apart
           /\ Groups' = Groups
    BY <2>4 DEF Greedy!Consider, Greedy!Merge
  <2>6. a \in Persons /\ b \in Persons /\ w = {a, b}
    BY <2>1
  <2>7. PICK now, next : now = Groups /\ next = Groups'
    OBVIOUS
  <2>8. PICK x \in Persons, y \in Persons : x = a /\ y = b
    BY <2>6
  <2>9. PICK behind : behind = seen
    OBVIOUS
  <2> HIDE DEF a, b, seen
  <2>10. Clustering(now, behind, apart) /\ w = {x, y}
    BY <1>14, <2>6, <2>7, <2>8, <2>9
  <2>11. Joined(now, x, y, apart, next)
    BY <2>5, <2>7, <2>8 DEF Joined
  <2>12. next = Consider(now, w, apart)
    BY <2>10, <2>11, MergeConsiders
  <2> QED
    BY <2>7, <2>12
<1>16. Clusters(Behind(links), apart)' = Clusters(seen \union {w}, apart)
  <2> HIDE DEF seen
  <2> QED
    BY <1>7, SMT DEF Clusters, Consider, Weakest, Stronger, Weight
<1>17. Groups' = Clusters(Behind(links), apart)'
  BY <1>12, <1>13, <1>15, <1>16
<1> QED
  BY <1>5, <1>11, <1>17 DEF Agrees

\* Whatever the rows and the pairs that are apart: when the loop over the edges
\* is through, union and find have made the clusters that the dedupe takes as
\* one step to be what build_clusters returns.
THEOREM ClustersAreOneCall ==
  ASSUME Nodes = Persons, NEW links \in SUBSET Pairs, NEW apart \in SUBSET Pairs
  PROVE  ClusteringSpec /\ CalledWith(links, apart) /\ Scored /\ [][FALSE]_<<status, score>>
             => [](pc = "next" /\ todo = {} => Groups = Clusters(links, apart))
<1>1. Scored /\ [FALSE]_<<status, score>> => Scored'
  BY DEF Scored
<1>2. ASSUME [ClusteringNext]_clustering PROVE UNCHANGED given
  BY <1>2 DEF ClusteringNext, clustering, partition, call, TakeEdge, Climb, TopReached, Squash, FoundA,
              FoundB, Same, Refuse, Union
<1>3. ASSUME Scored, Agrees(links, apart), [FALSE]_<<status, score>>, UNCHANGED given,
             [Greedy!Next]_(Greedy!vars)
      PROVE  Agrees(links, apart)'
  <2>1. CASE Greedy!Next
    BY <1>3, <2>1, CallTurns DEF Greedy!Next
  <2>2. CASE UNCHANGED Greedy!vars
    <3>1. UNCHANGED <<cannot, todo, Groups>> /\ status' = status /\ score' = score
      BY <1>3, <2>2 DEF Greedy!vars
    <3>2. (\A p : EdgeOf(p)' = EdgeOf(p)) /\ (\A p, q : Stronger(p, q)' <=> Stronger(p, q))
      BY <1>3 DEF EdgeOf, Stronger, Weight
    <3>3. Behind(links)' = Behind(links)
      BY <3>1, <3>2 DEF Behind
    <3>4. PICK seen : seen = Behind(links)
      OBVIOUS
    <3>5. Clusters(Behind(links), apart)' = Clusters(seen, apart)
      BY <3>1, <3>3, <3>4, SMT DEF Clusters, Consider, Weakest, Stronger, Weight
    <3> QED
      BY <1>3, <3>1, <3>2, <3>3, <3>4, <3>5 DEF Agrees, CalledWith, Barred
  <2> QED
    BY <1>3, <2>1, <2>2
<1>4. Agrees(links, apart) => (pc = "next" /\ todo = {} => Groups = Clusters(links, apart))
  <2>1. todo = {} => Behind(links) = links
    BY DEF Behind
  <2> QED
    BY <2>1 DEF Agrees
<1>5. Scored /\ ClusteringInit /\ CalledWith(links, apart) => Agrees(links, apart)
  BY CallBegins
<1>6. ImplementsGreedy => [][Greedy!Next]_(Greedy!vars)
  BY PTL DEF ImplementsGreedy, Greedy!Spec
<1> QED
  BY <1>1, <1>2, <1>3, <1>4, <1>5, <1>6, Refinement, PTL DEF ClusteringSpec

-----------------------------------------------------------------------------
(* The roots that apply_clusters wants.                                    *)

\* _cluster_canonical: of some persons there is a best evidenced one.
LEMMA CanonicalIsBest ==
  ASSUME NEW ranks \in [Persons -> Int], NEW some \in SUBSET Persons, some # {}
  PROVE  /\ Canonical(some, ranks) \in some
         /\ \A y \in some : ranks[Canonical(some, ranks)] <= ranks[y]
<1> DEFINE HasBest(T) == \E x \in T : \A y \in T : ranks[x] <= ranks[y]
           bad == {T \in SUBSET Persons : T # {} /\ ~HasBest(T)}
<1>1. SUFFICES ASSUME bad # {} PROVE FALSE
  BY DEF Canonical
<1>2. PICK T \in bad : \A U \in bad : U \subseteq T => U = T
  <2>1. bad \in SUBSET SUBSET Persons
    OBVIOUS
  <2>2. IsFiniteSet(Persons)
    BY PersonsAssumption
  <2> HIDE DEF bad
  <2> QED
    BY <1>1, <2>1, <2>2, LeastSubset
<1>3. PICK x \in T : TRUE
  BY <1>2
<1>4. CASE T = {x}
  BY <1>2, <1>4
<1>5. CASE T # {x}
  <2>1. T \ {x} \in SUBSET Persons /\ T \ {x} # {} /\ T \ {x} # T
    BY <1>2, <1>3, <1>5
  <2>2. HasBest(T \ {x})
    BY <1>2, <2>1
  <2>3. PICK m \in T \ {x} : \A y \in T \ {x} : ranks[m] <= ranks[y]
    BY <2>2
  <2>4. ranks[x] \in Int /\ \A y \in T : ranks[y] \in Int
    BY <1>2, <1>3
  <2>5. CASE ranks[m] <= ranks[x]
    BY <1>2, <2>3, <2>4, <2>5
  <2>6. CASE ranks[x] <= ranks[m]
    BY <1>2, <1>3, <2>3, <2>4, <2>6
  <2> QED
    BY <2>3, <2>4, <2>5, <2>6
<1> QED
  BY <1>4, <1>5

\* What apply_clusters makes of the rows and of the evidence it has read.
Roots(known) ==
    LET cluster == Clusters(Links, Rejected \union known.conflict)
    IN  [x \in Persons |-> Canonical(cluster[x], known.rank)]

\* The roots change with the rows and the evidence only.
LEMMA RootsUnchanged ==
  ASSUME UNCHANGED <<status, score>>, NEW known
  PROVE  Roots(known)' = Roots(known)
<1>1. Links' = Links /\ Rejected' = Rejected
  BY DEF Links, Rejected
<1> DEFINE apart == Rejected \union known.conflict
<1>2. ASSUME NEW l, NEW b PROVE Clusters(l, b)' = Clusters(l, b)
  BY SMT DEF Clusters, Consider, Weakest, Stronger, Weight
<1>3. Clusters(Links, apart)' = Clusters(Links, apart)
  BY <1>1, <1>2, SMT DEF Clusters, Consider, Weakest, Stronger, Weight
<1> QED
  BY <1>1, <1>3 DEF Roots

\* The roots are those of a clustering by the links that count.
LEMMA RootsCluster ==
  ASSUME Scored, NEW known, known.conflict \subseteq Pairs, known.rank \in [Persons -> Int]
  PROVE  \E cluster :
           /\ Clustering(cluster, Links, Rejected \union known.conflict)
           /\ Roots(known) \in [Persons -> Persons]
           /\ \A x \in Persons : Roots(known)[x] \in cluster[x]
           /\ \A x, y \in Persons : Roots(known)[x] = Roots(known)[y] <=> y \in cluster[x]
           /\ \A x \in Persons : \A y \in cluster[x] : known.rank[Roots(known)[x]] <= known.rank[y]
<1> DEFINE apart == Rejected \union known.conflict
           cluster == Clusters(Links, apart)
<1>1. Clustering(cluster, Links, apart)
  <2>1. Links \in SUBSET Pairs /\ apart \in SUBSET Pairs
    BY DEF Links, Rejected
  <2> QED
    BY <2>1, ClustersCluster
<1>2. Roots(known) = [x \in Persons |-> Canonical(cluster[x], known.rank)]
  BY DEF Roots
<1> HIDE DEF cluster
<1>3. ASSUME NEW x \in Persons
      PROVE  /\ cluster[x] \in SUBSET Persons /\ cluster[x] # {} /\ x \in cluster[x]
             /\ \A y \in cluster[x] : cluster[y] = cluster[x]
  BY <1>1 DEF Clustering, Partition
<1>4. ASSUME NEW x \in Persons
      PROVE  /\ Roots(known)[x] \in cluster[x]
             /\ \A y \in cluster[x] : known.rank[Roots(known)[x]] <= known.rank[y]
  BY <1>2, <1>3, CanonicalIsBest
<1>5. ASSUME NEW x \in Persons, NEW y \in Persons
      PROVE  Roots(known)[x] = Roots(known)[y] <=> y \in cluster[x]
  <2>1. CASE y \in cluster[x]
    BY <1>2, <1>3, <2>1
  <2>2. CASE Roots(known)[x] = Roots(known)[y]
    BY <1>3, <1>4, <2>2
  <2> QED
    BY <2>1, <2>2
<1>6. Roots(known) \in [Persons -> Persons]
  BY <1>2, <1>3, <1>4
<1> QED
  BY <1>1, <1>3, <1>4, <1>5, <1>6

\* A root is its own root.
LEMMA RootsOneHop ==
  ASSUME Scored, NEW known, known.conflict \subseteq Pairs, known.rank \in [Persons -> Int],
         NEW x \in Persons
  PROVE  Roots(known)[Roots(known)[x]] = Roots(known)[x]
<1>1. PICK cluster :
        /\ Roots(known) \in [Persons -> Persons]
        /\ \A y \in Persons : Roots(known)[y] \in cluster[y]
        /\ \A y, z \in Persons : Roots(known)[y] = Roots(known)[z] <=> z \in cluster[y]
  BY RootsCluster
<1>2. Roots(known)[x] \in Persons /\ Roots(known)[x] \in cluster[x]
  BY <1>1
<1> QED
  BY <1>1, <1>2

\* Two persons a human told apart have different roots.
LEMMA RootsApart ==
  ASSUME Scored, NEW known, known.conflict \subseteq Pairs, known.rank \in [Persons -> Int],
         NEW p \in Rejected
  PROVE  \E x, y \in p : Roots(known)[x] # Roots(known)[y]
<1>1. PICK cluster :
        /\ Clustering(cluster, Links, Rejected \union known.conflict)
        /\ \A x, y \in Persons : Roots(known)[x] = Roots(known)[y] <=> y \in cluster[x]
  BY RootsCluster
<1>2. p \in Pairs
  BY DEF Rejected
<1>3. PICK a \in Persons, b \in Persons : p = {a, b}
  BY <1>2, PairHasSides
<1>4. ~(p \subseteq cluster[a]) /\ a \in cluster[a]
  BY <1>1 DEF Clustering, Apart, Partition
<1> QED
  BY <1>1, <1>3, <1>4

\* Links that are the roots follow the decisions: LinksFollowDecisions.
LEMMA RootsFollow ==
  ASSUME Scored, NEW known, known.conflict = conflict, known.rank = rank,
         conflict \subseteq Pairs, rank \in [Persons -> Int], link = Roots(known)
  PROVE  /\ \A p \in Links :
             Together(p) \/ \E q \in Rejected \union conflict :
                               q \subseteq UNION {ClusterOf(x) : x \in p}
         /\ \A x \in Persons : \A S \in SUBSET ClusterOf(x) :
             S \in {{}, ClusterOf(x)} \/
                 \E p \in Links : p \subseteq ClusterOf(x) /\ p \intersect S # {} /\ ~(p \subseteq S)
         /\ \A x \in Persons : rank[Root(x)] <= rank[x]
<1>1. PICK cluster :
        /\ Clustering(cluster, Links, Rejected \union conflict)
        /\ \A x, y \in Persons : link[x] = link[y] <=> y \in cluster[x]
        /\ \A x \in Persons : \A y \in cluster[x] : rank[link[x]] <= rank[y]
  BY RootsCluster
<1>2. /\ Partition(cluster) /\ Explained(cluster, Links, Rejected \union conflict)
      /\ Connected(cluster, Links)
  BY <1>1 DEF Clustering
<1>3. ASSUME NEW x \in Persons PROVE ClusterOf(x) = cluster[x]
  BY <1>1, <1>2 DEF ClusterOf, Root, Partition
<1>4. ASSUME NEW p \in Links
      PROVE  Together(p) \/ \E q \in Rejected \union conflict :
                               q \subseteq UNION {ClusterOf(x) : x \in p}
  <2>1. p \subseteq Persons
    BY DEF Links, Pairs
  <2>2. CASE \E x \in Persons : p \subseteq cluster[x]
    <3>1. PICK x \in Persons : p \subseteq cluster[x]
      BY <2>2
    <3>2. \A y \in p : link[y] = link[x]
      BY <1>1, <2>1, <3>1
    <3> QED
      BY <3>2 DEF Together, Root
  <2>3. CASE \E q \in Rejected \union conflict : q \subseteq UNION {cluster[x] : x \in p}
    <3>1. UNION {cluster[x] : x \in p} = UNION {ClusterOf(x) : x \in p}
      BY <1>3, <2>1
    <3> QED
      BY <2>3, <3>1
  <2> QED
    BY <1>2, <2>2, <2>3 DEF Explained
<1>5. ASSUME NEW x \in Persons, NEW S \in SUBSET ClusterOf(x)
      PROVE  S \in {{}, ClusterOf(x)} \/
                \E p \in Links : p \subseteq ClusterOf(x) /\ p \intersect S # {} /\ ~(p \subseteq S)
  <2>1. ClusterOf(x) = cluster[x]
    BY <1>3
  <2> QED
    BY <1>2, <2>1 DEF Connected
<1>6. ASSUME NEW x \in Persons PROVE rank[Root(x)] <= rank[x]
  BY <1>1, <1>2 DEF Root, Partition
<1> QED
  BY <1>4, <1>5, <1>6

-----------------------------------------------------------------------------
(* A session alone.                                                        *)

\* The rows, the evidence and the links are well formed.
EvidenceOK ==
    /\ Scored
    /\ conflict \subseteq Pairs
    /\ rank \in [Persons -> Int]
    /\ link \in [Persons -> Persons]

\* What a session alone holds is so, and what it is about to write are the
\* roots of what it has read.
Holding(command) ==
    /\ DOMAIN command = DOMAIN Idle
    /\ DOMAIN command.held \subseteq Persons
    /\ \A x \in DOMAIN command.held : command.held[x] = link[x]
    /\ command.at \in {"idle", "reset", "load"} => DOMAIN command.held = {}
    /\ command.at \in {"matches", "write"} =>
        /\ DOMAIN command.held = Persons
        /\ command.known.conflict \subseteq Pairs
        /\ command.known.rank \in [Persons -> Int]
    /\ command.at = "write" => command.wanted = Roots(command.known)

Applying == DOMAIN run = Commands /\ \A c \in Commands : Holding(run[c])

\* The links are the roots of what was last applied, if nothing has changed.
Applied == settled => link = Roots(Known)

Session == RowsOK /\ EvidenceOK /\ Applying /\ Applied /\ OneHop

\* At first nothing is held, written or applied.
LEMMA InitSession == Init => Session
<1> SUFFICES ASSUME Init PROVE Session
  OBVIOUS
<1>1. RowsOK
  BY InitRows
<1>2. EvidenceOK
  BY PersonsAssumption DEF Init, EvidenceOK, Scored, Statuses
<1>3. Applying
  BY DEF Init, Applying, Holding, Idle
<1>4. Applied /\ OneHop
  BY DEF Init, Applied, OneHop
<1> QED
  BY <1>1, <1>2, <1>3, <1>4 DEF Session

\* The least rank is an integer, so the next one is.
LEMMA NewsRanks ==
  ASSUME EvidenceOK, NEW x \in Persons, News(x)
  PROVE  rank' \in [Persons -> Int]
<1>1. rank \in [Persons -> Int] /\ Persons \in SUBSET Persons /\ Persons # {}
  BY DEF EvidenceOK
<1>2. \E y \in Persons : \A z \in Persons : rank[y] <= rank[z]
  BY <1>1, CanonicalIsBest
<1>3. Min({rank[y] : y \in Persons}) \in Int
  BY <1>1, <1>2 DEF Min
<1> DEFINE least == Min({rank[y] : y \in Persons})
<1>4. rank' = [rank EXCEPT ![x] = least - 1]
  BY DEF News
<1> HIDE DEF least
<1>5. least \in Int
  BY <1>3 DEF least
<1> QED
  BY <1>1, <1>4, <1>5

\* What a session is about to write are persons.
WantedOK == \A c \in Commands : run[c].at = "write" => run[c].wanted \in [Persons -> Persons]

LEMMA ApplyingWanted == EvidenceOK /\ Applying => WantedOK
<1> SUFFICES ASSUME EvidenceOK, Applying, NEW c \in Commands, run[c].at = "write"
             PROVE  run[c].wanted \in [Persons -> Persons]
  BY DEF WantedOK
<1>1. /\ run[c].known.conflict \subseteq Pairs /\ run[c].known.rank \in [Persons -> Int]
      /\ run[c].wanted = Roots(run[c].known)
  BY DEF Applying, Holding
<1>2. PICK known : known = run[c].known
  OBVIOUS
<1>3. Roots(known) \in [Persons -> Persons]
  BY <1>1, <1>2, RootsCluster DEF EvidenceOK
<1> QED
  BY <1>1, <1>2, <1>3

\* Every action keeps them so: the links written are persons.
LEMMA StepEvidence ==
  ASSUME RowsOK, RowsOK', EvidenceOK, WantedOK, [Next]_vars
  PROVE  EvidenceOK'
<1>1. status' \in [Pairs -> Statuses]
  BY DEF RowsOK
<1>2. score' = score
  BY DEF Next, Step, Dedupe, Human, Apply, vars, evidence, StartDedupe, Reset, Load, ScoreBatch,
         ScoreBatchCollides, Weigh, Lookup, Upgrade, UpgradeCollides, StartReview, Answer,
         AnswerIsStale, ReadEntities, ReadMatches, Write, Killed, News
<1>3. UNCHANGED <<conflict, rank>> \/ \E x \in Persons : News(x)
  BY DEF Next, Step, Dedupe, Human, Apply, vars, evidence, StartDedupe, Reset, Load, ScoreBatch,
         ScoreBatchCollides, Weigh, Lookup, Upgrade, UpgradeCollides, StartReview, Answer,
         AnswerIsStale, ReadEntities, ReadMatches, Write, Killed
<1>4. conflict' \subseteq Pairs /\ rank' \in [Persons -> Int]
  <2>1. CASE UNCHANGED <<conflict, rank>>
    BY <2>1 DEF EvidenceOK
  <2>2. ASSUME NEW x \in Persons, News(x) PROVE conflict' \subseteq Pairs /\ rank' \in [Persons -> Int]
    BY <2>2, NewsRanks DEF News, EvidenceOK
  <2> QED
    BY <1>3, <2>1, <2>2
<1>5. UNCHANGED link \/ \E c \in Commands : Reset(c) \/ Write(c)
  BY DEF Next, Step, Dedupe, Human, Apply, vars, evidence, StartDedupe, Load, ScoreBatch,
         ScoreBatchCollides, Weigh, Lookup, Upgrade, UpgradeCollides, StartReview, Answer,
         AnswerIsStale, ReadEntities, ReadMatches, Killed, News
<1>6. link' \in [Persons -> Persons]
  <2>1. CASE UNCHANGED link
    BY <2>1 DEF EvidenceOK
  <2>2. ASSUME NEW c \in Commands, Reset(c) PROVE link' \in [Persons -> Persons]
    BY <2>2 DEF Reset, EvidenceOK
  <2>3. ASSUME NEW c \in Commands, Write(c) PROVE link' \in [Persons -> Persons]
    <3>4. run[c].wanted \in [Persons -> Persons]
      BY <2>3 DEF Write, At, WantedOK
    <3> QED
      BY <2>3, <3>4 DEF Write, EvidenceOK
  <2> QED
    BY <1>5, <2>1, <2>2, <2>3
<1> QED
  BY <1>1, <1>2, <1>4, <1>6 DEF EvidenceOK, Scored

\* What the only session writes are the roots of what it has read.
LEMMA WriteApplies ==
  ASSUME EvidenceOK, Applying, NEW c \in Commands, Write(c)
  PROVE  /\ run[c].known.conflict \subseteq Pairs /\ run[c].known.rank \in [Persons -> Int]
         /\ link' = Roots(run[c].known)
<1>1. /\ run[c].known.conflict \subseteq Pairs /\ run[c].known.rank \in [Persons -> Int]
      /\ run[c].wanted = Roots(run[c].known)
      /\ \A x \in Persons : run[c].held[x] = link[x]
  BY DEF Write, At, Applying, Holding
<1>2. run[c].wanted \in [Persons -> Persons]
  <2>1. PICK known : known = run[c].known
    OBVIOUS
  <2>2. Roots(known) \in [Persons -> Persons]
    BY <1>1, <2>1, RootsCluster DEF EvidenceOK
  <2> QED
    BY <1>1, <2>1, <2>2
<1>3. link' = [x \in Persons |-> IF run[c].held[x] = run[c].wanted[x] THEN link[x] ELSE run[c].wanted[x]]
  BY DEF Write
<1>4. link' = [x \in Persons |-> run[c].wanted[x]]
  BY <1>1, <1>3
<1> QED
  BY <1>1, <1>2, <1>4

\* A reset unlinks some and leaves the rest where they were.
LEMMA ResetUnlinks ==
  ASSUME EvidenceOK, NEW c \in Commands, Reset(c), NEW x \in Persons
  PROVE  link'[x] = link[x] \/ link'[x] = x
  BY DEF Reset

\* A reset and a write leave one hop to a root.
LEMMA StepOneHop ==
  ASSUME EvidenceOK, Applying, OneHop, [Next]_vars
  PROVE  OneHop'
<1>1. UNCHANGED link \/ \E c \in Commands : Reset(c) \/ Write(c)
  BY DEF Next, Step, Dedupe, Human, Apply, vars, evidence, StartDedupe, Load, ScoreBatch,
         ScoreBatchCollides, Weigh, Lookup, Upgrade, UpgradeCollides, StartReview, Answer,
         AnswerIsStale, ReadEntities, ReadMatches, Killed, News
<1>2. CASE UNCHANGED link
  BY <1>2 DEF OneHop
<1>3. ASSUME NEW c \in Commands, Reset(c) PROVE OneHop'
  <2> SUFFICES ASSUME NEW x \in Persons PROVE link'[link'[x]] = link'[x]
    BY DEF OneHop
  <2>1. link[x] \in Persons /\ link[link[x]] = link[x]
    BY DEF OneHop, EvidenceOK
  <2> QED
    BY <1>3, <2>1, ResetUnlinks
<1>4. ASSUME NEW c \in Commands, Write(c) PROVE OneHop'
  <2> SUFFICES ASSUME NEW x \in Persons PROVE link'[link'[x]] = link'[x]
    BY DEF OneHop
  <2>1. PICK known : /\ known.conflict \subseteq Pairs /\ known.rank \in [Persons -> Int]
                     /\ link' = Roots(known)
    BY <1>4, WriteApplies
  <2>2. Roots(known)[Roots(known)[x]] = Roots(known)[x]
    BY <2>1, RootsOneHop DEF EvidenceOK
  <2> QED
    BY <2>1, <2>2
<1> QED
  BY <1>1, <1>2, <1>3, <1>4

\* One step per action: what the command holds afterwards is so.
LEMMA StepApplying ==
  ASSUME \A c, d \in Commands : c = d, RowsOK', EvidenceOK, Applying, [Next]_vars
  PROVE  Applying'
<1> SUFFICES ASSUME NEW c \in Commands PROVE Holding(run[c])'
  BY DEF Applying, RowsOK
<1>1. Holding(run[c]) /\ DOMAIN run = Commands
  BY DEF Applying
<1>2. \A d \in Commands : d = c
  OBVIOUS
<1>3. ASSUME UNCHANGED <<status, score, link>>, UNCHANGED run
      PROVE  Holding(run[c])'
  BY <1>1, <1>3, RootsUnchanged DEF Holding, Idle
<1>4. ASSUME NEW R, run' = [run EXCEPT ![c] = R], DOMAIN R = DOMAIN Idle,
             R.at \notin {"matches", "write"},
             DOMAIN R.held \subseteq Persons, \A x \in DOMAIN R.held : R.held[x] = link'[x],
             R.at \in {"idle", "reset", "load"} => DOMAIN R.held = {}
      PROVE  Holding(run[c])'
  BY <1>1, <1>4 DEF Holding, Idle
<1>5. CASE StartDedupe(c)
  <2>1. PICK first \in {"reset", "load", "entities"} : run' = [run EXCEPT ![c] = [run[c] EXCEPT !.at = first]]
    BY <1>5 DEF StartDedupe, Become
  <2>2. run[c].at = "idle" /\ link' = link
    BY <1>5 DEF StartDedupe, At
  <2> DEFINE R == [run[c] EXCEPT !.at = first]
  <2>3. /\ DOMAIN R = DOMAIN run[c] /\ R.at = first /\ R.held = run[c].held
    BY <1>1 DEF Holding, Idle
  <2>4. run' = [run EXCEPT ![c] = R]
    BY <2>1
  <2> HIDE DEF R
  <2> QED
    BY <1>1, <1>4, <2>2, <2>3, <2>4 DEF Holding
<1>6. CASE Reset(c)
  BY <1>1, <1>4, <1>6 DEF Reset, Become, At, Holding, Idle
<1>7. CASE Load(c)
  BY <1>1, <1>4, <1>7 DEF Load, Become, At, Holding, Idle, EvidenceOK
<1>8. CASE ScoreBatch(c)
  BY <1>1, <1>4, <1>8 DEF ScoreBatch, NextBatch, Become, At, Holding, Idle
<1>9. CASE Weigh(c)
  BY <1>1, <1>4, <1>9 DEF Weigh, Become, At, Holding, Idle
<1>10. CASE Lookup(c)
  BY <1>1, <1>4, <1>10 DEF Lookup, Become, At, Holding, Idle
<1>11. CASE Upgrade(c)
  BY <1>1, <1>4, <1>11 DEF Upgrade, Become, At, Holding, Idle
<1>12. CASE StartReview(c)
  <2>1. PICK p \in Pairs, verdict \in HumanStatuses :
          run' = [run EXCEPT ![c] = [run[c] EXCEPT !.at = "answer", !.pair = p, !.verdict = verdict,
                     !.held = IF verdict = "accepted" THEN [x \in p |-> link[x]] ELSE <<>>]]
    BY <1>12 DEF StartReview, Become
  <2> DEFINE first == IF verdict = "accepted" THEN [x \in p |-> link[x]] ELSE <<>>
             R == [run[c] EXCEPT !.at = "answer", !.pair = p, !.verdict = verdict, !.held = first]
  <2>2. run' = [run EXCEPT ![c] = R] /\ link' = link
    BY <1>12, <2>1 DEF StartReview
  <2>3. p \subseteq Persons /\ DOMAIN first \subseteq Persons /\ \A x \in DOMAIN first : first[x] = link'[x]
    BY <2>2 DEF Pairs
  <2> HIDE DEF first
  <2>4. DOMAIN R = DOMAIN Idle /\ R.at = "answer" /\ R.held = first
    BY <1>1 DEF Holding, Idle
  <2> HIDE DEF R
  <2> QED
    BY <1>4, <2>2, <2>3, <2>4
<1>13. CASE Answer(c)
  BY <1>1, <1>4, <1>13 DEF Answer, Become, At, Holding, Idle
<1>14. CASE Become(c, Idle)
  <2>1. DOMAIN Idle.held = {} /\ Idle.at = "idle"
    BY DEF Idle
  <2> QED
    BY <1>4, <1>14, <2>1 DEF Become
<1>15. CASE ReadEntities(c)
  BY <1>1, <1>15 DEF ReadEntities, Become, At, Holding, Idle, EvidenceOK, Known
<1>16. CASE ReadMatches(c)
  <2>1. PICK known : known = run[c].known
    OBVIOUS
  <2> DEFINE roots == Roots(known)
             R == [run[c] EXCEPT !.at = "write", !.wanted = roots]
  <2>2. run' = [run EXCEPT ![c] = R] /\ UNCHANGED <<link, status, score>> /\ run[c].at = "matches"
    BY <1>16, <2>1 DEF ReadMatches, Become, At, Roots, evidence
  <2>3. roots = Roots(known)'
    BY <2>2, RootsUnchanged
  <2> HIDE DEF roots
  <2>4. DOMAIN R = DOMAIN Idle /\ R.at = "write" /\ R.held = run[c].held /\ R.known = known /\ R.wanted = roots
    BY <1>1, <2>1 DEF Holding, Idle
  <2> HIDE DEF R
  <2>5. run'[c] = R
    BY <1>1, <2>2
  <2>6. /\ DOMAIN run'[c] = DOMAIN Idle /\ run'[c].at = "write" /\ run'[c].held = run[c].held
        /\ run'[c].known = known /\ run'[c].wanted = roots
    BY <2>4, <2>5
  <2>7. Roots(run[c].known)' = Roots(known)'
    BY <2>6 DEF Roots
  <2> QED
    BY <1>1, <2>1, <2>2, <2>3, <2>6, <2>7 DEF Holding
<1>17. ASSUME NEW x \in Persons, News(x) PROVE Holding(run[c])'
  BY <1>3, <1>17 DEF News
<1>18. CASE UNCHANGED vars
  BY <1>3, <1>18 DEF vars, evidence
<1> QED
  BY <1>2, <1>5, <1>6, <1>7, <1>8, <1>9, <1>10, <1>11, <1>12, <1>13, <1>14, <1>15, <1>16, <1>17, <1>18
     DEF Next, Step, Dedupe, Human, Apply, ScoreBatchCollides, UpgradeCollides, AnswerIsStale, Write, Killed, Close

\* What settles the links is a write of what is still so.
LEMMA StepApplied ==
  ASSUME RowsOK, EvidenceOK, Applying, Applied, [Next]_vars
  PROVE  Applied'
<1> SUFFICES ASSUME settled' PROVE link' = Roots(Known)'
  BY DEF Applied
<1>1. score' = score
  BY DEF Next, Step, Dedupe, Human, Apply, vars, evidence, StartDedupe, Reset, Load, ScoreBatch,
         ScoreBatchCollides, Weigh, Lookup, Upgrade, UpgradeCollides, StartReview, Answer,
         AnswerIsStale, ReadEntities, ReadMatches, Write, Killed, News
<1>2. CASE settled /\ UNCHANGED <<status, link, conflict, rank>>
  <2>1. PICK known : known = Known
    OBVIOUS
  <2>2. Known' = known
    BY <1>2, <2>1 DEF Known
  <2>3. Roots(known)' = Roots(known)
    BY <1>1, <1>2, RootsUnchanged
  <2>4. Roots(Known)' = Roots(known)'
    BY <2>2 DEF Roots
  <2>5. link = Roots(known)
    BY <1>2, <2>1 DEF Applied
  <2> QED
    BY <1>2, <2>3, <2>4, <2>5
<1>3. ASSUME NEW c \in Commands, Write(c) PROVE link' = Roots(Known)'
  <2>1. PICK known : known = run[c].known
    OBVIOUS
  <2>2. link' = Roots(known)
    BY <1>3, <2>1, WriteApplies
  <2>3. known = Known' /\ UNCHANGED status
    BY <1>3, <2>1 DEF Write, Known, evidence
  <2>4. Roots(known)' = Roots(known)
    BY <1>1, <2>3, RootsUnchanged
  <2>5. Roots(Known)' = Roots(known)'
    BY <2>3 DEF Roots
  <2> QED
    BY <2>2, <2>4, <2>5
<1>4. ASSUME NEW c \in Commands, ScoreBatch(c)
      PROVE  settled /\ UNCHANGED <<status, link, conflict, rank>>
  BY <1>4 DEF ScoreBatch, evidence, RowsOK
<1>5. ASSUME NEW c \in Commands, Upgrade(c)
      PROVE  settled /\ UNCHANGED <<status, link, conflict, rank>>
  BY <1>5 DEF Upgrade, evidence, RowsOK
<1>6. \/ settled /\ UNCHANGED <<status, link, conflict, rank>>
      \/ \E c \in Commands : Write(c) \/ ScoreBatch(c) \/ Upgrade(c)
  BY DEF Next, Step, Dedupe, Human, Apply, vars, evidence, StartDedupe, Reset, Load,
         ScoreBatchCollides, Weigh, Lookup, UpgradeCollides, StartReview, Answer,
         AnswerIsStale, ReadEntities, ReadMatches, Killed, News
<1> QED
  BY <1>2, <1>3, <1>4, <1>5, <1>6

\* The four together are an invariant of a session alone.
LEMMA SpecSession ==
  ASSUME \A c, d \in Commands : c = d
  PROVE  Spec => []Session
<1>1. Session /\ [Next]_vars => Session'
  <2> SUFFICES ASSUME Session, [Next]_vars PROVE Session'
    OBVIOUS
  <2>1. RowsOK /\ EvidenceOK /\ Applying /\ Applied /\ OneHop
    BY DEF Session
  <2>2. RowsOK'
    BY <2>1, StepRows
  <2>3. EvidenceOK'
    BY <2>1, <2>2, ApplyingWanted, StepEvidence
  <2>4. Applying'
    BY <2>1, <2>2, StepApplying
  <2>5. Applied'
    BY <2>1, StepApplied
  <2>6. OneHop'
    BY <2>1, StepOneHop
  <2> QED
    BY <2>2, <2>3, <2>4, <2>5, <2>6 DEF Session
<1> QED
  BY <1>1, InitSession, PTL DEF Spec

\* With one session open at a time, whatever it is killed in and whatever
\* evidence comes in between, the links are one hop to a root at every moment.
THEOREM LinksAreOneHop ==
  ASSUME \A c, d \in Commands : c = d
  PROVE  Spec => []OneHop
<1>1. Session => OneHop
  BY DEF Session
<1> QED
  BY <1>1, SpecSession, PTL

\* And once everything decided has been applied, the links are what the
\* decisions and the constraints say: no more, no less, and to the best.
THEOREM AppliedLinksFollow ==
  ASSUME \A c, d \in Commands : c = d
  PROVE  Spec => []LinksFollowDecisions
<1>1. Session => LinksFollowDecisions
  <2> SUFFICES ASSUME Session, settled PROVE LinksFollowDecisions
    BY DEF LinksFollowDecisions
  <2>1. EvidenceOK /\ link = Roots(Known)
    BY DEF Session, Applied
  <2>2. PICK known : known = Known
    OBVIOUS
  <2>3. known.conflict = conflict /\ known.rank = rank
    BY <2>2 DEF Known
  <2> QED
    BY <2>1, <2>2, <2>3, RootsFollow DEF EvidenceOK, LinksFollowDecisions
<1> QED
  BY <1>1, SpecSession, PTL

\* And no pass, reset or review reunites two persons a human told apart.
THEOREM RejectedStayApart ==
  ASSUME \A c, d \in Commands : c = d
  PROVE  Spec => NeverReunited
<1> DEFINE Kept == \A p \in Pairs : status[p] = "rejected" /\ ~Together(p) => ~Together(p)'
<1>1. Session /\ [Next]_vars => Kept
  <2> SUFFICES ASSUME Session, [Next]_vars,
                      NEW p \in Pairs, status[p] = "rejected", ~Together(p)
               PROVE  ~Together(p)'
    OBVIOUS
  <2>1. EvidenceOK /\ Applying /\ OneHop
    BY DEF Session
  <2>2. PICK a \in Persons, b \in Persons : p = {a, b}
    BY PairHasSides
  <2>3. link[a] # link[b]
    BY <2>2 DEF Together, Root
  <2>4. UNCHANGED link \/ \E c \in Commands : Reset(c) \/ Write(c)
    BY DEF Next, Step, Dedupe, Human, Apply, vars, evidence, StartDedupe, Load, ScoreBatch,
           ScoreBatchCollides, Weigh, Lookup, Upgrade, UpgradeCollides, StartReview, Answer,
           AnswerIsStale, ReadEntities, ReadMatches, Killed, News
  <2>5. link'[a] # link'[b]
    <3>1. CASE UNCHANGED link
      BY <2>3, <3>1
    <3>2. ASSUME NEW c \in Commands, Reset(c) PROVE link'[a] # link'[b]
      <4>1. /\ link'[a] \in {link[a], a} /\ link'[b] \in {link[b], b} /\ a # b
        BY <2>1, <2>3, <3>2, ResetUnlinks
      <4>2. link[link[a]] = link[a] /\ link[link[b]] = link[b]
        BY <2>1 DEF OneHop
      <4> QED
        BY <2>3, <4>1, <4>2
    <3>3. ASSUME NEW c \in Commands, Write(c) PROVE link'[a] # link'[b]
      <4>1. PICK known : /\ known.conflict \subseteq Pairs /\ known.rank \in [Persons -> Int]
                         /\ link' = Roots(known)
        BY <2>1, <3>3, WriteApplies
      <4>2. p \in Rejected
        BY DEF Rejected
      <4>3. \E x, y \in p : Roots(known)[x] # Roots(known)[y]
        BY <2>1, <4>1, <4>2, RootsApart DEF EvidenceOK
      <4> QED
        BY <2>2, <4>1, <4>3
    <3> QED
      BY <2>4, <3>1, <3>2, <3>3
  <2> QED
    BY <2>2, <2>5 DEF Together, Root
<1> QED
  BY <1>1, SpecSession, PTL DEF Spec, NeverReunited
-----------------------------------------------------------------------------
(* Several sessions.                                                       *)

\* What each session is about to write is one hop to a root, whatever the
\* others have done since it read.
Writing(command) ==
    /\ command.at \in {"matches", "write"} =>
        /\ command.known.conflict \subseteq Pairs
        /\ command.known.rank \in [Persons -> Int]
    /\ command.at = "write" =>
        /\ command.wanted \in [Persons -> Persons]
        /\ \A x \in Persons : command.wanted[command.wanted[x]] = command.wanted[x]

Writings == \A c \in Commands : Writing(run[c])

Sessions == RowsOK /\ EvidenceOK /\ Writings /\ OneHopUnlessOvertaken

\* Only these two bring a session nearer to its write.
LEMMA ReadersOnly ==
  ASSUME RowsOK, [Next]_vars, NEW c \in Commands
  PROVE  \/ run'[c] = run[c] \/ run'[c].at \notin {"matches", "write"}
         \/ ReadEntities(c) \/ ReadMatches(c)
<1> SUFFICES ASSUME run'[c] # run[c], run'[c].at \in {"matches", "write"}
             PROVE  ReadEntities(c) \/ ReadMatches(c)
  OBVIOUS
<1> USE DEF RowsOK, Become, Close, At, Idle
<1>1. ASSUME NEW d \in Commands, ReadEntities(d) PROVE ReadEntities(c)
  BY <1>1 DEF ReadEntities
<1>2. ASSUME NEW d \in Commands, ReadMatches(d) PROVE ReadMatches(c)
  BY <1>2 DEF ReadMatches
<1>3. ASSUME NEW d \in Commands, StartDedupe(d) PROVE FALSE
  BY <1>3 DEF StartDedupe
<1>4. ASSUME NEW d \in Commands, Reset(d) PROVE FALSE
  BY <1>4 DEF Reset
<1>5. ASSUME NEW d \in Commands, Load(d) PROVE FALSE
  BY <1>5 DEF Load
<1>6. ASSUME NEW d \in Commands, ScoreBatch(d) PROVE FALSE
  BY <1>6 DEF ScoreBatch
<1>7. ASSUME NEW d \in Commands, Weigh(d) PROVE FALSE
  BY <1>7 DEF Weigh
<1>8. ASSUME NEW d \in Commands, Lookup(d) PROVE FALSE
  BY <1>8 DEF Lookup
<1>9. ASSUME NEW d \in Commands, Upgrade(d) PROVE FALSE
  BY <1>9 DEF Upgrade
<1>10. ASSUME NEW d \in Commands, StartReview(d) PROVE FALSE
  BY <1>10 DEF StartReview
<1>11. ASSUME NEW d \in Commands, Answer(d) PROVE FALSE
  BY <1>11 DEF Answer
<1>12. ASSUME NEW d \in Commands, ScoreBatchCollides(d) \/ UpgradeCollides(d) \/ AnswerIsStale(d) PROVE FALSE
  BY <1>12 DEF ScoreBatchCollides, UpgradeCollides, AnswerIsStale
<1>13. ASSUME NEW d \in Commands, Write(d) \/ Killed(d) PROVE FALSE
  BY <1>13 DEF Write, Killed
<1>14. ASSUME NEW x \in Persons, News(x) PROVE FALSE
  BY <1>14 DEF News
<1>15. ~UNCHANGED vars
  BY DEF vars
<1> QED
  BY ONLY [Next]_vars, <1>1, <1>2, <1>3, <1>4, <1>5, <1>6, <1>7, <1>8, <1>9, <1>10, <1>11,
     <1>12, <1>13, <1>14, <1>15
     DEF Next, Step, Dedupe, Human, Apply

\* One step per action: a session that comes to write has read the rows.
LEMMA StepWritings ==
  ASSUME RowsOK, RowsOK', EvidenceOK, Writings, [Next]_vars
  PROVE  Writings'
<1> SUFFICES ASSUME NEW c \in Commands PROVE Writing(run[c])'
  BY DEF Writings
<1>1. Writing(run[c])
  BY DEF Writings
<1>2. CASE run'[c] = run[c]
  BY <1>1, <1>2 DEF Writing
<1>3. CASE run'[c].at \notin {"matches", "write"}
  BY <1>3 DEF Writing
<1>4. CASE ReadEntities(c)
  BY <1>4 DEF ReadEntities, Become, At, Writing, RowsOK, Idle, EvidenceOK, Known
<1>5. CASE ReadMatches(c)
  <2>1. PICK known : known = run[c].known
    OBVIOUS
  <2> DEFINE roots == Roots(known)
  <2>2. run' = [run EXCEPT ![c] = [run[c] EXCEPT !.at = "write", !.wanted = roots]] /\ run[c].at = "matches"
    BY <1>5, <2>1 DEF ReadMatches, Become, At, Roots
  <2>3. known.conflict \subseteq Pairs /\ known.rank \in [Persons -> Int]
    BY <1>1, <2>1, <2>2 DEF Writing
  <2>4. roots \in [Persons -> Persons]
    BY <2>3, RootsCluster DEF EvidenceOK
  <2>5. \A x \in Persons : roots[roots[x]] = roots[x]
    BY <2>3, RootsOneHop DEF EvidenceOK
  <2> HIDE DEF roots
  <2>6. run'[c].known = known /\ run'[c].wanted = roots
    BY <2>1, <2>2 DEF RowsOK, Idle
  <2> QED
    BY <2>3, <2>4, <2>5, <2>6 DEF Writing
<1>6. \/ run'[c] = run[c] \/ run'[c].at \notin {"matches", "write"}
      \/ ReadEntities(c) \/ ReadMatches(c)
  BY ReadersOnly
<1> QED
  BY <1>2, <1>3, <1>4, <1>5, <1>6

\* What a session that was not overtaken writes is the whole partition.
LEMMA StepTangled ==
  ASSUME RowsOK, EvidenceOK, Writings, OneHopUnlessOvertaken, [Next]_vars
  PROVE  OneHopUnlessOvertaken'
<1> SUFFICES ASSUME ~tangled' PROVE OneHop'
  BY DEF OneHopUnlessOvertaken
<1>1. UNCHANGED link \/ \E c \in Commands : Reset(c) \/ Write(c)
  BY DEF Next, Step, Dedupe, Human, Apply, vars, evidence, StartDedupe, Load, ScoreBatch,
         ScoreBatchCollides, Weigh, Lookup, Upgrade, UpgradeCollides, StartReview, Answer,
         AnswerIsStale, ReadEntities, ReadMatches, Killed, News
<1>2. CASE UNCHANGED link
  <2>1. tangled' = tangled
    BY <1>2 DEF Next, Remember, WroteLinks, vars, history
  <2> QED
    BY <1>2, <2>1 DEF OneHopUnlessOvertaken, OneHop
<1>3. ASSUME NEW c \in Commands, Reset(c), link' # link PROVE OneHop'
  <2>1. Next
    BY <1>3 DEF vars
  <2>2. \A d \in Commands : ~WroteLinks(d)
    BY <1>3 DEF WroteLinks, Reset, Become, At, RowsOK
  <2>3. OneHop
    BY <2>1, <2>2 DEF Next, Remember, OneHopUnlessOvertaken
  <2> SUFFICES ASSUME NEW x \in Persons PROVE link'[link'[x]] = link'[x]
    BY DEF OneHop
  <2>4. link[x] \in Persons /\ link[link[x]] = link[x]
    BY <2>3 DEF OneHop, EvidenceOK
  <2> QED
    BY <1>3, <2>4, ResetUnlinks
<1>4. ASSUME NEW c \in Commands, Write(c), link' # link PROVE OneHop'
  <2>1. Next
    BY <1>4 DEF vars
  <2>2. WroteLinks(c)
    BY <1>4 DEF WroteLinks, Write, Close, Become, At, RowsOK, Idle
  <2>3. ~Overtaken(c)
    BY <2>1, <2>2 DEF Next, Remember
  <2>4. /\ run[c].wanted \in [Persons -> Persons]
        /\ \A x \in Persons : run[c].wanted[run[c].wanted[x]] = run[c].wanted[x]
    BY <1>4 DEF Write, At, Writings, Writing
  <2>5. link' = [x \in Persons |-> IF run[c].held[x] = run[c].wanted[x] THEN link[x] ELSE run[c].wanted[x]]
    BY <1>4 DEF Write
  <2>6. \A x \in Persons : run[c].held[x] = link[x]
    BY <2>3 DEF Overtaken
  <2>7. link' = [x \in Persons |-> run[c].wanted[x]]
    BY <2>5, <2>6
  <2> QED
    BY <2>4, <2>7 DEF OneHop
<1> QED
  BY <1>1, <1>2, <1>3, <1>4

\* With any number of sessions, killed anywhere, resets and new evidence in
\* between: only a session whose links changed under it leaves a chain, and the
\* next one that is not overtaken mends it.
THEOREM UndisturbedWritesMend == Spec => []OneHopUnlessOvertaken
<1>1. Init => Sessions
  BY InitSession, InitRows DEF Init, Session, Sessions, Writings, Writing, OneHopUnlessOvertaken, Idle
<1>2. Sessions /\ [Next]_vars => Sessions'
  <2> SUFFICES ASSUME Sessions, [Next]_vars PROVE Sessions'
    OBVIOUS
  <2>1. RowsOK'
    BY StepRows DEF Sessions
  <2>2. WantedOK
    BY DEF Sessions, Writings, Writing, WantedOK
  <2>3. EvidenceOK'
    BY <2>1, <2>2, StepEvidence DEF Sessions
  <2>4. Writings' /\ OneHopUnlessOvertaken'
    BY <2>1, StepWritings, StepTangled DEF Sessions
  <2> QED
    BY <2>1, <2>3, <2>4 DEF Sessions
<1>3. Sessions => OneHopUnlessOvertaken
  BY DEF Sessions
<1> QED
  BY <1>1, <1>2, <1>3, PTL DEF Spec

=============================================================================
