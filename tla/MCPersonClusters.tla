-------------------------- MODULE MCPersonClusters --------------------------
(***************************************************************************)
(* Small instances of PersonClusters for TLC: every set of edges with at   *)
(* most one edge per pair of nodes, and every set of at most MaxCannot     *)
(* cannot-links.                                                           *)
(***************************************************************************)
EXTENDS PersonClusters

CONSTANTS Scores, MaxCannot

MCEdges == {e \in [a : Nodes, b : Nodes, score : Scores] : e.a < e.b}

\* Inputs up to the orientation of pairs: a pair is scored once, a cannot-link
\* is symmetric.
SmallInputs ==
    /\ \A e, f \in given : e.a = f.a /\ e.b = f.b => e = f
    /\ Cardinality(cannot) <= MaxCannot

MCInit ==
    /\ cannot \in SUBSET {p \in TwoNodes : p[1] < p[2]}
    /\ ClusteringInit
    /\ SmallInputs

MCSpec == MCInit /\ [][ClusteringNext]_clustering /\ WF_clustering(ClusteringNext)
=============================================================================
