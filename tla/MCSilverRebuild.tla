---------------------------- MODULE MCSilverRebuild ----------------------------
(***************************************************************************)
(* Two snapshots of up to two mentions.  The newer one corrects the first  *)
(* mention and brings the second; the work they then speak of has a        *)
(* namesake that only a catalogue number tells apart.                      *)
(***************************************************************************)
EXTENDS SilverRebuild, TLC

CONSTANTS r1, r2, bach, ann, anna, m1, m2, sonata, suite, c1, c2, n1

MCRebuilds == Permutations(Rebuilds)

MCPairs == {{ann, anna}}
MCBrings == [s \in Snapshots |-> IF s = 1 THEN {ann} ELSE {anna}]
MCSays ==
    [s \in Snapshots |-> [m \in Mentions |->
        IF s = 1 THEN IF m = m1 THEN c1 ELSE Absent ELSE c2]]
MCMeant ==
    [c \in Contents |->
        IF c = c1 THEN [composer |-> Nobody, title |-> suite, stated |-> Unstated]
                  ELSE [composer |-> bach, title |-> sonata, stated |-> n1]]
MCHeading == [c \in Contents |-> [composer |-> MCMeant[c].composer, title |-> MCMeant[c].title]]
=============================================================================
