----------------------------- MODULE AtomicSwap -----------------------------
(***************************************************************************)
(* What a database build promises its readers, whatever the backend        *)
(* (composer_warehouse/build.py, module docstring): the database a reader  *)
(* sees is nothing at all or the whole result of one build, it changes     *)
(* from one whole result to another in a single step, and the manifest     *)
(* calls a build completed only when its result has been swapped in.       *)
(***************************************************************************)
CONSTANTS
    Builds,     \* every build that is ever attempted
    NoBuild     \* "no database yet"

VARIABLES
    current,    \* the build readers see, or NoBuild
    published,  \* the builds that have been swapped in so far
    claim       \* the build the manifest calls completed, or NoBuild

vars == <<current, published, claim>>

Init ==
    /\ current = NoBuild
    /\ published = {}
    /\ claim = NoBuild

\* BuildTarget.commit: the staged database becomes the live one.
Publish(id) ==
    /\ id \notin published
    /\ current' = id
    /\ published' = published \union {id}
    /\ UNCHANGED claim

\* The manifest is overwritten: it names a published build as completed, or
\* (status running or failed) names none.
Report ==
    /\ claim' \in published \union {NoBuild}
    /\ UNCHANGED <<current, published>>

Next ==
    \/ \E id \in Builds : Publish(id)
    \/ Report

Spec == Init /\ [][Next]_vars
=============================================================================
