---------------------------- MODULE PersonLinks ----------------------------
(***************************************************************************)
(* The person dedupe (persons/dedupe.py) and the commands that drive it:   *)
(* a scoring pass, with or without a reset before it, a re-clustering, and *)
(* a human who accepts or rejects a pair.  A command is a session with     *)
(* several transactions; other commands and the ingest of new evidence     *)
(* come between them, and a command may be killed after any of them.       *)
(*                                                                         *)
(* The session factory keeps objects across commits (expire_on_commit is   *)
(* off) and a query does not refresh what the session already holds, so    *)
(* the links a pass compares with are the ones it read when it began.      *)
(***************************************************************************)
EXTENDS Integers, FiniteSets, SequencesExt, FiniteSetsExt

CONSTANTS
    Persons,    \* the person entities; their ids are ordered
    Commands,   \* sessions that may be open at the same time
    Scores,     \* what the model may give a pair
    Review,     \* REVIEW_THRESHOLD
    AutoLink,    \* AUTO_THRESHOLD
    Catalogue,  \* catalogues.SCORE
    Batch,      \* COMMIT_BATCH
    MaxShared,  \* bound: pairs that may share catalogue numbers
    MaxConflicts, \* bound: pairs whose authority ids conflict at the start
    MaxNews     \* bound: times new evidence arrives

ASSUME PersonsAssumption == Persons \subseteq Int /\ IsFiniteSet(Persons)
ASSUME ScoresAssumption ==
    /\ Scores \subseteq Int
    /\ {Review, AutoLink, Catalogue} \subseteq Int
    /\ Review < AutoLink /\ AutoLink < Catalogue
ASSUME BoundsAssumption ==
    {Batch, MaxShared, MaxConflicts, MaxNews} \subseteq Nat /\ Batch # 0

VARIABLES
    score,      \* what the model gives each pair
    shared,     \* pairs that catalogue numbers may link
    conflict,   \* pairs whose authority ids conflict, uncorroborated
    rank,       \* _canonical_rank: the least is the best evidenced
    news,       \* times new evidence has arrived
    status,     \* person_matches.status of each pair; "none": no row
    link,       \* entities.canonical_entity_id; the entity itself: NULL
    run,        \* the open command of each session
    settled,    \* no decision or evidence has changed since the last apply
    decided,    \* history: what a human last decided of each pair, unraced
    tangled     \* history: the last to write links held others than there were

evidence == <<score, shared, conflict, rank, news>>
history == <<decided, tangled>>
vars == <<evidence, status, link, run, settled, history>>

Pairs == {p \in SUBSET Persons : Cardinality(p) = 2}
Statuses == {"none", "auto_linked", "needs_review", "accepted", "rejected"}
HumanStatuses == {"accepted", "rejected"}

\* _canonical_and_duplicate: the fuller name is the row's canonical side.
\* Here the greater id has it, the opposite of the rank it starts with, so the
\* two orders of the code disagree.
CanonicalSide(p) == CHOOSE x \in p : \A y \in p : y <= x
DuplicateSide(p) == CHOOSE x \in p : \A y \in p : x <= y

\* person_matches.score.  Only a link that catalogue numbers made has another
\* score than the model's.
Weight(p) == IF status[p] = "auto_linked" /\ score[p] < AutoLink THEN Catalogue ELSE score[p]

\* What load_records tells about the evidence.
Known == [conflict |-> conflict, rank |-> rank]

Idle == [at |-> "idle", pair |-> {}, verdict |-> "none", todo |-> {}, rows |-> <<>>,
         held |-> <<>>, known |-> <<>>, wanted |-> <<>>]

TypeOK ==
    /\ score \in [Pairs -> Scores]
    /\ shared \subseteq Pairs /\ conflict \subseteq Pairs
    /\ DOMAIN rank = Persons
    /\ status \in [Pairs -> Statuses]
    /\ link \in [Persons -> Persons]
    /\ \A c \in Commands :
        /\ DOMAIN run[c] = DOMAIN Idle
        /\ run[c].at \in {"idle", "reset", "load", "score", "weigh", "lookup", "upgrade",
                          "answer", "entities", "matches", "write"}
        /\ run[c].todo \subseteq Pairs
        /\ DOMAIN run[c].held \subseteq Persons
        /\ DOMAIN run[c].rows \subseteq Pairs
    /\ decided \in [Pairs -> HumanStatuses \union {"none"}]
    /\ tangled \in BOOLEAN

Init ==
    /\ score \in [Pairs -> Scores]
    /\ shared \in {S \in SUBSET Pairs : Cardinality(S) <= MaxShared}
    /\ conflict \in {S \in SUBSET Pairs : Cardinality(S) <= MaxConflicts}
    /\ rank = [x \in Persons |-> x]
    /\ news = 0
    /\ status = [p \in Pairs |-> "none"]
    /\ link = [x \in Persons |-> x]
    /\ run = [c \in Commands |-> Idle]
    /\ settled = FALSE
    /\ decided = [p \in Pairs |-> "none"]
    /\ tangled = FALSE

-----------------------------------------------------------------------------
(* build_clusters, as one step: module PersonClusters has its loops.       *)

Stronger(p, q) ==
    \/ Weight(p) > Weight(q)
    \/ Weight(p) = Weight(q) /\ DuplicateSide(p) < DuplicateSide(q)
    \/ Weight(p) = Weight(q) /\ DuplicateSide(p) = DuplicateSide(q)
       /\ CanonicalSide(p) < CanonicalSide(q)

Consider(cluster, p, barred) ==
    LET both == UNION {cluster[x] : x \in p}
    IN  IF \E q \in barred : q \subseteq both
        THEN cluster
        ELSE [x \in Persons |-> IF x \in both THEN both ELSE cluster[x]]

Weakest(links) == CHOOSE p \in links : \A q \in links \ {p} : Stronger(q, p)

\* The clusters once the links are considered, the weakest of them last.
Clusters(links, barred) ==
    LET after[some \in SUBSET links] ==
            IF some = {} THEN [x \in Persons |-> {x}]
            ELSE Consider(after[some \ {Weakest(some)}], Weakest(some), barred)
    IN  after[links]

\* _cluster_edges
Links == {p \in Pairs : status[p] \in {"auto_linked", "accepted"}}
Rejected == {p \in Pairs : status[p] = "rejected"}

\* _cluster_canonical
Canonical(members, ranks) == CHOOSE x \in members : \A y \in members : ranks[x] <= ranks[y]
-----------------------------------------------------------------------------
(* Commands.                                                               *)

At(c, place) == run[c].at = place
Become(c, command) == run' = [run EXCEPT ![c] = command]
Close(c) == Become(c, Idle)

\* dedupe-persons [--reset | --recluster-only]
StartDedupe(c) ==
    /\ At(c, "idle")
    /\ \E first \in {"reset", "load", "entities"} : Become(c, [run[c] EXCEPT !.at = first])
    /\ UNCHANGED <<evidence, status, link, settled>>

\* person-review --accept or --reject: the row is read, and for an acceptance
\* the two entities, whose names are printed.
StartReview(c) ==
    /\ At(c, "idle")
    /\ \E p \in Pairs, verdict \in HumanStatuses :
        /\ status[p] = "needs_review"
        /\ Become(c, [run[c] EXCEPT !.at = "answer",
                                    !.pair = p,
                                    !.verdict = verdict,
                                    !.held = IF verdict = "accepted" THEN [x \in p |-> link[x]] ELSE <<>>])
    /\ UNCHANGED <<evidence, status, link, settled>>

Answer(c) ==
    /\ At(c, "answer")
    /\ status[run[c].pair] # "none"
    /\ status' = [status EXCEPT ![run[c].pair] = run[c].verdict]
    /\ Become(c, [run[c] EXCEPT !.at = "entities", !.pair = {}, !.verdict = "none"])
    /\ settled' = FALSE
    /\ UNCHANGED <<evidence, link>>

\* The update finds no row any more and the command fails.
AnswerIsStale(c) ==
    /\ At(c, "answer")
    /\ status[run[c].pair] = "none"
    /\ Close(c)
    /\ UNCHANGED <<evidence, status, link, settled>>

\* reset_person_links, both statements and the commit.
Reset(c) ==
    /\ At(c, "reset")
    /\ status' = [p \in Pairs |-> IF status[p] \in HumanStatuses THEN status[p] ELSE "none"]
    /\ link' = [x \in Persons |->
                    IF \E p \in Pairs : status[p] = "accepted" /\ DuplicateSide(p) = x
                    THEN link[x] ELSE x]
    /\ Become(c, [run[c] EXCEPT !.at = "load"])
    /\ settled' = FALSE
    /\ UNCHANGED evidence

\* The head of dedupe_persons: entities, their records, the decided pairs.
Load(c) ==
    /\ At(c, "load")
    /\ Become(c, [run[c] EXCEPT !.at = "score",
                                !.held = link,
                                !.known = Known,
                                !.todo = {p \in Pairs : status[p] = "none" /\ score[p] >= Review}])
    /\ UNCHANGED <<evidence, status, link, settled>>

\* The next COMMIT_BATCH pairs that are not distinct, or the last of them.
NextBatch(c, S) ==
    /\ At(c, "score")
    /\ S \subseteq run[c].todo
    /\ Cardinality(S) = Batch \/ (S = run[c].todo /\ Cardinality(S) < Batch)

\* Mutant: a row that is there already is replaced.
ScoreBatchReplaces(c) ==
    /\ \E S \in SUBSET run[c].todo :
        /\ NextBatch(c, S)
        /\ status' = [p \in Pairs |->
                        IF p \notin S THEN status[p]
                        ELSE IF score[p] >= AutoLink THEN "auto_linked" ELSE "needs_review"]
        /\ settled' = (settled /\ S = {})
        /\ Become(c, [run[c] EXCEPT !.todo = run[c].todo \ S,
                                    !.at = IF S = run[c].todo THEN "weigh" ELSE "score"])
    /\ UNCHANGED <<evidence, link>>

ScoreBatch(c) ==
    /\ \E S \in SUBSET run[c].todo :
        /\ NextBatch(c, S)
        /\ \A p \in S : status[p] = "none"
        /\ status' = [p \in Pairs |->
                        IF p \notin S THEN status[p]
                        ELSE IF score[p] >= AutoLink THEN "auto_linked" ELSE "needs_review"]
        /\ settled' = (settled /\ S = {})
        /\ Become(c, [run[c] EXCEPT !.todo = run[c].todo \ S,
                                    !.at = IF S = run[c].todo THEN "weigh" ELSE "score"])
    /\ UNCHANGED <<evidence, link>>

\* A pair of the batch has got a row meanwhile: uq_person_match, and the pass
\* fails with what it has committed.
ScoreBatchCollides(c) ==
    /\ \E S \in SUBSET run[c].todo :
        /\ NextBatch(c, S)
        /\ \E p \in S : status[p] # "none"
    /\ Close(c)
    /\ UNCHANGED <<evidence, status, link, settled>>

\* The pairs whose numbers could join two clusters, and those of them that
\* survive being merged in turn under the cannot-links.
Joining(cluster) == {p \in shared : \A x, y \in p : x # y => cluster[x] # cluster[y]}

Surviving(S, cluster, barred) ==
    LET merged == FoldLeft(LAMBDA sofar, p : Consider(sofar, p, barred), cluster, SetToSeq(S))
    IN  {p \in S : \E r \in Persons : p \subseteq merged[r]}

\* catalogue_links.  Which clusters are ambiguous is left open.
Weigh(c) ==
    /\ At(c, "weigh")
    /\ LET barred == Rejected \union run[c].known.conflict
           cluster == Clusters(Links, barred)
       IN  \E S \in SUBSET Joining(cluster) :
             Become(c, [run[c] EXCEPT !.at = "lookup",
                                      !.todo = Surviving(S, cluster, barred),
                                      !.known = <<>>])
    /\ UNCHANGED <<evidence, status, link, settled>>

\* _link_shared_catalogues looks the rows up: a missing one is added, one
\* that awaits review is made a link, any other is left alone.
Lookup(c) ==
    /\ At(c, "lookup")
    /\ LET open == {p \in run[c].todo : status[p] \in {"none", "needs_review"}}
       IN  Become(c, [run[c] EXCEPT !.at = "upgrade",
                                    !.todo = {},
                                    !.rows = [p \in open |-> status[p]]])
    /\ UNCHANGED <<evidence, status, link, settled>>

\* It commits; the update names the row, not the status it had.
Upgrade(c) ==
    /\ At(c, "upgrade")
    /\ \A p \in DOMAIN run[c].rows : run[c].rows[p] = "none" <=> status[p] = "none"
    /\ status' = [p \in Pairs |-> IF p \in DOMAIN run[c].rows THEN "auto_linked" ELSE status[p]]
    /\ Become(c, [run[c] EXCEPT !.at = "entities", !.rows = <<>>])
    /\ settled' = (settled /\ DOMAIN run[c].rows = {})
    /\ UNCHANGED <<evidence, link>>

\* A row has been added or deleted meanwhile, and the pass fails.
UpgradeCollides(c) ==
    /\ At(c, "upgrade")
    /\ \E p \in DOMAIN run[c].rows : (run[c].rows[p] = "none") # (status[p] = "none")
    /\ Close(c)
    /\ UNCHANGED <<evidence, status, link, settled>>

-----------------------------------------------------------------------------
(* apply_clusters.                                                         *)

\* Entities and records; what the session holds already stays as it was.
ReadEntities(c) ==
    /\ At(c, "entities")
    /\ Become(c, [run[c] EXCEPT !.at = "matches",
                                !.held = [x \in Persons |-> IF x \in DOMAIN run[c].held THEN run[c].held[x] ELSE link[x]],
                                !.known = Known])
    /\ UNCHANGED <<evidence, status, link, settled>>

\* Mutant: each duplicate is pointed at the canonical side of its own pair.
ReadMatchesPairwise(c) ==
    /\ At(c, "matches")
    /\ LET cluster == Clusters(Links, Rejected \union run[c].known.conflict)
           mine(x) == {p \in Links : DuplicateSide(p) = x /\ p \subseteq cluster[x]}
           target(x) == IF mine(x) = {} THEN x ELSE CanonicalSide(CHOOSE p \in mine(x) : TRUE)
       IN  Become(c, [run[c] EXCEPT !.at = "write",
                                    !.wanted = [x \in Persons |-> target(x)]])
    /\ UNCHANGED <<evidence, status, link, settled>>

\* Mutant: the human's rejections are not passed on.
ReadMatchesUnbarred(c) ==
    /\ At(c, "matches")
    /\ LET cluster == Clusters(Links, run[c].known.conflict)
           target(x) == Canonical(cluster[x], run[c].known.rank)
       IN  Become(c, [run[c] EXCEPT !.at = "write", !.wanted = [x \in Persons |-> target(x)]])
    /\ UNCHANGED <<evidence, status, link, settled>>

\* The matches, and the canonical each person is to have.
ReadMatches(c) ==
    /\ At(c, "matches")
    /\ LET cluster == Clusters(Links, Rejected \union run[c].known.conflict)
           target(x) == Canonical(cluster[x], run[c].known.rank)
       IN  Become(c, [run[c] EXCEPT !.at = "write", !.wanted = [x \in Persons |-> target(x)]])
    /\ UNCHANGED <<evidence, status, link, settled>>

\* Mutant: only members of clusters are looked at, so nobody is unlinked.
WriteMembers(c) ==
    /\ At(c, "write")
    /\ link' = [x \in Persons |->
                    IF run[c].wanted[x] = x THEN link[x] ELSE run[c].wanted[x]]
    /\ settled' = (run[c].known = Known)
    /\ Close(c)
    /\ UNCHANGED <<evidence, status>>

\* Only links that differ from what the session holds are written.
Write(c) ==
    /\ At(c, "write")
    /\ link' = [x \in Persons |->
                    IF run[c].held[x] = run[c].wanted[x] THEN link[x] ELSE run[c].wanted[x]]
    /\ settled' = (run[c].known = Known)
    /\ Close(c)
    /\ UNCHANGED <<evidence, status>>

\* The process is interrupted; the open transaction is rolled back.
Killed(c) ==
    /\ ~At(c, "idle")
    /\ Close(c)
    /\ UNCHANGED <<evidence, status, link, settled>>

-----------------------------------------------------------------------------
\* An ingest brings x an authority id: it outranks the others, and may
\* conflict with one of them.
News(x) ==
    /\ news < MaxNews
    /\ news' = news + 1
    /\ rank' = [rank EXCEPT ![x] = Min({rank[y] : y \in Persons}) - 1]
    /\ \E S \in SUBSET {p \in Pairs : x \in p} :
        /\ Cardinality(S) <= 1
        /\ conflict' = conflict \union S
    /\ settled' = FALSE
    /\ UNCHANGED <<score, shared, status, link, run>>

Dedupe(c) ==
    \/ StartDedupe(c) \/ Reset(c) \/ Load(c) \/ ScoreBatch(c) \/ ScoreBatchCollides(c)
    \/ Weigh(c) \/ Lookup(c) \/ Upgrade(c) \/ UpgradeCollides(c)
Human(c) == StartReview(c) \/ Answer(c) \/ AnswerIsStale(c)
Apply(c) == ReadEntities(c) \/ ReadMatches(c) \/ Write(c)

Step ==
    \/ \E c \in Commands : Dedupe(c) \/ Human(c) \/ Apply(c) \/ Killed(c)
    \/ \E x \in Persons : News(x)

-----------------------------------------------------------------------------
(* History, which no guard reads.                                          *)

Answered(p) == \E c \in Commands : At(c, "answer") /\ run[c].pair = p /\ At(c, "entities")'

\* A catalogue pass has looked the row up and is about to overwrite it.
Upgrading(p) == \E c \in Commands : At(c, "upgrade") /\ p \in DOMAIN run[c].rows

Overtaken(c) == \E x \in Persons : run[c].held[x] # link[x]
WroteLinks(c) == At(c, "write") /\ run'[c] # run[c] /\ link' # link

Remember ==
    /\ decided' = [p \in Pairs |-> IF ~Answered(p) THEN decided[p]
                                   ELSE IF Upgrading(p) THEN "none" ELSE status'[p]]
    /\ tangled' = IF \E c \in Commands : WroteLinks(c)
                  THEN \E c \in Commands : WroteLinks(c) /\ Overtaken(c)
                  ELSE tangled

Next == Step /\ Remember

Spec == Init /\ [][Next]_vars
-----------------------------------------------------------------------------
(* Properties.                                                             *)

Root(x) == link[x]
Together(p) == \A x, y \in p : Root(x) = Root(y)

\* "The pointer graph is a partition: one hop to a root, no chains, no cycles"
\* (apply_clusters), at every moment gold may read it.
OneHop == \A x \in Persons : link[link[x]] = link[x]

\* With several sessions too: the links are a partition, unless the session
\* that wrote them last held others than there were, and so wrote its diff over
\* what another had changed since it read them.  The next pass or review whose
\* links are still those it read repairs what such a session left.
OneHopUnlessOvertaken == ~tangled => OneHop

\* "Decisions a human made, which a re-run must never discard"
\* (HUMAN_STATUSES) and "rejected is remembered so re-runs don't re-propose"
\* (PersonMatch): whatever passes, resets and reviews do afterwards, together
\* or one after another, the row says what a human last answered.  Only an
\* answer given while a catalogue pass is between reading that row and
\* overwriting it is not sure to stand.
DecisionsStand == \A p \in Pairs : decided[p] \in HumanStatuses => status[p] = decided[p]

\* Two persons a human told apart, once the links say so, are not reunited,
\* by a new score, a shared catalogue or a chain through a third.
NeverReunited ==
    [][\A p \in Pairs : status[p] = "rejected" /\ ~Together(p) => ~Together(p)']_vars

\* Once everything decided has been applied: a link not followed is one that
\* a rejection or an authority conflict between the two clusters explains, a
\* cluster has no member that no link leads to, and its root is the best.
ClusterOf(x) == {y \in Persons : Root(y) = Root(x)}
LinksFollowDecisions ==
    settled =>
        /\ \A p \in Links :
            Together(p) \/ \E q \in Rejected \union conflict :
                              q \subseteq UNION {ClusterOf(x) : x \in p}
        /\ \A x \in Persons : \A S \in SUBSET ClusterOf(x) :
            S \in {{}, ClusterOf(x)} \/
                \E p \in Links : p \subseteq ClusterOf(x) /\ p \intersect S # {} /\ ~(p \subseteq S)
        /\ \A x \in Persons : rank[Root(x)] <= rank[x]

-----------------------------------------------------------------------------
(* What the documents say and the code does not do.                        *)

\* A pass discards no decision, and "a pair a human decided is left alone"
\* (_link_shared_catalogues): only another human decides anew.
HumanDecisionsStay ==
    [][\A p \in Pairs :
        status[p] \in HumanStatuses =>
            \/ status'[p] = status[p]
            \/ \E c \in Commands : At(c, "answer") /\ status'[p] = run[c].verdict]_vars

\* Whatever races: no pair a human decided is put to a human again.
NeverAskedAgain ==
    \A p \in Pairs : [](status[p] \in HumanStatuses => [](status[p] # "needs_review"))

\* "auto_linked / accepted also set entity.canonical_entity_id" (PersonMatch).
AcceptedAreLinked == settled => \A p \in Pairs : status[p] = "accepted" => Together(p)

\* A reset keeps the human's rows "along with the links they justify"
\* (reset_person_links).
ResetKeepsAcceptedLinks ==
    [][(\E c \in Commands : Reset(c)) =>
        \A p \in Pairs : status[p] = "accepted" /\ Together(p) => Together(p)']_vars
=============================================================================
