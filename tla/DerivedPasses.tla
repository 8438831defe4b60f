---------------------------- MODULE DerivedPasses ----------------------------
(***************************************************************************)
(* refresh_derived (derived.py): eight passes over silver, each of them a  *)
(* transaction of its own, while loads commit and other refreshes or       *)
(* single passes run beside it, and may be killed between two passes.      *)
(*                                                                         *)
(* A pass reads and writes in one step here.  A load only adds entities    *)
(* and works and sights mentions.                                          *)
(***************************************************************************)
EXTENDS Events

CONSTANTS
    Refreshers,     \* promotes and rebuilds under way at once
    MaxCommits,     \* bound: what loads commit after the first state
    Works,
    WorkOf,         \* what each work is: composer, derivation, identifiers, its parent's
    Merges(_, _),   \* where merge_works folds each of some works that took others in, or itself
    Mentions,       \* numbers: the order of their rows
    Sightings,      \* the payloads a mention may have
    WorksFor,       \* the works a mention may be matched to
    ComposerOf,     \* the composer a mention names
    PartOf,         \* the items a mention says its work is part of
    RecordOf,       \* the work entity of the mention's source record, or Nothing
    Nothing,
    Base            \* the entities, mentions and works of a first state

ASSUME MaxCommitsAssumption == MaxCommits \in Nat
ASSUME MentionsAssumption == Mentions \subseteq Nat /\ IsFiniteSet(Mentions)

\* Only that a fold is into a work: a second run, of what the first has left, may fold more.
ASSUME MergesAssumption ==
    \A some \in SUBSET Works : \A into \in [Works -> Works] : Merges(some, into) \in [some -> Works]
ASSUME SightingsAssumption ==
    \A m \in Mentions : Sightings[m] \subseteq RecordingPayload \union ConcertPayload /\ WorksFor[m] \subseteq Works

Mention == [payload : RecordingPayload \union ConcertPayload, work : Works]
ASSUME NothingAssumption == Nothing \notin Mention
ASSUME BaseAssumption ==
    \A b \in Base :
        /\ b.minted \subseteq Entities /\ b.works \subseteq Works
        /\ b.mentions \in [Mentions -> Mention \union {Nothing}]

VARIABLES
    minted,         \* the rows of entities
    works,          \* the rows of works
    mentions,       \* [payload, work], or Nothing
    became,         \* the work each work was folded into, or itself
    linked,         \* canonical_entity_id of places, genres and ensembles
    asOf,           \* history: the entities there were when a kind was last linked
    workLinks,
    workEntities,
    concerts,
    recordings,
    programmes,     \* concerts and recordings of each composer
    pass,           \* the pass a refresh is at; 0 when it does not run
    commits,        \* how often a load committed
    quiet,          \* history: nothing was loaded since the refresh began, nor folded since it folded
    fresh           \* history: nothing was loaded or folded since a refresh that was quiet ended

silver == <<minted, works, mentions, became>>
derived == <<linked, asOf, workLinks, workEntities, concerts, recordings, programmes>>
vars == <<silver, derived, pass, commits, quiet, fresh>>

\* Mutant: works are linked before they are folded.
LinksFirst == <<"places", "genres", "ensembles", "links", "entities", "merge", "concerts", "recordings">>

PassOrder == <<"places", "genres", "ensembles", "merge", "links", "entities", "concerts", "recordings">>

Linkable == {"place", "genre", "movement", "ensemble"}

\* The promote that a refresh ends in.
Publishing == Len(PassOrder) + 1

TypeOK ==
    /\ minted \subseteq Entities /\ works \subseteq Works /\ became \in [Works -> Works]
    /\ mentions \in [Mentions -> Mention \union {Nothing}]
    /\ linked \subseteq Entities \X Entities
    /\ asOf \in [Linkable -> SUBSET Entities]
    /\ workLinks \subseteq Works \X Works
    /\ workEntities \subseteq Works \X Entities
    /\ pass \in [Refreshers -> 0 .. Publishing]
    /\ commits \in 0 .. MaxCommits
    /\ quiet \in [Refreshers -> BOOLEAN] /\ fresh \in BOOLEAN

Init ==
    /\ \E b \in Base : minted = b.minted /\ mentions = b.mentions /\ works = b.works
    /\ became = [w \in Works |-> w]
    /\ linked = {} /\ asOf = [kind \in Linkable |-> {}]
    /\ workLinks = {} /\ workEntities = {}
    /\ concerts = {} /\ recordings = {} /\ programmes = {}
    /\ pass = [r \in Refreshers |-> 0]
    /\ commits = 0
    /\ quiet = [r \in Refreshers |-> FALSE]
    /\ fresh = FALSE

-----------------------------------------------------------------------------
(* What the passes read.                                                   *)

Sighted == {m \in Mentions : mentions[m] # Nothing}

\* The rows of the mentions whose payload is of one kind: the query asks for no order.
RowOrders(table, payloads) ==
    {[i \in DOMAIN order |-> <<order[i], table[order[i]].payload>>] :
        order \in SetToSeqs({m \in Mentions : table[m] # Nothing /\ table[m].payload \in payloads})}

\* A work with what the works folded into it were known by.
AsKnown(w) ==
    [WorkOf[w] EXCEPT !.ids = @ \union UNION {WorkOf[v].ids : v \in {u \in Works : became[u] = w}}]
WorksBy(composer) == [w \in {v \in works : WorkOf[v].composer = composer} |-> AsKnown(w)]
Stated == UNION {{mentions[m].work} \X PartOf[m] : m \in Sighted}

\* The links that link_works finds.
AllWorkLinks ==
    (UNION {CatalogueLinks(WorksBy(c)) \union RangeLinks(WorksBy(c)) : c \in {WorkOf[w].composer : w \in works}})
        \union WikidataLinks([w \in works |-> AsKnown(w)], Stated)

AllWorkEntities ==
    {<<mentions[m].work, RecordOf[m]>> : m \in {n \in Sighted : RecordOf[n] \in OfKind(minted, "work")}}

\* refresh_composer_programmes: how many of each a composer's mentions are on.
Programmes(someConcerts, someRecordings) ==
    LET of(events, c) == Cardinality({e \in events : \E m \in e.mentions : ComposerOf[m] = c})
    IN  {<<c, of(someConcerts, c), of(someRecordings, c)>> :
            c \in {ComposerOf[m] : m \in UNION {e.mentions : e \in someConcerts \union someRecordings}}}

-----------------------------------------------------------------------------
(* The passes.                                                             *)

\* The links of these kinds are cleared and made again.
Relink(kinds, links) ==
    /\ linked' = {l \in linked : Entity[l[1]].kind \notin kinds} \union links
    /\ asOf' = [kind \in Linkable |-> IF kind \in kinds THEN minted ELSE asOf[kind]]
    /\ UNCHANGED <<silver, workLinks, workEntities, concerts, recordings, programmes>>

\* What one run of merge_works folds away.
Folding == {w \in works : Merges(works, became)[w] # w}

FoldWorks ==
    LET moved(w) == IF w \in Folding THEN Merges(works, became)[w] ELSE w
    IN  /\ works' = works \ Folding
        /\ became' = [w \in Works |-> moved(became[w])]
        /\ mentions' = [m \in Mentions |->
                IF mentions[m] = Nothing THEN Nothing ELSE [mentions[m] EXCEPT !.work = moved(@)]]
        /\ workLinks' = {l \in workLinks : {l[1], l[2]} \intersect Folding = {}}
        /\ workEntities' = {l \in workEntities : l[1] \notin Folding}
        /\ UNCHANGED <<minted, linked, asOf, concerts, recordings, programmes>>

LinkWorks ==
    /\ workLinks' = AllWorkLinks
    /\ UNCHANGED <<silver, linked, asOf, workEntities, concerts, recordings, programmes>>

LinkWorkEntities ==
    /\ workEntities' = AllWorkEntities
    /\ UNCHANGED <<silver, linked, asOf, workLinks, concerts, recordings, programmes>>

Concerts ==
    /\ \E rows \in RowOrders(mentions, ConcertPayload) : concerts' = DeriveConcerts(minted, rows)
    /\ programmes' = Programmes(concerts', recordings)
    /\ UNCHANGED <<silver, linked, asOf, workLinks, workEntities, recordings>>

Recordings ==
    /\ \E rows \in RowOrders(mentions, RecordingPayload) : recordings' = DeriveRecordings(minted, rows)
    /\ programmes' = Programmes(concerts, recordings')
    /\ UNCHANGED <<silver, linked, asOf, workLinks, workEntities, concerts>>

Pass(p) ==
    \/ p = "places" /\ Relink({"place"}, LinkPlaces(minted))
    \/ p = "genres" /\ Relink({"genre", "movement"}, LinkGenres(minted))
    \/ p = "ensembles" /\ Relink({"ensemble"}, AnchorEnsembles(minted))
    \/ p = "merge" /\ FoldWorks
    \/ p = "links" /\ LinkWorks
    \/ p = "entities" /\ LinkWorkEntities
    \/ p = "concerts" /\ Concerts
    \/ p = "recordings" /\ Recordings

-----------------------------------------------------------------------------

Begin(r) ==
    /\ pass[r] = 0
    /\ pass' = [pass EXCEPT ![r] = 1]
    /\ quiet' = [quiet EXCEPT ![r] = TRUE]
    /\ UNCHANGED <<silver, derived, commits, fresh>>

\* A fold takes from what other refreshes have made after theirs.
Folds(r) == PassOrder[pass[r]] = "merge" /\ Folding # {}
FoldsLater(r) == \A k \in DOMAIN PassOrder : k < pass[r] => PassOrder[k] # "merge"

RunPass(r) ==
    /\ pass[r] \in DOMAIN PassOrder
    /\ Pass(PassOrder[pass[r]])
    /\ pass' = [pass EXCEPT ![r] = @ + 1]
    /\ quiet' = [q \in Refreshers |-> quiet[q] /\ (Folds(r) => q = r \/ FoldsLater(q))]
    /\ fresh' = ((fresh /\ ~Folds(r)) \/ (quiet[r] /\ pass[r] = Len(PassOrder)))
    /\ UNCHANGED commits

Publish(r) ==
    /\ pass[r] = Publishing
    /\ pass' = [pass EXCEPT ![r] = 0]
    /\ UNCHANGED <<silver, derived, commits, quiet, fresh>>

\* A kill, or the insert of an event another refresh inserted meanwhile: the pass is rolled back.
Stop(r) ==
    /\ pass[r] \in DOMAIN PassOrder
    /\ pass' = [pass EXCEPT ![r] = 0]
    /\ UNCHANGED <<silver, derived, commits, quiet, fresh>>

\* The commands that run one pass (cli ingest_cmds.py, genre_cmds.py).
Alone(p) ==
    /\ Pass(p)
    /\ UNCHANGED <<pass, commits, quiet, fresh>>

Loaded ==
    /\ commits < MaxCommits
    /\ commits' = commits + 1
    /\ quiet' = [r \in Refreshers |-> FALSE]
    /\ fresh' = FALSE
    /\ UNCHANGED <<became, derived, pass>>

Mint(e) ==
    /\ e \notin minted
    /\ minted' = minted \union {e}
    /\ UNCHANGED <<works, mentions>>
    /\ Loaded

\* A new mention or one whose content changed, of a work that is there or new.
Sight(m, p, w) ==
    /\ became[w] = w
    /\ m \in Sighted => mentions[m].payload # p
    /\ mentions' = [mentions EXCEPT ![m] = [payload |-> p, work |-> w]]
    /\ works' = works \union {w}
    /\ UNCHANGED minted
    /\ Loaded

Next ==
    \/ \E r \in Refreshers : Begin(r) \/ RunPass(r) \/ Publish(r) \/ Stop(r)
    \/ \E p \in {"genres", "ensembles", "concerts", "recordings"} : Alone(p)
    \/ \E e \in Entities : Mint(e)
    \/ \E m \in Mentions : \E p \in Sightings[m], w \in WorksFor[m] : Sight(m, p, w)

Spec == Init /\ [][Next]_vars

-----------------------------------------------------------------------------
(* Properties.                                                             *)

\* When a refresh ends that nothing was loaded under, whatever other refreshes and single
\* passes ran, stopped or were killed beside it, no pass but the fold would change anything:
\* "every caller runs the same passes in the same order" (derived.py:3-7), and the order leaves
\* nothing to do.  The fold may find more in what it left (merge.py:138-149), and when another
\* refresh runs it in between, the links have to be made again.
LeavesNothingStale ==
    fresh =>
        /\ linked = LinkPlaces(minted) \union LinkGenres(minted) \union AnchorEnsembles(minted)
        /\ workLinks = AllWorkLinks
        /\ workEntities = AllWorkEntities
        /\ concerts \in {DeriveConcerts(minted, rows) : rows \in RowOrders(mentions, ConcertPayload)}
        /\ recordings \in {DeriveRecordings(minted, rows) : rows \in RowOrders(mentions, RecordingPayload)}

\* Two catalogue numbers are two releases (cluster.py:6-9): the pages of one recording never hold
\* two, even through a page between them that has none, and no page is on two recordings.  A
\* page's number is told by each of its mentions, unless some of them were loaded before it changed.
CatalogueOf(m) == mentions[m].payload.fields["catalogue"]
PagesAgree ==
    \A m, n \in Sighted :
        {mentions[m].payload, mentions[n].payload} \subseteq RecordingPayload /\ mentions[m].payload.key = mentions[n].payload.key
            => CatalogueOf(m) = CatalogueOf(n)
ReleasesStayApart ==
    \A r \in recordings :
        /\ fresh /\ PagesAgree => Cardinality({CatalogueOf(m) : m \in r.mentions} \ {Null}) <= 1
        /\ \A s \in recordings \ {r} : r.mentions \intersect s.mentions = {} /\ r.key # s.key

\* Of some entities, the first is the second and can be no other: "picking one would be a
\* guess" (genres.py:53).  An ensemble's name may be that of others, if they are not of its city;
\* an alias of others is passed over for a label.
Means(some, l) ==
    LET e == Entity[l[1]]
        meant == Entity[l[2]]
    IN  /\ {l[1], l[2]} \subseteq some
        /\ e.item = NoItem /\ meant.item # NoItem /\ e.kind = meant.kind
        /\ \A other \in Pinned(some, e.kind) \ {l[2]} :
            e.name \in {Entity[other].name} \union Entity[other].aliases =>
                IF e.kind = "ensemble" THEN Entity[other].cities \intersect e.spells = {}
                ELSE Entity[other].name # e.name /\ meant.name = e.name

\* A canonical link is one hop, to the one thing the name meant of all that silver had when
\* its kind was last linked, whatever was loaded before and since, half-done refreshes included.
LinksNameOneThing ==
    \A l \in linked :
        /\ Means(asOf[Entity[l[1]].kind], l)
        /\ \A k \in linked : k[1] = l[1] => k = l

\* "Refresh them first so the Promote button never publishes stale derivations"
\* (build_routes.py:40-42), as it is written.
PublishesFresh == [][\A r \in Refreshers : pass[r] = Publishing /\ pass'[r] = 0 => fresh]_vars

\* "A recording's id is derived from its source and key, so it is the same after every re-run"
\* (recordings/derive.py:11-13), as long as its release is known by any page it was known by.
IdsStay ==
    [][\A r \in recordings, s \in recordings' : r.mentions \intersect s.mentions # {} => s.key = r.key]_vars

-----------------------------------------------------------------------------
(* The inductive invariant.                                                *)

LinkedOf(kinds) == {l \in linked : Entity[l[1]].kind \in kinds}

\* The first k of the eight passes, the fold apart, would change nothing.
Done(k) ==
    /\ k >= 1 => LinkedOf({"place"}) = LinkPlaces(minted)
    /\ k >= 2 => LinkedOf({"genre", "movement"}) = LinkGenres(minted)
    /\ k >= 3 => LinkedOf({"ensemble"}) = AnchorEnsembles(minted)
    /\ k >= 5 => workLinks = AllWorkLinks
    /\ k >= 6 => workEntities = AllWorkEntities
    /\ k >= 7 => concerts \in {DeriveConcerts(minted, rows) : rows \in RowOrders(mentions, ConcertPayload)}
    /\ k >= 8 => recordings \in {DeriveRecordings(minted, rows) : rows \in RowOrders(mentions, RecordingPayload)}

\* Links of these kinds, each to the one thing of some entities it means.
Sound(links, kinds, some) ==
    \A l \in links :
        /\ l = <<l[1], l[2]>> /\ Entity[l[1]].kind \in kinds
        /\ Means(some, l)
        /\ \A k \in links : k[1] = l[1] => k = l

IInv ==
    /\ TypeOK
    /\ \A l \in linked : Entity[l[1]].kind \in Linkable
    /\ LinksNameOneThing
    /\ \A r \in Refreshers, k \in 0 .. 8 : quiet[r] /\ pass[r] = k + 1 => Done(k)
    /\ fresh => Done(8)

=============================================================================
