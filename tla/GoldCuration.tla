---------------------------- MODULE GoldCuration ----------------------------
(***************************************************************************)
(* What promote does with the rows of silver (composer_gold/_selection.py, *)
(* _claims.py and _copy.py), as operators on a silver database s, a build  *)
(* b and a gold database g.  The phases of a build call them in turn, each *)
(* on the silver there is when it runs.                                    *)
(*                                                                         *)
(*   s  kinds, canonical, claims, records, runs, works, titles, links,     *)
(*      mentions, workEntities, events, credits, items                     *)
(*   b  config, roots, persons, ensembles, counts, evidence, sitelinked,   *)
(*      keptRoots, keptMembers, keptEnsembles, unevidenced, other,         *)
(*      frontier, keptOther, rows                                          *)
(*   g  the tables of s, programmes, connections, and made, which tells two *)
(*      golds apart                                                        *)
(***************************************************************************)
EXTENDS Naturals, FiniteSets, FiniteSetsExt, Functions, TLC

CONSTANT None

\* A table with more rows in it.
Insert(table, rows) ==
    [x \in DOMAIN table \union DOMAIN rows |-> IF x \in DOMAIN rows THEN rows[x] ELSE table[x]]

\* A column of some rows.
Fields(rows, field) == {r[field] : r \in rows}

NoRows == [x \in {} |-> None]

\* GoldBuild.root, of an entity or of None.
Root(b, e) == IF e \in DOMAIN b.roots THEN b.roots[e] ELSE e
Roots(b, S) == {Root(b, e) : e \in S}
OfKind(s, kind) == {e \in DOMAIN s.kinds : s.kinds[e] = kind}

----------------------------------------------------------------------------
(* Rule 1 *)

\* Mutant: a credit counts for the spelling it names.
CreditedBySpelling(s, b, r, kind) ==
    {c.event : c \in {c \in s.credits : c.entity = r /\ s.events[c.event] = kind}}

\* The events of a kind that some spelling of r is credited on.
CreditedOn(s, b, r, kind) ==
    {c.event : c \in {c \in s.credits : c.entity # None /\ Root(b, c.entity) = r /\ s.events[c.event] = kind}}

AppearanceCounts(s, b) ==
    [r \in Roots(b, DOMAIN s.kinds) |->
        [concerts |-> Cardinality(CreditedOn(s, b, r, "concert")),
         recordings |-> Cardinality(CreditedOn(s, b, r, "recording"))]]

Count(b, r) == IF r \in DOMAIN b.counts THEN b.counts[r] ELSE [concerts |-> 0, recordings |-> 0]

AppearanceRoots(b, candidates, least) ==
    {r \in Roots(b, candidates) :
        Count(b, r).concerts >= least.concerts \/ Count(b, r).recordings >= least.recordings}

Composers(s) == {s.mentions[m].composer : m \in DOMAIN s.mentions} \ {None}
ComposedBy(s, b, r) ==
    {m \in DOMAIN s.mentions : s.mentions[m].composer # None /\ Root(b, s.mentions[m].composer) = r}

\* A mention that has no work counts by its title.
WorksReached(s, b, r) ==
    {IF s.mentions[m].work # None THEN s.mentions[m].work ELSE s.mentions[m].title : m \in ComposedBy(s, b, r)}
ProgrammesReached(s, b, r) == {i.event : i \in {i \in s.items : i.mention \in ComposedBy(s, b, r)}}

ComposerRoots(s, b, least) ==
    {r \in Roots(b, b.persons \intersect Composers(s)) :
        /\ Count(b, r).concerts + Count(b, r).recordings >= least.appearancesOfComposers
        /\ \/ Cardinality(WorksReached(s, b, r)) >= least.works
           \/ Cardinality(ProgrammesReached(s, b, r)) >= least.programmes}

\* The best count of any spelling; a value that is no number is None.
SitelinkRoots(s, b, least) ==
    {r \in Roots(b, b.persons) :
        /\ least # None
        /\ \E c \in s.claims :
            c.predicate = "sitelink_count" /\ c.value # None /\ Root(b, c.subject) = r /\ c.value >= least}

\* GoldBuild.__init__
NewBuild(s, config) ==
    [config |-> config,
     roots |-> IF config.collapse THEN s.canonical ELSE NoRows,
     persons |-> OfKind(s, "person"),
     ensembles |-> OfKind(s, "ensemble"),
     counts |-> NoRows, evidence |-> {}, sitelinked |-> {}, keptRoots |-> {}, keptMembers |-> {},
     keptEnsembles |-> {}, unevidenced |-> {}, other |-> {}, frontier |-> {}, keptOther |-> {}, rows |-> {}]
OpenBuild(s, config) ==
    LET b == NewBuild(s, config) IN [b EXCEPT !.counts = AppearanceCounts(s, b)]

SelectPersons(s, b) ==
    LET least == b.config.persons
        evidence == ComposerRoots(s, b, least) \union AppearanceRoots(b, b.persons, least)
        sitelinked == SitelinkRoots(s, b, least.sitelinks)
        kept == IF b.config.evidence THEN evidence \union sitelinked ELSE Roots(b, b.persons)
    IN [b EXCEPT
        !.evidence = IF b.config.evidence THEN evidence ELSE {},
        !.sitelinked = IF b.config.evidence THEN sitelinked ELSE {},
        !.keptRoots = kept,
        !.keptMembers = {p \in b.persons : Root(b, p) \in kept}]

SelectEnsembles(b) ==
    LET kept == IF b.config.evidence THEN AppearanceRoots(b, b.ensembles, b.config.ensembles)
                ELSE Roots(b, b.ensembles)
    IN [b EXCEPT !.keptEnsembles = kept, !.unevidenced = Roots(b, b.ensembles) \ kept]

EnsembleMembers(b) == {e \in b.ensembles : Root(b, e) # e /\ Root(b, e) \in b.keptEnsembles}

----------------------------------------------------------------------------
(* Claims, and rule 3 *)

\* A claim as gold has it; of is the claim of silver it was made from.
Row(b, c) ==
    [of |-> c.id, subject |-> Root(b, c.subject), predicate |-> c.predicate, object |-> Root(b, c.object),
     value |-> c.value, source |-> c.source, record |-> c.record]
SameClaim(p, q) ==
    /\ p.subject = q.subject /\ p.predicate = q.predicate /\ p.object = q.object
    /\ p.value = q.value /\ p.source = q.source

\* Of the claims that collapsing aligns, the one with the least id.
PersonRows(s, b) ==
    LET rows == {Row(b, c) : c \in {c \in s.claims : c.subject \in b.keptMembers}}
    IN {p \in rows : \A q \in rows : SameClaim(p, q) => p.of <= q.of}

Referrers(b, rows, e) == {p.subject : p \in {p \in rows : p.object = e}}
Referenced(b, rows) ==
    {e \in {p.object : p \in rows} \ ({None} \union b.keptMembers) :
        Cardinality(Referrers(b, rows, e)) >= (IF b.config.prune THEN b.config.referrers ELSE 1)}

\* collect_person_claims, collect_work_entities and the seeds of walk_referenced
CollectPersonClaims(s, b) ==
    LET rows == PersonRows(s, b)
        seeds == Referenced(b, rows) \union Roots(b, {l.entity : l \in s.workEntities})
                 \union (b.keptEnsembles \ b.keptRoots)
    IN [b EXCEPT
        !.rows = rows,
        !.other = DOMAIN s.kinds \ OfKind(s, "person"),
        !.frontier = seeds \ (b.keptRoots \union b.unevidenced)]

\* Mutant: the walk expands through ensembles without a credit.
WalkedToAny(s, b) ==
    {c \in s.claims : c.subject \in b.frontier /\ c.object # None /\ Root(b, c.object) \notin Roots(b, b.persons)}

\* The claims a round of the walk follows: about no person and no ensemble without a credit.
Walked(s, b) ==
    {c \in s.claims :
        /\ c.subject \in b.frontier
        /\ c.object # None
        /\ Root(b, c.object) \notin Roots(b, b.persons) \union b.unevidenced}

WalkRound(s, b) ==
    LET other == b.keptOther \union b.frontier IN
    [b EXCEPT
        !.keptOther = other,
        !.frontier = {Root(b, c.object) : c \in Walked(s, b)} \ other,
        !.rows = @ \union {[Row(b, c) EXCEPT !.subject = c.subject] : c \in Walked(s, b)}]

WalkEnd(b) ==
    LET unpruned == IF b.config.prune THEN {}
                    ELSE Roots(b, b.other) \ (b.keptRoots \union b.unevidenced)
    IN [b EXCEPT !.keptOther = @ \union unpruned \union (b.keptEnsembles \ b.keptRoots)]

CollectLiterals(s, b) ==
    [b EXCEPT !.rows = @ \union
        {Row(b, c) : c \in {c \in s.claims :
            c.object = None /\ c.subject \in b.keptOther \union EnsembleMembers(b)}}]

Kept(b) == b.keptRoots \union b.keptOther

\* Mutant: claims about what rule 3 pruned stay.
PrunedObjectsStay(b) == b

DropPrunedObjects(b) == [b EXCEPT !.rows = {p \in @ : p.object = None \/ p.object \in Kept(b)}]

----------------------------------------------------------------------------
(* Copies.  Gold keeps the ids of silver; a link to what it drops is null. *)

InGold(b, e) == IF Root(b, e) \in Kept(b) THEN Root(b, e) ELSE None

CopyEntities(s, b, g, ids) == [g EXCEPT !.kinds = Insert(@, Restrict(s.kinds, ids \intersect DOMAIN s.kinds))]

RecordOwners(b) == b.keptMembers \union b.keptOther \union EnsembleMembers(b)
CopyRecords(s, b, g) ==
    [g EXCEPT !.records =
        {[r EXCEPT !.entity = Root(b, @)] : r \in {r \in s.records : r.entity \in RecordOwners(b)}}]

CopyWorks(s, b, g) == [g EXCEPT !.works = [w \in DOMAIN s.works |-> InGold(b, s.works[w])]]

CopyMentions(s, b, g) ==
    [g EXCEPT !.mentions = [m \in DOMAIN s.mentions |-> [s.mentions[m] EXCEPT !.composer = InGold(b, @)]]]

\* One row for each work, root and source: links of two spellings become one.
CopyWorkEntities(s, b, g) ==
    [g EXCEPT !.workEntities =
        {[l EXCEPT !.entity = Root(b, @)] : l \in {l \in s.workEntities : Root(b, l.entity) \in Kept(b)}}]

\* copy_concerts and copy_recordings: three tables each.
CopyEvents(s, b, g, kind) ==
    LET ofKind(rows) == {x \in rows : s.events[x.event] = kind} IN
    [g EXCEPT
        !.events = Insert(@, Restrict(s.events, {e \in DOMAIN s.events : s.events[e] = kind})),
        !.credits = @ \union {[c EXCEPT !.entity = InGold(b, @)] : c \in ofKind(s.credits)},
        !.items = @ \union ofKind(s.items)]

\* refresh_composer_programmes, over gold's own mentions.
RecountProgrammes(g) ==
    [g EXCEPT !.programmes =
        [e \in {g.mentions[i.mention].composer : i \in {i \in g.items : i.mention \in DOMAIN g.mentions}} \ {None} |->
            Cardinality({i.event : i \in {i \in g.items :
                i.mention \in DOMAIN g.mentions /\ g.mentions[i.mention].composer = e}})]]

----------------------------------------------------------------------------
\* A silver whose references are to rows that are there, whose links are one hop deep and
\* within a kind, and whose claims are of the entity of the record that states them: what
\* every load and every pass leaves (IngestRuns, PersonLinks, Works and DerivedPasses).
Stands(s) ==
    LET entities == DOMAIN s.kinds
        works == DOMAIN s.works
        links == DOMAIN s.canonical
    IN /\ DOMAIN s = {"kinds", "canonical", "claims", "records", "runs", "works", "titles", "links",
                      "mentions", "workEntities", "events", "credits", "items"}
       /\ None \notin entities
       /\ s.canonical \in [links -> entities \ links] /\ links \subseteq entities
       /\ \A e \in links : s.kinds[s.canonical[e]] = s.kinds[e]
       /\ s.records \subseteq [id : Fields(s.records, "id"), entity : entities \union {None}, run : s.runs]
       /\ \A c \in s.claims :
            /\ c.subject \in entities /\ c.object \in entities \union {None}
            /\ c.record # None => \E r \in s.records : r.id = c.record /\ r.entity = c.subject
       /\ s.works \in [works -> entities \union {None}]
       /\ s.titles \subseteq works /\ s.links \subseteq works \X works
       /\ s.mentions \in [DOMAIN s.mentions ->
            [composer : entities \union {None}, work : works \union {None},
             title : Fields(Range(s.mentions), "title"), run : s.runs]]
       /\ s.workEntities \subseteq [work : works, entity : entities, source : Fields(s.workEntities, "source")]
       /\ s.events \in [DOMAIN s.events -> {"concert", "recording"}]
       /\ s.credits \subseteq [event : DOMAIN s.events, entity : entities \union {None}, role : Fields(s.credits, "role")]
       /\ s.items \subseteq [event : DOMAIN s.events, mention : DOMAIN s.mentions]

\* Every reference is to a row that is there.  Postgres refuses others and SQLite keeps them.
RefersToRows(g) ==
    LET entities == DOMAIN g.kinds \union {None}
        works == DOMAIN g.works \union {None}
    IN /\ \A r \in g.records : r.entity \in entities /\ r.run \in g.runs
       /\ \A p \in g.claims :
            /\ {p.subject, p.object} \subseteq entities
            /\ p.record \in {r.id : r \in g.records} \union {None}
       /\ Range(g.works) \subseteq entities
       /\ g.titles \union UNION {{l[1], l[2]} : l \in g.links} \subseteq works
       /\ \A m \in Range(g.mentions) : m.composer \in entities /\ m.work \in works /\ m.run \in g.runs
       /\ \A l \in g.workEntities : l.entity \in entities /\ l.work \in works
       /\ \A c \in g.credits : c.entity \in entities
       /\ \A i \in g.items : i.mention \in DOMAIN g.mentions

EmptyGold ==
    [kinds |-> NoRows, claims |-> {}, records |-> {}, runs |-> {}, works |-> NoRows, titles |-> {}, links |-> {},
     mentions |-> NoRows, workEntities |-> {}, events |-> NoRows, credits |-> {}, items |-> {},
     programmes |-> NoRows, connections |-> NoRows,
     made |-> 0]
=============================================================================
