---------------------------- MODULE GoldExports ----------------------------
(***************************************************************************)
(* What is read out of gold: the shared queries (composer_gold/queries.py),*)
(* the Kumu blueprint (kumu.py), the rows of the property graph            *)
(* (composer_graph/rows.py), and each entity's strongest neighbours as     *)
(* Cypher finds them in that graph (connections.py).                       *)
(*                                                                         *)
(* A graph is [nodes, rels, reach]: the kinds of the nodes, and a bag of   *)
(* relationships, whose times is the number a PROGRAMMED carries and whose *)
(* sources is how many sources assert a claim.                             *)
(***************************************************************************)
EXTENDS GoldCuration, Bags, SequencesExt

CONSTANTS
    PoolSize,       \* POOL_SIZE
    Log,            \* log(2 + n), as numbers that compare like it
    InverseRoot     \* 1 / sqrt(n), likewise

\* ENTITY_LABELS and CLAIM_TYPES.
Labelled == {"person", "ensemble", "place", "genre", "movement", "profession", "period"}
ClaimTypes ==
    {"born_in", "died_in", "citizen_of", "has_genre", "in_movement", "has_profession", "associated_period",
     "subclass_of", "student_of", "teacher_of", "influenced_by", "child_of", "parent_of", "spouse_of", "sibling_of",
     "based_in", "part_of"}
Total(f(_), S) == MapThenSumSet(f, S)

----------------------------------------------------------------------------
(* queries.py *)

ObjectClaims(g) == {<<p.subject, p.predicate, p.object>> : p \in {p \in g.claims : p.object # None}}
SourcesOf(g, t) ==
    {p.source : p \in {p \in g.claims : p.subject = t[1] /\ p.predicate = t[2] /\ p.object = t[3]}}

\* The values of a literal, those of the most rows first.
Stating(g, e, predicate, v) ==
    {p \in g.claims : p.subject = e /\ p.predicate = predicate /\ p.object = None /\ p.value = v}
Values(g, e, predicate) ==
    {p.value : p \in {p \in g.claims : p.subject = e /\ p.predicate = predicate /\ p.object = None}} \ {None}
LiteralValues(g, e, predicate) ==
    SetToSortSeq(Values(g, e, predicate),
        LAMBDA v, w : LET n == Cardinality(Stating(g, e, predicate, v))
                          m == Cardinality(Stating(g, e, predicate, w))
                      IN n > m \/ (n = m /\ v < w))

----------------------------------------------------------------------------
(* kumu.py *)

Credits(g, e) == {c \in g.credits : c.entity = e}
Performers(g) == {c.entity : c \in g.credits} \ {None}

\* Sorted by credits and then id, and cut; no limit is 0.
TopPerformers(g, limit) ==
    {e \in Performers(g) :
        \/ limit = 0
        \/ Cardinality({d \in Performers(g) :
            LET n == Cardinality(Credits(g, d))
                m == Cardinality(Credits(g, e))
            IN n > m \/ (n = m /\ d < e)}) < limit}

ComposerOf(g, mention) ==
    IF mention \in DOMAIN g.mentions /\ g.mentions[mention].work \in DOMAIN g.works
       /\ g.works[g.mentions[mention].work] \in DOMAIN g.kinds
    THEN g.works[g.mentions[mention].work] ELSE None

\* Pairs of a credit and a work of its event, by the work's composer.
Performances(g, performer, composer) ==
    Cardinality({p \in Credits(g, performer) \X g.items :
        p[1].event = p[2].event /\ ComposerOf(g, p[2].mention) = composer})
PerformanceEdges(g, config) ==
    {p \in TopPerformers(g, config.limit) \X ({ComposerOf(g, i.mention) : i \in g.items} \ {None}) :
        Performances(g, p[1], p[2]) >= Max({1, config.weight})}

Core(g, config, edges) == TopPerformers(g, config.limit) \union {d[2] : d \in edges}
ClaimEdges(g, core) == {t \in ObjectClaims(g) : t[1] \in core}

BlueprintEdges(g, config) ==
    LET performed == IF config.performances THEN PerformanceEdges(g, config) ELSE {}
        claimed == IF config.claims THEN ClaimEdges(g, Core(g, config, performed)) ELSE {}
    IN [wanted |-> Core(g, config, performed) \union {t[3] : t \in claimed},
        pairs |-> performed \union {<<t[1], t[3]>> : t \in claimed}]

Elements(g, blueprint) ==
    {e \in blueprint.wanted \intersect DOMAIN g.kinds : \E d \in blueprint.pairs : e \in {d[1], d[2]}}

----------------------------------------------------------------------------
(* rows.py *)

EntityNodes(g) == {e \in DOMAIN g.kinds : g.kinds[e] \in Labelled}

Rel(type, from, to) == [type |-> type, from |-> from, to |-> to, times |-> 1, sources |-> 0, role |-> None]

ComposedByRows(g) ==
    SetToBag({Rel("composed_by", w, g.works[w]) : w \in {w \in DOMAIN g.works : g.works[w] \in EntityNodes(g)}})
WorkLinkRows(g) == SetToBag({Rel("derived_from", l[1], l[2]) : l \in g.links})

\* One for each credit: a role each.
PerformedInRows(g) ==
    SetToBag({[Rel("performed_in", c.entity, c.event) EXCEPT !.role = c.role] :
        c \in {c \in g.credits : c.entity \in EntityNodes(g)}})

ItemsOf(g, event, work) ==
    {i \in g.items : i.event = event /\ i.mention \in DOMAIN g.mentions /\ g.mentions[i.mention].work = work}
ProgrammedRows(g) ==
    SetToBag({[Rel("programmed", p[1], p[2]) EXCEPT !.times = Cardinality(ItemsOf(g, p[1], p[2]))] :
        p \in {p \in {i.event : i \in g.items} \X ({m.work : m \in Range(g.mentions)} \ {None}) :
            ItemsOf(g, p[1], p[2]) # {}}})

ClaimRows(g) ==
    SetToBag({[Rel(t[2], t[1], t[3]) EXCEPT !.sources = Cardinality(SourcesOf(g, t))] :
        t \in {t \in ObjectClaims(g) : t[2] \in ClaimTypes /\ {t[1], t[3]} \subseteq EntityNodes(g)}})

----------------------------------------------------------------------------
(* The graph, and connections.py *)

EmptyGraph == [nodes |-> NoRows, rels |-> EmptyBag, reach |-> NoRows]

Rels(graph, type) == {r \in BagToSet(graph.rels) : r.type = type}
Copies(graph, r) == IF BagIn(r, graph.rels) THEN graph.rels[r] ELSE 0

EventsOf(graph, e) == {r.to : r \in {r \in Rels(graph, "performed_in") : r.from = e}}
WorksOf(graph, e) == {r.from : r \in {r \in Rels(graph, "composed_by") : r.to = e}}
PlayedAt(graph, events, works) == {r \in Rels(graph, "programmed") : r.from \in events /\ r.to \in works}
Times(graph, rels) == Total(LAMBDA r : r.times * Copies(graph, r), rels)
ClaimsAbout(graph, e) == {r \in BagToSet(graph.rels) : r.type \in ClaimTypes /\ e \in {r.from, r.to}}
Other(r, e) == IF r.from = e THEN r.to ELSE r.from

\* _annotate_reach: four counts on each node, has_profession left out of the last.
Reach(graph, e) ==
    [played |-> Times(graph, PlayedAt(graph, {r.from : r \in Rels(graph, "programmed")}, WorksOf(graph, e))),
     performances |-> Times(graph, PlayedAt(graph, EventsOf(graph, e), {r.to : r \in Rels(graph, "programmed")})),
     appearances |-> Cardinality(EventsOf(graph, e)),
     claims |-> Cardinality({Other(r, e) : r \in {r \in ClaimsAbout(graph, e) : r.type # "has_profession"}})]

EntitiesIn(graph) == {e \in DOMAIN graph.nodes : graph.nodes[e] \in Labelled}
Reached(graph, n) ==
    IF n \in DOMAIN graph.reach THEN graph.reach[n]
    ELSE [played |-> 0, performances |-> 0, appearances |-> 0, claims |-> 0]

Families == {"performed", "performed_by", "appeared_with"}

\* How strongly f is tied to n in a family, and the reach of n that discounts it.
Weight(graph, f, n, family) ==
    IF family = "performed" THEN Times(graph, PlayedAt(graph, EventsOf(graph, f), WorksOf(graph, n)))
    ELSE IF family = "performed_by" THEN Times(graph, PlayedAt(graph, EventsOf(graph, n), WorksOf(graph, f)))
    ELSE Cardinality(EventsOf(graph, f) \intersect EventsOf(graph, n))
Discount(reach, family) ==
    InverseRoot[Max({1, IF family = "performed" THEN reach.played
                        ELSE IF family = "performed_by" THEN reach.performances ELSE reach.appearances})]

Edge(family, n, weight, factor, relations) ==
    [family |-> family, to |-> n, weight |-> weight, affinity |-> weight * factor, relations |-> relations]

FamilyEdges(graph, f, family) ==
    {Edge(family, n, Weight(graph, f, n, family), Discount(Reached(graph, n), family), {family}) :
        n \in {n \in EntitiesIn(graph) \ {f} : Weight(graph, f, n, family) >= 1}}

\* People and ensembles are raised by how widely they are played, other things lowered
\* by how many entities they are linked to.
ClaimFactor(graph, reach, n) ==
    IF graph.nodes[n] \in {"person", "ensemble"} THEN Log[reach.played + reach.appearances]
    ELSE InverseRoot[Max({1, reach.claims})]
ClaimsBetween(graph, f, n) == {r \in ClaimsAbout(graph, f) : Other(r, f) = n /\ r.type # "has_profession"}
Asserted(graph, f, n) == Total(LAMBDA r : r.sources * Copies(graph, r), ClaimsBetween(graph, f, n))
ConnectedByClaims(graph, f) ==
    {Edge("claims", n, Asserted(graph, f, n), ClaimFactor(graph, Reached(graph, n), n),
          {r.type : r \in ClaimsBetween(graph, f, n)}) :
        n \in {n \in EntitiesIn(graph) \ {f} : ClaimsBetween(graph, f, n) # {}}}

\* Best first under a ranking, ties by weight and id.
Before(p, q, ranking) ==
    LET score(d) == IF ranking = "affinity" THEN d.affinity ELSE d.weight IN
    \/ score(p) > score(q)
    \/ score(p) = score(q) /\ (p.weight > q.weight \/ (p.weight = q.weight /\ p.to < q.to))
Best(edges, ranking) == {q \in edges : Cardinality({p \in edges : Before(p, q, ranking)}) < PoolSize}

Pool(edges) == Best(edges, "affinity") \union Best(edges, "weight")

\* Claims are pooled for each predicate, and an edge of several is one edge.
SnapshotOf(graph, f) ==
    LET claims == ConnectedByClaims(graph, f)
        having(predicate) == {d \in claims : predicate \in d.relations}
    IN UNION {Pool(FamilyEdges(graph, f, family)) : family \in Families}
       \union UNION {Pool(having(predicate)) : predicate \in UNION {d.relations : d \in claims}}
=============================================================================
