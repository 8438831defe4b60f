---------------------------- MODULE GraphExport ----------------------------
(***************************************************************************)
(* export-neo4j and export-kumu (apps/cli export_cmds.py, composer_graph's *)
(* load.py and connections.py) while promotes publish one gold after the   *)
(* other.  An export empties the graph, fills it step by step, asks it for *)
(* each entity's neighbours, and stores the answers in gold.  Nothing      *)
(* keeps two exports, or an export and a promote, apart.                   *)
(***************************************************************************)
EXTENDS GoldPromote, GoldExports

CONSTANTS
    Exporters,      \* commands that export to Neo4j
    KumuConfigs

VARIABLES
    graph,          \* what Neo4j holds
    at,             \* the step each exporter is at
    held,           \* the gold file an exporter has open: SQLite only
    alone,          \* history: no other export and no publish came since it began
    kumu            \* the blueprint: its step, its edges, its elements

exporting == <<graph, at, held, alone, kumu>>
allVars == <<vars, exporting>>
unspent == <<backend, silver, history, edit, promote>>

NoBlueprint == [step |-> "idle", config |-> None, wanted |-> {}, pairs |-> {}, elements |-> {}, alone |-> FALSE]

ExportInit ==
    /\ Init
    /\ graph = EmptyGraph
    /\ at = [x \in Exporters |-> "idle"]
    /\ held = [x \in Exporters |-> EmptyGold]
    /\ alone = [x \in Exporters |-> FALSE]
    /\ kumu = NoBlueprint

\* A SQLite file stays what it was when it was opened; names in a Postgres schema mean
\* the tables of the gold that is published when a statement runs.
GoldOf(x) == IF backend = "sqlite" THEN held[x] ELSE live

Moves(x, here, next) ==
    /\ at[x] = here
    /\ at' = [at EXCEPT ![x] = next]
    /\ alone' = [y \in Exporters |-> y = x /\ alone[x]]
    /\ UNCHANGED <<vars, kumu>>

\* Gold has to be there; the first statement of the load is the deletion of all nodes.
Reset(x) ==
    /\ at[x] = "idle" /\ live # EmptyGold
    /\ Spend
    /\ graph' = EmptyGraph
    /\ at' = [at EXCEPT ![x] = "entities"]
    /\ held' = [held EXCEPT ![x] = live]
    /\ alone' = [y \in Exporters |-> y = x /\ \A z \in Exporters \ {x} : at[z] = "idle"]
    /\ UNCHANGED <<unspent, kumu>>

\* snapshot-connections: the graph is the one some export left.
Again(x) ==
    /\ at[x] = "idle" /\ live # EmptyGold
    /\ Spend
    /\ at' = [at EXCEPT ![x] = "snapshot"]
    /\ held' = [held EXCEPT ![x] = live]
    /\ alone' = [y \in Exporters |-> FALSE]
    /\ UNCHANGED <<unspent, graph, kumu>>

\* Node ids are unique: a node that is there already fails the batch and the export.
CreateNodes(x, here, nodes, next) ==
    /\ Moves(x, here, IF DOMAIN nodes \intersect DOMAIN graph.nodes = {} THEN next ELSE "idle")
    /\ graph' = IF DOMAIN nodes \intersect DOMAIN graph.nodes = {} THEN [graph EXCEPT !.nodes = Insert(@, nodes)] ELSE graph
    /\ UNCHANGED held

\* Mutant: relationships are made before the nodes of events are.
WorksThenRelate(x) ==
    /\ CreateNodes(x, "works", [w \in DOMAIN GoldOf(x).works |-> "work"], "relate")

CreateEntities(x) == CreateNodes(x, "entities", Restrict(GoldOf(x).kinds, EntityNodes(GoldOf(x))), "works")
CreateWorks(x) == CreateNodes(x, "works", [w \in DOMAIN GoldOf(x).works |-> "work"], "events")
CreateEvents(x) == CreateNodes(x, "events", GoldOf(x).events, "relate")

\* A relationship is made when both its ends are matched, and left out without a word when not.
Matched(rows) ==
    [r \in {r \in BagToSet(rows) : {r.from, r.to} \subseteq DOMAIN graph.nodes} |-> rows[r]]
Relate(x, here, rows, next) ==
    /\ Moves(x, here, next)
    /\ graph' = [graph EXCEPT !.rels = @ (+) Matched(rows)]
    /\ UNCHANGED held

RelateWorks(x) ==
    Relate(x, "relate", ComposedByRows(GoldOf(x)) (+) WorkLinkRows(GoldOf(x)), "perform")
RelateEvents(x) ==
    Relate(x, "perform", PerformedInRows(GoldOf(x)) (+) ProgrammedRows(GoldOf(x)), "claim")
RelateClaims(x) == Relate(x, "claim", ClaimRows(GoldOf(x)), "annotate")

Annotate(x) ==
    /\ Moves(x, "annotate", "snapshot")
    /\ graph' = [graph EXCEPT !.reach = [e \in EntitiesIn(graph) |-> Reach(graph, e)]]
    /\ UNCHANGED held

\* One transaction of gold: Postgres refuses a snapshot of an entity it does not have, and
\* what is stored in a SQLite file that was replaced is gone with it.
Snapshots == [f \in {f \in EntitiesIn(graph) : SnapshotOf(graph, f) # {}} |-> SnapshotOf(graph, f)]
Snapshot(x) ==
    /\ at[x] = "snapshot"
    /\ at' = [at EXCEPT ![x] = "idle"]
    /\ LET stored == IF backend = "sqlite" THEN held[x].made = live.made
                     ELSE DOMAIN Snapshots \subseteq DOMAIN live.kinds
       IN live' = IF stored THEN [live EXCEPT !.connections = Snapshots] ELSE live
    /\ held' = [held EXCEPT ![x] = EmptyGold]
    /\ alone' = [y \in Exporters |-> y = x /\ alone[x]]
    /\ UNCHANGED <<backend, silver, spent, history, edit, phase, build, gold, status, graph, kumu>>

\* Any step of an export may raise, or the command be killed.
Stop(x) ==
    /\ at[x] \notin {"idle", "snapshot"}
    /\ at' = [at EXCEPT ![x] = "idle"]
    /\ held' = [held EXCEPT ![x] = EmptyGold]
    /\ alone' = [y \in Exporters |-> FALSE]
    /\ UNCHANGED <<vars, graph, kumu>>

----------------------------------------------------------------------------
\* The blueprint takes its edges from one gold, and its elements by another statement.
KumuEdges ==
    /\ kumu.step = "idle" /\ live # EmptyGold
    /\ Spend
    /\ \E config \in KumuConfigs :
        \E edges \in {BlueprintEdges(live, config)} :
            kumu' = [step |-> "edges", config |-> config, wanted |-> edges.wanted, pairs |-> edges.pairs,
                     elements |-> {}, alone |-> TRUE]
    /\ UNCHANGED <<unspent, graph, at, held, alone>>

KumuElements ==
    /\ kumu.step = "edges"
    /\ kumu' = [kumu EXCEPT !.step = "written", !.elements = Elements(live, kumu)]
    /\ UNCHANGED <<vars, graph, at, held, alone>>

Export ==
    \/ \E x \in Exporters :
        \/ Reset(x) \/ Again(x) \/ CreateEntities(x) \/ CreateWorks(x) \/ CreateEvents(x) \/ RelateWorks(x)
        \/ RelateEvents(x) \/ RelateClaims(x) \/ Annotate(x) \/ Snapshot(x) \/ Stop(x)
    \/ KumuEdges \/ KumuElements

\* Publishing another gold disturbs the exports that are under way.
ExportNext ==
    \/ Export
    \/ /\ Next
       /\ IF live' # live
          THEN alone' = [x \in Exporters |-> FALSE] /\ kumu' = [kumu EXCEPT !.alone = FALSE]
          ELSE UNCHANGED <<alone, kumu>>
       /\ UNCHANGED <<graph, at, held>>

ExportSpec == ExportInit /\ [][ExportNext]_allVars

----------------------------------------------------------------------------
\* What an export that ran alone leaves in Neo4j: each row of gold once, and the relationships
\* of its facts, each once and with what gold says of it, for all that have both sides there.
Nodes(g) == EntityNodes(g) \union DOMAIN g.works \union DOMAIN g.events
Told(g, r) ==
    CASE r.type = "composed_by" -> r.to \in EntityNodes(g) /\ g.works[r.from] = r.to
      [] r.type = "derived_from" -> \E l \in g.links : <<l[1], l[2]>> = <<r.from, r.to>>
      [] r.type = "performed_in" -> \E c \in g.credits : <<c.entity, c.event, c.role>> = <<r.from, r.to, r.role>>
      [] r.type = "programmed" -> r.times = Cardinality(ItemsOf(g, r.from, r.to))
      [] OTHER -> \E p \in g.claims : <<p.subject, p.predicate, p.object>> = <<r.from, r.type, r.to>>

RelTypes == {"composed_by", "derived_from", "performed_in", "programmed"} \union ClaimTypes
Joined(rels, type, from, to) == \E r \in rels : <<r.type, r.from, r.to>> = <<type, from, to>>
Heard(g, type, rels) ==
    CASE type = "composed_by" -> \A w \in DOMAIN g.works : g.works[w] \in EntityNodes(g) => Joined(rels, type, w, g.works[w])
      [] type = "derived_from" -> \A l \in g.links : {l[1], l[2]} \subseteq Nodes(g) => Joined(rels, type, l[1], l[2])
      [] type = "performed_in" -> \A c \in g.credits : c.entity \in EntityNodes(g) /\ c.event \in DOMAIN g.events =>
            \E r \in rels : <<r.type, r.from, r.to, r.role>> = <<type, c.entity, c.event, c.role>>
      [] type = "programmed" -> \A i \in g.items : \A work \in DOMAIN g.works \ {None} :
            i.event \in DOMAIN g.events /\ i \in ItemsOf(g, i.event, work) => Joined(rels, type, i.event, work)
      [] OTHER -> \A p \in g.claims : p.predicate = type /\ p.object # None /\ {p.subject, p.object} \subseteq EntityNodes(g) =>
            Joined(rels, type, p.subject, p.object)

Says(g, types) ==
    /\ \A r \in BagToSet(graph.rels) : r.type \in types /\ Copies(graph, r) = 1 /\ Told(g, r)
    /\ \A type \in types : Heard(g, type, BagToSet(graph.rels))
GraphIsTheGold ==
    \A x \in Exporters : alone[x] /\ at[x] = "snapshot" => DOMAIN graph.nodes = Nodes(live) /\ Says(live, RelTypes)

\* The inductive invariant behind it: how far an export has come that runs alone.
Steps == {"idle", "entities", "works", "events", "relate", "perform", "claim", "annotate", "snapshot"}
NodesAt(g, step) ==
    CASE step = "entities" -> {}
      [] step = "works" -> EntityNodes(g)
      [] step = "events" -> EntityNodes(g) \union DOMAIN g.works
      [] OTHER -> Nodes(g)
TypesAt(step) ==
    CASE step = "perform" -> {"composed_by", "derived_from"}
      [] step = "claim" -> {"composed_by", "derived_from", "performed_in", "programmed"}
      [] step \in {"annotate", "snapshot"} -> RelTypes
      [] OTHER -> {}
ExportInv ==
    /\ DOMAIN graph = DOMAIN EmptyGraph
    /\ at \in [Exporters -> Steps]
    /\ DOMAIN held = Exporters /\ held = [x \in Exporters |-> held[x]]
    /\ \A x \in Exporters : alone[x] /\ at[x] # "idle" =>
        held[x] = live /\ DOMAIN graph.nodes = NodesAt(live, at[x]) /\ Says(live, TypesAt(at[x]))

\* Where sources disagree, the value gold's readers take is one that the most sources back: a
\* source that says it of two spellings is one source.
Backers(e, predicate, v) == {p.source : p \in Stating(live, e, predicate, v)}
LiteralsBySources(e) ==
    \A predicate \in {p.predicate : p \in {p \in live.claims : p.subject = e /\ p.object = None /\ p.value # None}} :
        \E first \in {Head(LiteralValues(live, e, predicate))} :
            \A v \in Values(live, e, predicate) :
                Cardinality(Backers(e, predicate, v)) <= Cardinality(Backers(e, predicate, first))

\* Of ensembles, whose spellings' claims are not deduplicated (contradicted: see README).
EnsemblesBySources == Published => \A e \in DOMAIN live.kinds : live.kinds[e] = "ensemble" => LiteralsBySources(e)

\* What gold stores about connections speaks of entities it has (contradicted: see README).
ConnectionsAreOfGold ==
    \A f \in DOMAIN live.connections :
        {f} \union {d.to : d \in live.connections[f]} \subseteq DOMAIN live.kinds
=============================================================================
