-------------------------- MODULE WikidataSources --------------------------
(***************************************************************************)
(* The seven Wikidata sources. Each asks a SPARQL endpoint for a list of   *)
(* ids, fresh every time, and then for the items in batches of PageSize,   *)
(* mirrored under the query itself, that is under the ids it names: a      *)
(* batch whose ids changed is another query. An item is a number, and a    *)
(* label is Nothing where the endpoint only had the item's number. Answers *)
(* come as rows that are folded into one record of sets per item; an       *)
(* answer is modelled as that function from items to records.              *)
(***************************************************************************)
EXTENDS Crawl

CONSTANTS
  PageSize,       \* PAGE_SIZE
  MaxRounds,      \* MAX_ROUNDS of places, MAX_DEPTH of genres
  Floors,         \* MIN_IDS: what each slice of the ensembles must at least have
  NameAttempts,   \* NAME_QUERY_ATTEMPTS
  PlaceTypes,     \* PLACE_TYPES, in order of precedence
  TypePriority,   \* TYPE_PRIORITY
  TypeFromName,   \* name -> the ensemble type it tells, for those that do
  CategoryFor,    \* instrument label -> its category
  Expand,         \* category -> the names parse_instrumentation reads it as
  MembersOf,      \* category -> the instruments an ensemble of it includes
  Ensembles,      \* the categories that are ensembles
  Sections,       \* the categories that are sections
  MaxForces       \* MAX_FORCES

Numeric(ids) == SortSeq(InSomeOrder(ids), <)

(* qids[i : i + PAGE_SIZE] for every i.                                    *)
Batches(ids) ==
  [n \in 1 .. (Len(ids) + PageSize - 1) \div PageSize |->
     SubSeq(ids, (n - 1) * PageSize + 1, Min({n * PageSize, Len(ids)}))]

(* What the endpoint answers a query about some items: those it knows.     *)
Answer(net, name, ids) ==
  LET known == net.pages[<<name>>]
  IN  [q \in ToSet(ids) \intersect DOMAIN known |-> known[q]]

WikiQuery(net, c, name, ids, Valid(_), Use(_, _)) ==
  MirroredPage([net EXCEPT !.pages = [u \in { <<name>> \o ids } |-> Answer(net, name, ids)]],
               c, <<name>> \o ids, Valid, Use)

(* A page must cover every item asked for: it is mirrored only then, and   *)
(* ends the crawl otherwise.                                               *)
CoveredPage(net, c, name, ids, Use(_, _)) ==
  WikiQuery(net, c, name, ids, LAMBDA rows : DOMAIN rows = ToSet(ids), LAMBDA b, rows :
    IF DOMAIN rows = ToSet(ids) THEN Use(b, rows) ELSE Raise(b))

Facts(rows, q) == IF q \in DOMAIN rows THEN rows[q] ELSE {}

(* The loop the sources share: every batch of a list that is not empty.    *)
EachBatch(net, c, ids, max, Do(_, _)) ==
  IF ids = {} THEN Raise(c)
  ELSE LET batches == Batches(Numeric(ids))
       IN  Each(c, SubSeq(batches, 1, Min({max, Len(batches)})), Do)

(* The documents of an answer, in its order.                               *)
PerItem(rows, Of(_)) == Flat(Of, Numeric(DOMAIN rows))

(* _format_time: a date is <<y, m, d>> with a precision.                   *)
FormatTime(date) ==
  SubSeq(date.day, 1, IF date.precision >= 11 THEN 3 ELSE IF date.precision = 10 THEN 2 ELSE 1)

-----------------------------------------------------------------------------
(* wikidata: composers. A fact is [predicate, value, item]; a relation to  *)
(* or a property with an object of no label is passed over. Several values *)
(* of a predicate are all claimed.                                         *)

ComposerClaims(q, base, multi, relations, metrics) ==
  Composing
    \union {<<f.predicate, f.value, f.item>> :
              f \in {f \in base[q].facts \union Facts(multi, q) \union Facts(relations, q) : f.value # Nothing}}
    \union {<<p, FormatTime(base[q].dates[p])>> : p \in DOMAIN base[q].dates}
    \union Facts(metrics, q)

ComposerDocuments(base, multi, relations, metrics) ==
  PerItem(base, LAMBDA q :
    IF base[q].label = Nothing THEN <<>>
    ELSE << Person(q, base[q].label, ComposerClaims(q, base, multi, relations, metrics), q) >>)

ReadComposers(net, c, ids) ==
  CoveredPage(net, c, "composers", ids, LAMBDA b, base :
    WikiQuery(net, b, "multi", ids, Always, LAMBDA d, multi :
      WikiQuery(net, d, "relations", ids, Always, LAMBDA e, relations :
        WikiQuery(net, e, "metrics", ids, Always, LAMBDA f, metrics :
          Emit(f, ComposerDocuments(base, multi, relations, metrics))))))

WikidataScrape(net, c, max) ==
  Page(net, c, <<"composer ids">>, LAMBDA a, ids :
    EachBatch(net, a, ids, max, LAMBDA b, batch : ReadComposers(net, b, batch)))

-----------------------------------------------------------------------------
(* wikidata_works, wikidata_catalogue and wikidata_instrumentation: works  *)
(* with their composers (item -> label); a mention per work and composer.  *)

NamedComposers(work) == {q \in DOMAIN work.composers : work.composers[q] # Nothing}

WorkMentions(q, work, told) ==
  LET composers == Numeric(NamedComposers(work))
  IN  [n \in DOMAIN composers |->
         MentionOf(<<q, composers[n]>>, work.label, work.composers[composers[n]], told, q)]

(* supersedes: the earlier date, or the more precise of two that agree.    *)
Supersedes(new, best) ==
  LET shared == Min({Len(new), Len(best)})
      at == {n \in 1 .. shared : new[n] # best[n]}
  IN  IF at = {} THEN Len(new) > Len(best) ELSE new[Min(at)] < best[Min(at)]

Earliest(dates) == CHOOSE d \in dates : \A e \in dates \ {d} : ~Supersedes(e, d)

PremiereDocuments(rows) ==
  PerItem(rows, LAMBDA q :
    IF rows[q].label = Nothing \/ rows[q].dates = {} THEN <<>>
    ELSE WorkMentions(q, rows[q], {<<"premiere", Earliest({FormatTime(d) : d \in rows[q].dates}), rows[q].places>>}))

(* A code counts once per catalogue, under the least of its short names.   *)
Codes(work) ==
  {<<"code", k.code, k.catalogue,
     LET shorts == {j.short : j \in {j \in work.codes : <<j.code, j.catalogue>> = <<k.code, k.catalogue>>}} \ {Nothing}
     IN  IF shorts = {} THEN Nothing ELSE Min(shorts)>> : k \in work.codes}

CatalogueDocuments(rows) ==
  PerItem(rows, LAMBDA q :
    IF rows[q].label = Nothing THEN <<>>
    ELSE WorkMentions(q, rows[q], Codes(rows[q]) \union Claims("part_of", rows[q].parts)))

(* scoring: a part is [label, count, solo]; a list of parts, told by a     *)
(* count, a section or many forces, is not what the work is written for.   *)
Category(part) == IF part.label \in DOMAIN CategoryFor THEN CategoryFor[part.label] ELSE Nothing
Matched(parts) == {p \in parts : Category(p) # Nothing}

IsPartsList(parts) ==
  \/ \E p \in parts : p.count # Nothing \/ Category(p) \in Sections
  \/ Cardinality({Category(p) : p \in {p \in parts : ~p.solo}} \ Ensembles) > MaxForces

Forces(parts) ==
  {Category(p) : p \in {p \in parts : Category(p) \in Ensembles \/ p.solo \/ ~IsPartsList(parts)}}

WrittenFor(parts) ==
  UNION {IF k \in DOMAIN Expand THEN Expand[k] ELSE {k} : k \in Forces(Matched(parts))}

Includes(parts) ==
  LET categories == {Category(p) : p \in Matched(parts)}
  IN  (categories \ Ensembles)
        \union UNION {MembersOf[k] : k \in categories \intersect Ensembles \intersect DOMAIN MembersOf}

InstrumentationDocuments(rows) ==
  PerItem(rows, LAMBDA q :
    IF rows[q].label = Nothing \/ NamedComposers(rows[q]) = {} \/ rows[q].parts = {} THEN <<>>
    ELSE Append(WorkMentions(q, rows[q], {}),
                Entity("work", q, rows[q].label,
                       {<<"composed_by", rows[q].composers[k], k>> : k \in NamedComposers(rows[q])}
                         \union Claims("written_for", WrittenFor(rows[q].parts))
                         \union Claims("includes_instrument", Includes(rows[q].parts)), q)))

WorkSourceScrape(net, c, max, list, name, Of(_)) ==
  Page(net, c, <<list>>, LAMBDA a, ids :
    EachBatch(net, a, ids, max, LAMBDA b, batch :
      CoveredPage(net, b, name, batch, LAMBDA d, rows : Emit(d, Of(rows)))))

WikidataWorksScrape(net, c, max) ==
  WorkSourceScrape(net, c, max, "work ids", "premieres", PremiereDocuments)
WikidataCatalogueScrape(net, c, max) ==
  WorkSourceScrape(net, c, max, "catalogued ids", "codes", CatalogueDocuments)
WikidataInstrumentationScrape(net, c, max) ==
  WorkSourceScrape(net, c, max, "scored ids", "parts", InstrumentationDocuments)

-----------------------------------------------------------------------------
(* wikidata_places: the places composers have to do with, then round by    *)
(* round what those lie in. above holds <<predicate, label>> per item.     *)

PlaceClaims(q, place, types) ==
  (IF types = {} THEN {}
   ELSE {<<"place_type", FirstOf(PlaceTypes, LAMBDA t : t \in types)>>})
    \union {<<k.predicate, k.label, k.item>> : k \in {k \in place.above : k.label # Nothing /\ k.item # q}}
    \union place.facts

PlaceDocuments(rows, types) ==
  PerItem(rows, LAMBDA q :
    IF rows[q].label = Nothing THEN <<>>
    ELSE << Entity("place", q, rows[q].label, PlaceClaims(q, rows[q], Facts(types, q)), q) >>)

ParentsIn(rows) ==
  UNION {{k.item : k \in {k \in rows[q].above : k.label # Nothing}} :
           q \in {q \in DOMAIN rows : rows[q].label # Nothing}}

ReadPlaces(net, c, ids, max) ==
  IF c.read >= max THEN Return(c)
  ELSE CoveredPage(net, Count(c), "places", ids, LAMBDA b, rows :
         WikiQuery(net, b, "place types", ids, Always, LAMBDA d, types :
           [Emit(d, PlaceDocuments(rows, types)) EXCEPT !.notes = @ \union ParentsIn(rows)]))

(* notes collects the parents of a round; what was asked for is seen.      *)
PlaceRound(net, c, max) ==
  LET pending == c.notes \ c.seen
  IN  IF pending = {} THEN Return(c)
      ELSE Each([c EXCEPT !.notes = {}, !.seen = @ \union pending], Batches(Numeric(pending)),
                LAMBDA b, batch : ReadPlaces(net, b, batch, max))

WikidataPlacesScrape(net, c, max) ==
  Page(net, c, <<"place ids">>, LAMBDA a, ids :
    IF ids = {} THEN Raise(a)
    ELSE Each([a EXCEPT !.notes = ids], [n \in 1 .. MaxRounds |-> n],
              LAMBDA b, n : PlaceRound(net, b, max)))

-----------------------------------------------------------------------------
(* wikidata_ensembles: three lists make the population, and each must have *)
(* its floor; the search by name is repeated while it comes back short.    *)

Slice(net, c, name, Use(_, _)) ==
  Page(net, c, <<"ensembles by", name>>, LAMBDA b, ids :
    IF Cardinality(ids) < Floors[name] THEN Raise(b) ELSE Use(b, ids))

(* The name search answers [hits, foreign, short]: what it found, what of  *)
(* it has another genre, and how many attempts come back short.            *)
NameSlice(net, c, Use(_, _)) ==
  LET tried == Each(c, [n \in 1 .. NameAttempts |-> n], LAMBDA b, n :
                 Page(net, b, <<"ensembles by", "name">>, LAMBDA d, found :
                   IF n <= found.short THEN Note(d, <<n>>) ELSE Break(d)))
      found == net.pages[<<"ensembles by", "name">>]
  IN  IF ~Going(tried) THEN tried
      ELSE IF Len(tried.notes) = NameAttempts \/ Cardinality(found.hits) < Floors["name"] THEN Raise(tried)
      ELSE Use(tried, found.hits \ found.foreign)

(* The label, or the first language that has one, in the order of          *)
(* NAME_LANGUAGES.                                                         *)
DisplayLabel(item) ==
  IF item.label # Nothing THEN item.label ELSE IF item.labels = <<>> THEN Nothing ELSE item.labels[1]

EnsembleType(item) ==
  LET Told(name) == IF name \in DOMAIN TypeFromName THEN TypeFromName[name] ELSE Nothing
      told == {Told(name) : name \in item.names}
      first == FirstOf(TypePriority, LAMBDA t : t \in item.classes)
      named == FirstOf(Append(TypePriority, "band"), LAMBDA t : t \in told)
  IN  IF first # Nothing THEN first
      ELSE IF Told(DisplayLabel(item)) # Nothing THEN Told(DisplayLabel(item))
      ELSE IF named # Nothing THEN named ELSE "other"

(* Headquarters are [city, label]: a settlement, or the one it lies in;    *)
(* the oldest item wins. part_of only leads to ensembles of the list.      *)
BasedIn(item) ==
  LET cities == {h \in item.seats : h.label # Nothing}
      oldest == Min({h.city : h \in cities})
  IN  IF cities = {} THEN {} ELSE {<<"based_in", oldest>>}

EnsembleDocuments(rows, multi, population) ==
  PerItem(rows, LAMBDA q :
    LET item == [label |-> rows[q].label, seats |-> rows[q].seats, labels |-> multi[q].labels,
                 names |-> multi[q].names, classes |-> multi[q].classes]
    IN  IF DisplayLabel(item) = Nothing THEN <<>>
        ELSE << Entity("ensemble", q, DisplayLabel(item),
                       {<<"ensemble_type", EnsembleType(item)>>} \union BasedIn(item)
                         \union Claims("also_known_as", item.names \ {DisplayLabel(item)})
                         \union Claims("part_of", multi[q].partOf \intersect population), q) >>)

WikidataEnsemblesScrape(net, c, max) ==
  Slice(net, c, "class", LAMBDA a, classed :
    Slice(net, a, "genre", LAMBDA b, genred :
      NameSlice(net, b, LAMBDA d, named :
        LET population == classed \union genred \union named
        IN  EachBatch(net, d, population, max, LAMBDA e, batch :
              CoveredPage(net, e, "ensembles", batch, LAMBDA f, rows :
                WikiQuery(net, f, "ensemble names", batch, Always, LAMBDA g, multi :
                  Emit(g, EnsembleDocuments(rows, multi, population))))))))

-----------------------------------------------------------------------------
(* wikidata_genres: from the genres (then the movements) composers have,   *)
(* up the subclasses. A node is [label, depth, classes, aliases, forms,    *)
(* parents, twins]; the walk lives in notes, [kept, visited, frontier], and *)
(* read counts the batches of both walks against max_pages.                *)

(* What a level keeps: every seed with a label, above them only what is of *)
(* the kind.                                                               *)
Kept(depth, rows) == {q \in DOMAIN rows : rows[q].label # Nothing /\ (depth = 0 \/ rows[q].classes # {})}

NodeOf(depth, row, parents) ==
  [label |-> row.label, depth |-> depth, classes |-> row.classes, aliases |-> row.aliases,
   forms |-> row.forms, parents |-> parents, twins |-> {}]

KeepRows(net, c, depth, rows, kept) ==
  IF kept = {} THEN c
  ELSE WikiQuery(net, c, "parents", Numeric(kept), Always, LAMBDA b, parents :
         [b EXCEPT !.notes.level =
            @ @@ [q \in kept |-> NodeOf(depth, rows[q], Facts(parents, q))]])

WalkBatch(net, c, kind, depth, ids) ==
  CoveredPage(net, c, kind, ids, LAMBDA b, rows : KeepRows(net, b, depth, rows, Kept(depth, rows)))

(* _level: the batches max_pages leaves, into notes.level.                 *)
WalkLevel(net, c, kind, depth, ids, max) ==
  Each([c EXCEPT !.notes.level = [q \in {} |-> Nothing]], Batches(Numeric(ids)), LAMBDA b, batch :
    IF b.read >= max THEN Break(b) ELSE WalkBatch(net, Count(b), kind, depth, batch))

KeepLevel(c) == [c EXCEPT !.notes.kept = c.notes.level @@ @]

(* A seed none of whose parents is of the kind; counterparts of its name   *)
(* stand in for them. known is what a level has fetched in addition.       *)
Stranded(kept) ==
  {q \in DOMAIN kept : kept[q].depth = 0 /\
     \A p \in (kept[q].parents \ {q}) \intersect DOMAIN kept : kept[p].classes = {}}

SameName(seed, other) == other \in {seed, Append(seed, "music")}

Twins(seed, q, twins, known) ==
  {t \in (Facts(twins, q) \ {q}) \intersect DOMAIN known :
     known[t].classes # {} /\ SameName(seed.label, known[t].label)}

WithTwins(node, own) == [node EXCEPT !.parents = @ \union own, !.twins = own]

Linked(kept, twins, known) ==
  [q \in DOMAIN kept |->
     IF q \in Stranded(kept) THEN WithTwins(kept[q], Twins(kept[q], q, twins, known)) ELSE kept[q]]

(* The counterparts' batches are not counted, the nodes they lead to are.  *)
CounterpartRows(net, c, ids) ==
  Each([c EXCEPT !.notes.twins = [q \in {} |-> {}]], Batches(Numeric(ids)), LAMBDA b, batch :
    WikiQuery(net, b, "counterparts", batch, Always, LAMBDA d, rows :
      [d EXCEPT !.notes.twins = rows @@ @]))

(* Of the nodes fetched for the counterparts, those that became one join   *)
(* the level.                                                              *)
Adopted(c, own, linked) ==
  LET new == {q \in DOMAIN c.notes.level : \E s \in DOMAIN linked : q \in linked[s].twins}
      nodes == [q \in new |-> c.notes.level[q]]
  IN  [c EXCEPT !.notes.level = nodes @@ own, !.notes.visited = @ \union new,
                !.notes.kept = linked @@ nodes]

Counterparts(net, c, kind, max) ==
  IF c.read >= max THEN c
  ELSE Then(CounterpartRows(net, c, Stranded(c.notes.kept)), LAMBDA asked :
         Then(WalkLevel(net, asked, kind, 1,
                        UNION {asked.notes.twins[q] : q \in DOMAIN asked.notes.twins} \ asked.notes.visited, max),
              LAMBDA found : Adopted(found, c.notes.level,
                                     Linked(found.notes.kept, found.notes.twins,
                                            found.notes.level @@ found.notes.kept))))

(* A level leads to the parents nobody has asked for yet.                  *)
ParentsOf(notes) == UNION {notes.kept[q].parents : q \in DOMAIN notes.level} \ notes.visited

NextFrontier(c, depth, above) ==
  IF above # {} /\ depth = MaxRounds THEN Break(c)
  ELSE [c EXCEPT !.notes.visited = @ \union above, !.notes.frontier = above]

WalkRound(net, c, kind, depth, max) ==
  IF c.notes.frontier = {} /\ depth # 1 THEN Break(c)
  ELSE Then(WalkLevel(net, c, kind, depth, c.notes.frontier, max), LAMBDA walked :
         Then(IF depth = 1 THEN Counterparts(net, KeepLevel(walked), kind, max) ELSE KeepLevel(walked),
              LAMBDA whole : NextFrontier(whole, depth, ParentsOf(whole.notes))))

(* The nodes with what of their parents was kept, lowest depth first.      *)
GenreDocuments(kind, kept) ==
  LET order == SortSeq(InSomeOrder(DOMAIN kept), LAMBDA p, q :
                 kept[p].depth < kept[q].depth \/ (kept[p].depth = kept[q].depth /\ p < q))
  IN  [n \in DOMAIN order |->
         LET node == kept[order[n]]
         IN  Entity(kind, <<kind, order[n]>>, node.label,
                    {<<"subclass_of", p>> : p \in node.parents \intersect DOMAIN kept}
                      \union Claims("also_known_as", node.aliases)
                      \union (IF node.forms = {} THEN {} ELSE {<<"genre_type", "musical form">>}),
                    order[n])]

(* _fetch_seeds: one query, or where it fails the composers' batches.      *)
SeedsByComposer(net, c, kind) ==
  Page(net, c, <<"composer ids">>, LAMBDA a, ids :
    Each([a EXCEPT !.notes = {}], Batches(Numeric(ids)), LAMBDA b, batch :
      Page([net EXCEPT !.pages = [u \in { <<"seeds of", kind>> \o batch } |->
                                    UNION {net.pages[<<"seeds of", kind>>][q] : q \in ToSet(batch)}]],
           b, <<"seeds of", kind>> \o batch,
           LAMBDA d, values : [d EXCEPT !.notes = @ \union values])))

Seeds(net, c, kind) ==
  IF <<"seeds", kind>> \in net.down
  THEN Then(Send(net, c, <<"seeds", kind>>), LAMBDA sent : SeedsByComposer(net, sent, kind))
  ELSE Page(net, c, <<"seeds", kind>>, LAMBDA a, values : [a EXCEPT !.notes = values])

StartWalk(c) ==
  [c EXCEPT !.notes = [kept |-> [q \in {} |-> Nothing], visited |-> c.notes, frontier |-> c.notes,
                       level |-> [q \in {} |-> Nothing], twins |-> [q \in {} |-> {}]]]

WalkKind(net, c, kind, max) ==
  Then(Seeds(net, c, kind), LAMBDA seeded :
    IF seeded.notes = {} THEN Raise(seeded)
    ELSE Then(Each(StartWalk(seeded), [n \in 1 .. MaxRounds + 1 |-> n - 1],
                   LAMBDA b, depth : WalkRound(net, b, kind, depth, max)),
              LAMBDA walked : Emit(walked, GenreDocuments(kind, walked.notes.kept))))

WikidataGenresScrape(net, c, max) ==
  Each(c, << "genre", "movement" >>, LAMBDA a, kind : WalkKind(net, a, kind, max))
=============================================================================
