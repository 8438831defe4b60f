---------------------------- MODULE OperaSource ----------------------------
(***************************************************************************)
(* roh: the Royal Opera House collections. An index page per letter lists  *)
(* works, a work page lists productions and the performances of none, a    *)
(* production page its performances. Three sweeps read them in that order, *)
(* and everybody credited anywhere is yielded at the end. A page fetched   *)
(* counts against max_pages, one that cannot be read included.             *)
(***************************************************************************)
EXTENDS Crawl

CONSTANTS
  Letters,       \* LETTERS
  Qualifiers,    \* the words a label may start with that change no role
  Synonyms,      \* bare label -> the role it means
  Professions,   \* role -> profession
  WorkRoles,     \* ROLES of a work page, of a production and a performance page
  ProductionRoles,
  PerformanceRoles,
  Groups,        \* the names resolve_entity_kind takes for ensembles
  MaxParts       \* _MAX_PARTS

-----------------------------------------------------------------------------
(* A page's panel has rows [label, name]; a label is a sequence of words.  *)

(* role: qualifiers are peeled off while anything is left, then a final    *)
(* "by" goes.                                                              *)
Peeled(label) ==
  LET kept == {n \in DOMAIN label : label[n] \notin Qualifiers} \union {Len(label)}
  IN  SubSeq(label, Min(kept), Len(label))

Role(label) ==
  LET bare == Peeled(label)
      slug == IF Len(bare) > 1 /\ Last(bare) = "by" THEN Front(bare) ELSE bare
  IN  IF slug \in DOMAIN Synonyms THEN Synonyms[slug] ELSE slug

(* read: a row whose role is known credits somebody, any other is a field; *)
(* the first of a label counts.                                            *)
CreditsOf(rows, known) ==
  Collect(rows, LAMBDA r : Role(r.label) \in known /\ r.name # "",
          LAMBDA r : [name |-> r.name, role |-> Role(r.label)])

Field(rows, known, label) ==
  LET row == FirstOf(rows, LAMBDA r : r.label = label /\ Role(r.label) \notin known /\ r.name # "")
  IN  IF row = Nothing THEN Nothing ELSE row.name

(* The rows of a listing that link to a page of the kind it lists; a link  *)
(* is <<kind, id>>.                                                        *)
LinkedRows(rows, kind) ==
  Collect(rows, LAMBDA r : r.link # Nothing /\ r.link[1] = kind, LAMBDA r : [id |-> r.link[2], date |-> r.date])

-----------------------------------------------------------------------------
(* The registry: whoever is credited, by name, with the roles, parts and   *)
(* dates of all their credits. Kept in notes, beside the queues.           *)

Anybody == [roles |-> {}, parts |-> {}, performances |-> {}, first |-> Nothing, last |-> Nothing]

Earlier(a, b) == IF a = Nothing THEN b ELSE IF b = Nothing THEN a ELSE Min({a, b})
Later(a, b) == IF a = Nothing THEN b ELSE IF b = Nothing THEN a ELSE Max({a, b})

Credit(people, name, Change(_)) ==
  (name :> Change(IF name \in DOMAIN people THEN people[name] ELSE Anybody)) @@ people

RecordCredits(people, credits) ==
  FoldLeft(LAMBDA p, k : Credit(p, k.name, LAMBDA who : [who EXCEPT !.roles = @ \union {k.role}]),
           people, credits)

Attach(who, performance, date) ==
  [who EXCEPT !.performances = @ \union {performance},
              !.first = Earlier(@, date), !.last = Later(@, date)]

(* At most MaxParts parts are remembered of anybody.                       *)
Playing(who, part) ==
  [who EXCEPT !.roles = @ \union { <<"cast">> },
              !.parts = IF part = "" \/ Cardinality(@) >= MaxParts THEN @ ELSE @ \union {part}]

RecordPerformance(people, ref, page) ==
  LET credited == FoldLeft(LAMBDA p, k : Credit(p, k.name, LAMBDA who :
                             Attach([who EXCEPT !.roles = @ \union {k.role}], ref.id, ref.date)),
                           people, CreditsOf(page.rows, PerformanceRoles))
  IN  FoldLeft(LAMBDA p, k : Credit(p, k.name, LAMBDA who : Attach(Playing(who, k.part), ref.id, ref.date)),
               credited, SelectSeq(page.cast, LAMBDA k : k.name # ""))

PersonRecord(name, who) ==
  IF name \in Groups THEN Entity("ensemble", <<"person", name>>, name, {}, Nothing)
  ELSE Person(<<"person", name>>, name,
              {<<"has_profession", Professions[r]>> : r \in who.roles \intersect DOMAIN Professions}, Nothing)

Records(people) ==
  LET names == InSomeOrder(DOMAIN people) IN [n \in DOMAIN names |-> PersonRecord(names[n], people[names[n]])]

-----------------------------------------------------------------------------
(* The sweeps. notes is [works, productions, performances, people]: works  *)
(* by id, productions <<id, work>>, performances [work, id, date].         *)

Sweep(net, c, url, max, Use(_, _)) ==
  IF c.read >= max THEN Break(c) ELSE TryPage(net, Count(c), url, Always, Use)

(* A cross-reference says nothing of a work, only where it is described.   *)
IsStub(page) == page.rows = <<>> /\ page.productions = <<>> /\ page.performances = <<>>

Composer(page) ==
  LET first == FirstOf(CreditsOf(page.rows, WorkRoles), LAMBDA k : k.role = <<"composer">>)
  IN  IF first = Nothing THEN Nothing ELSE first.name

WorkTitle(page) ==
  LET music == Field(page.rows, WorkRoles, << "music", "title" >>) IN IF music = Nothing THEN page.title ELSE music

(* Only an opera's world premiere is the work's; a ballet's is the dance's. *)
Premiere(page) ==
  IF page.genre # "Opera" THEN {}
  ELSE Claim("premiere", Field(page.rows, WorkRoles, << "world", "premiere" >>))

WorkDocument(id, page) ==
  MentionOf(<<"work", id>>, WorkTitle(page), Composer(page), Premiere(page), <<"work", id>>)

ReadWork(net, c, id, max) ==
  IF id \in DOMAIN c.notes.works THEN c
  ELSE Sweep(net, c, <<"work", id>>, max, LAMBDA b, page :
         IF IsStub(page) THEN b
         ELSE LET made == LinkedRows(page.productions, "production")
                  loose == LinkedRows(page.performances, "performance")
              IN  Emit([b EXCEPT
                     !.notes.works = (id :> page) @@ @,
                     !.notes.people = RecordCredits(@, CreditsOf(page.rows, WorkRoles)),
                     !.notes.productions = @ \o [n \in DOMAIN made |-> <<made[n].id, id>>],
                     !.notes.performances =
                       @ \o [n \in DOMAIN loose |-> [work |-> id, id |-> loose[n].id, date |-> loose[n].date]]],
                   << WorkDocument(id, page) >>))

ReadProduction(net, c, made, max) ==
  Sweep(net, c, <<"production", made[1]>>, max, LAMBDA b, page :
    LET given == LinkedRows(page.performances, "performance")
    IN  [b EXCEPT !.notes.people = RecordCredits(@, CreditsOf(page.rows, ProductionRoles)),
                  !.notes.performances =
                    @ \o [n \in DOMAIN given |-> [work |-> made[2], id |-> given[n].id, date |-> given[n].date]]])

(* A performance listed twice is read once, for whichever came first.      *)
PerformanceDocument(work, ref, page) ==
  MentionOf(<<"performance", ref.id>>, WorkTitle(work), Composer(work),
            {<<"date", ref.date>>}
              \union {<<"conductor", k.name>> : k \in {k \in ToSet(CreditsOf(page.rows, PerformanceRoles)) :
                                                         k.role = <<"conductor">>}},
            <<"performance", ref.id>>)

ReadPerformance(net, c, ref, max) ==
  IF c.read >= max THEN Break(c)
  ELSE IF ref.id \in c.seen THEN c
  ELSE Sweep(net, See(c, ref.id), <<"performance", ref.id>>, max, LAMBDA b, page :
         Emit([b EXCEPT !.notes.people = RecordPerformance(@, ref, page)],
              << PerformanceDocument(b.notes.works[ref.work], ref, page) >>))

(* _enumerate: all the letters before any work.                            *)
Enumerate(net, c) ==
  Each(c, Letters, LAMBDA a, letter :
    Page(net, a, <<"index", letter>>, LAMBDA b, ids : Note(b, ids)))

NewSweep == [works |-> [w \in {} |-> Nothing], people |-> [n \in {} |-> Anybody],
             productions |-> <<>>, performances |-> <<>>]

ReadWorks(net, c, max) ==
  Each([c EXCEPT !.notes = NewSweep], c.notes, LAMBDA b, id : ReadWork(net, b, id, max))
ReadProductions(net, c, max) ==
  Each(c, c.notes.productions, LAMBDA b, made : ReadProduction(net, b, made, max))
ReadPerformances(net, c, max) ==
  Each(c, c.notes.performances, LAMBDA b, ref : ReadPerformance(net, b, ref, max))

RohScrape(net, c, max) ==
  Then(Enumerate(net, c), LAMBDA listed :
    Then(ReadWorks(net, listed, max), LAMBDA worked :
      Then(ReadProductions(net, worked, max), LAMBDA made :
        Then(ReadPerformances(net, made, max), LAMBDA given : Emit(given, Records(given.notes.people))))))
=============================================================================
