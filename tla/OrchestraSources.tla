-------------------------- MODULE OrchestraSources --------------------------
(***************************************************************************)
(* The concert archives with one record per concert: nyphil (a dataset),   *)
(* berlinphil (a JSON API), rco (a calendar) and laphil (a walk from page  *)
(* to page). The people of the first three are gathered while the concerts *)
(* are read and yielded after them.                                        *)
(***************************************************************************)
EXTENDS Crawl

-----------------------------------------------------------------------------
(* nyphil: programs of [id, season, works, concerts]; a work has a title,  *)
(* its composers, its conductors and soloists of [names, instrument].      *)

Names(names) == SelectSeq(names, LAMBDA n : n \notin {"", "not conducted"})

Roles == << "composer", "conductor", "soloist" >>

(* Who takes a role in a work, and on which instrument.                    *)
Taking(work, role) ==
  CASE role = "composer" -> {<<n, "">> : n \in ToSet(Names(work.composers))}
    [] role = "conductor" -> {<<n, "">> : n \in ToSet(Names(work.conductors))}
    [] role = "soloist" -> UNION {{<<n, s.instrument>> : n \in ToSet(Names(s.names))} :
                                    s \in ToSet(work.soloists)}

(* _aggregate: every appearance of anybody in a role.                      *)
Appearances(programs, role) ==
  UNION {{[name |-> t[1], instrument |-> t[2], program |-> p.id, season |-> p.season] :
            t \in UNION {Taking(w, role) : w \in ToSet(p.works)}} : p \in ToSet(programs)}

NyPhilRecord(role, name, own) ==
  Person(<<role, name>>, name,
         {<<"has_profession", role>>}
           \union {<<"performs_as", i>> : i \in {a.instrument : a \in own} \ {""}}
           \union {<<"program_count", Cardinality({a.program : a \in own})>>,
                   <<"first_season", Min({a.season : a \in own})>>,
                   <<"last_season", Max({a.season : a \in own})>>},
         Nothing)

NyPhilPeople(programs, role) ==
  LET all == Appearances(programs, role)
      names == InSomeOrder({a.name : a \in all})
  IN  [n \in DOMAIN names |-> NyPhilRecord(role, names[n], {a \in all : a.name = names[n]})]

NyPhilWorks(program, concert) ==
  Collect([w \in DOMAIN program.works |-> w], LAMBDA w : program.works[w].title # "",
          LAMBDA w : MentionOf(<<program.id, concert - 1, w - 1>>, program.works[w].title,
                               IF Names(program.works[w].composers) = <<>> THEN Nothing
                               ELSE Names(program.works[w].composers)[1],
                               {<<"date", program.concerts[concert]>>}, Nothing))

NyPhilScrape(net, c, max) ==
  Page(net, c, <<"dataset">>, LAMBDA a, programs :
    Emit(a, Flat(LAMBDA role : NyPhilPeople(programs, role), Roles)
            \o Flat(LAMBDA p : Flat(LAMBDA k : NyPhilWorks(p, k), [k \in DOMAIN p.concerts |-> k]),
                    programs)))

-----------------------------------------------------------------------------
(* berlinphil: a concert has its artists and works; an artist is           *)
(* [id, name, group, fields, role, discipline], a role one of the five     *)
(* below or another.                                                       *)

RoleProfession(role) ==
  CASE role \in {"instrument", "voice"} -> {"soloist"}
    [] role = "arrangement" -> {"arranger"}
    [] role \in {"composer", "conductor"} -> {role}
    [] OTHER -> {}

ArtistsOf(concert) == concert.artists \o Flat(LAMBDA w : w.artists, concert.works)

ArtistRecord(credits, id) ==
  LET own == SelectSeq(credits, LAMBDA a : a.id = id)
      professions == UNION {a.fields \union RoleProfession(a.role) : a \in ToSet(own)}
      played == {a.discipline : a \in {b \in ToSet(own) : b.role \in {"instrument", "voice"}}} \ {""}
  IN  IF own[1].group THEN Entity("ensemble", <<"artist", id>>, own[1].name, {}, Nothing)
      ELSE Person(<<"artist", id>>, own[1].name,
                  {<<"has_profession", p>> : p \in professions}
                    \union {<<"performs_as", d>> : d \in played}, Nothing)

(* One record per artist, in order of first credit; a credit without an id *)
(* or a name registers nobody.                                             *)
Artists(credits) ==
  LET known == SelectSeq(credits, LAMBDA a : a.id # Nothing /\ a.name # "")
      ids == FirstOccurrences([n \in DOMAIN known |-> known[n].id])
  IN  [n \in DOMAIN ids |-> ArtistRecord(known, ids[n])]

NamedAs(work, roles) ==
  Collect(work.artists, LAMBDA a : a.name # "" /\ a.role \in roles, LAMBDA a : a.name)

(* The linked composers, or else the ones the work states as plain names.  *)
BerlinWork(concert, work) ==
  LET linked == NamedAs(work, {"composer"})
      composers == IF linked = <<>> THEN work.composers ELSE linked
  IN  MentionOf(<<"perf", work.id>>, work.title,
                IF composers = <<>> THEN Nothing ELSE composers[1],
                {<<"date", concert.date>>}
                  \union {<<"soloist", s>> : s \in ToSet(NamedAs(work, {"instrument", "voice"}))},
                <<"concert", concert.id>>)

(* Works numbered by their place in the programme of a concert.            *)
BerlinWorksByPlace(concert) ==
  [n \in DOMAIN concert.works |->
     [BerlinWork(concert, concert.works[n]) EXCEPT !.id = <<"perf", n>>]]

BerlinWorks(concert) ==
  Collect(concert.works, LAMBDA w : w.title # "", LAMBDA w : BerlinWork(concert, w))

BerlinPhilScrape(net, c, max) ==
  Page(net, c, <<"concerts">>, LAMBDA a, listed :
    LET ids == SelectSeq(listed, LAMBDA id : id # Nothing)
        read == Each(a, SubSeq(ids, 1, Min({max, Len(ids)})), LAMBDA b, id :
                  MirroredPage(net, b, <<"concert", id>>, Always, LAMBDA d, concert :
                    Note(Emit(d, BerlinWorks(concert)), ArtistsOf(concert))))
    IN  IF Going(read) THEN Emit(read, Artists(read.notes)) ELSE read)

-----------------------------------------------------------------------------
(* rco: the conductors page, the calendar, and a JSON answer per concert   *)
(* that may not decode.                                                    *)

ConductorRecords(persons) ==
  Collect(persons, LAMBDA p : p.id # Nothing /\ p.name # "",
          LAMBDA p : Person(<<"credit", p.id>>, p.name,
                            {<<"has_profession", p.role>>} \union Claim("has_function", p.function),
                            Nothing))

(* collect_credits keys a person by role and name.                         *)
CreditKeys(concert) ==
  Collect(concert.credits, LAMBDA k : k.name # "" /\ k.role # "", LAMBDA k : <<k.role, k.name>>)

CreditRecord(key) ==
  Person(<<"credit">> \o key, key[2],
         IF key[1] = "conductor" THEN {<<"has_profession", "conductor">>}
         ELSE {<<"has_profession", "soloist">>, <<"performs_as", key[1]>>}, Nothing)

(* The items of the programme with a composer and a title; an interval is  *)
(* announced by dashes where the composer stands. Ids count every item.    *)
RcoPerformances(concert) ==
  LET conductor == FirstOf(concert.credits, LAMBDA k : k.role = "conductor")
  IN  Collect([n \in DOMAIN concert.program |-> n],
              LAMBDA n : concert.program[n].composer \notin {"", "--"}
                           /\ concert.program[n].title # "",
              LAMBDA n : MentionOf(<<"perf", concert.id, n - 1>>, concert.program[n].title,
                                   concert.program[n].composer,
                                   (IF conductor = Nothing THEN {} ELSE Claim("conductor", conductor.name))
                                     \union {<<"soloist", k.name>> : k \in {k \in ToSet(concert.credits) :
                                                   k.role \notin {"", "conductor"}}},
                                   <<"concert", concert.slug>>))

Decodes(body) == body # Nothing

(* iter_concerts: a failed request passes a concert over, an answer that   *)
(* does not decode ends the run; it is kept out of the mirror.             *)
ReadConcert(net, c, slug, max) ==
  TryPage(net, See(c, slug), <<"concert", slug>>, Decodes, LAMBDA b, concert :
    IF ~Decodes(concert) THEN Raise(b)
    ELSE LET told == Count(Note(Emit(b, RcoPerformances(concert)), CreditKeys(concert)))
         IN  IF told.read >= max THEN Return(told) ELSE told)

(* A calendar asked for through the mirror.                                *)
ReadCalendarMirrored(net, c, max) ==
  Each(c, Counting, LAMBDA a, n :
    MirroredPage(net, a, <<"calendar", n>>, Always, LAMBDA b, slugs :
      LET new == SelectSeq(slugs, LAMBDA s : s \notin b.seen)
      IN  IF new = <<>> THEN Break(b)
          ELSE Each(b, new, LAMBDA d, slug : ReadConcert(net, d, slug, max))))

(* The slugs of a calendar page are compared with the pages before it, not *)
(* with each other.                                                        *)
ReadCalendar(net, c, max) ==
  Each(c, Counting, LAMBDA a, n :
    Page(net, a, <<"calendar", n>>, LAMBDA b, slugs :
      LET new == SelectSeq(slugs, LAMBDA s : s \notin b.seen)
      IN  IF new = <<>> THEN Break(b)
          ELSE Each(b, new, LAMBDA d, slug : ReadConcert(net, d, slug, max))))

RcoScrape(net, c, max) ==
  Page(net, c, <<"conductors">>, LAMBDA a, persons :
    LET read == ReadCalendar(net, Emit(a, ConductorRecords(persons)), max)
        credits == FirstOccurrences(read.notes)
    IN  IF read.state \in {"going", "returned"}
        THEN Emit(read, [n \in DOMAIN credits |-> CreditRecord(credits[n])]) ELSE read)

-----------------------------------------------------------------------------
(* laphil: a URL is <<section, slug>>. An event page has links and program *)
(* items [slug, display], a person page links and a person or nothing.     *)
(* The walk's queues live in notes, what was claimed in seen, and read     *)
(* counts the pages.                                                       *)

IsEvent(url) == url[1] = "events"

(* _Walk.enqueue: two queues, events before people.                        *)
Enqueue(c, urls) ==
  LET new == SelectSeq(FirstOccurrences(urls), LAMBDA u : u \notin c.notes.queued)
  IN  [c EXCEPT !.notes.queued = @ \union ToSet(new),
                !.notes.events = @ \o SelectSeq(new, IsEvent),
                !.notes.people = @ \o SelectSeq(new, LAMBDA u : ~IsEvent(u))]

(* _Walk.next_url: the first queued page not walked yet, and the queues    *)
(* without what stood before it.                                           *)
Waiting(c) == c.notes.events \o c.notes.people
NextUrl(c) ==
  LET fresh == SelectSeq(Waiting(c), LAMBDA u : u \notin c.notes.walked)
  IN  IF fresh = <<>> THEN Nothing ELSE fresh[1]
Popped(c, url) ==
  LET From(q) == SelectSeq(q, LAMBDA u : u # url /\ u \notin c.notes.walked)
  IN  [c EXCEPT !.notes.events = From(@), !.notes.people = From(@)]

(* _Walk.fetch: a page that cannot be read is walked too.                  *)
WalkPage(net, c, url, Use(_, _)) ==
  TryPage(net, [Count(c) EXCEPT !.notes.walked = @ \union {url}], url, Always, Use)

LaPhilDocument(slug, person, display) ==
  Entity(person.kind, <<"people", slug>>, person.name,
         Composing \union Claim("born_on", person.born) \union Claim("died_on", person.died)
           \union (IF display \in {"", person.name} THEN {} ELSE {<<"also_known_as", display>>}),
         <<"people", slug>>)

(* composer_slugs: the first display name of every linked composer.        *)
ComposerItems(items) ==
  SelectSeq(items, LAMBDA i : i.slug # Nothing /\ i.display # ""
                     /\ i = FirstOf(items, LAMBDA j : j.slug = i.slug /\ j.display # ""))

(* A credited composer's page is read at once, and once only, whatever     *)
(* comes of it.                                                            *)
ReadComposerPage(net, c, item) ==
  IF item.slug \in c.seen THEN c
  ELSE WalkPage(net, See(c, item.slug), <<"people", item.slug>>, LAMBDA b, page :
         IF page.person = Nothing THEN b
         ELSE Emit(Enqueue(b, page.person.events),
                   <<LaPhilDocument(item.slug, page.person, item.display)>>))

ReadEvent(net, c, page) ==
  Each(c, FirstOccurrences(ComposerItems(page.items)),
       LAMBDA a, item : ReadComposerPage(net, a, item))

(* A person's own page counts when it says composer and no programme did.  *)
ReadPerson(c, slug, page) ==
  IF page.person = Nothing \/ slug \in c.seen THEN c
  ELSE IF ~page.person.composes THEN c
  ELSE Emit(See(c, slug), <<LaPhilDocument(slug, page.person, page.person.name)>>)

WalkOn(net, c, url) ==
  WalkPage(net, Popped(c, url), url, LAMBDA b, page :
    LET queued == Enqueue(b, page.links)
    IN  IF IsEvent(url) THEN ReadEvent(net, queued, page) ELSE ReadPerson(queued, url[2], page))

LaPhilScrape(net, c, max) ==
  Page(net, c, <<"home">>, LAMBDA a, seeds :
    IF seeds = <<>> THEN Raise(a)
    ELSE LET start == [a EXCEPT !.notes = [events |-> <<>>, people |-> <<>>, queued |-> {}, walked |-> {}]]
         IN  Each(Enqueue(start, seeds), Counting, LAMBDA b, n :
               IF b.read >= max \/ NextUrl(b) = Nothing THEN Break(b) ELSE WalkOn(net, b, NextUrl(b))))
=============================================================================
