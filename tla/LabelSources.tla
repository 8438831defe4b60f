---------------------------- MODULE LabelSources ----------------------------
(***************************************************************************)
(* The record labels: decca (a sitemap and a GraphQL endpoint asked in     *)
(* batches) and harmoniamundi (sitemaps, an album page per release and the *)
(* people's profiles). Both gather everybody credited in a roster, which a *)
(* crawl keeps in notes and yields at its end. Names are compared without  *)
(* regard to case, so one value stands for all the cases of a name.        *)
(***************************************************************************)
EXTENDS Crawl

CONSTANTS
  BatchSize,          \* BATCH_SIZE, the nodes one GraphQL request asks for
  Groups,             \* the names resolve_entity_kind takes for ensembles
  GroupRoles,         \* the roles only ensembles have
  Unnamed,            \* the placeholders that name no composer
  Production,         \* the functions of those who make the recording
  Authoring,          \* the functions of those who wrote what is played
  NotPerforming,      \* chorus master and the like
  NotADiscipline      \* the roles that say nothing of what somebody plays

-----------------------------------------------------------------------------
(* The roster: people in the order they were met, under the key <<"id",    *)
(* page>> of their page or <<"name", name>> where they have none.          *)

KindOf(name) == IF name \in Groups THEN "ensemble" ELSE "person"

Newcomer(key, name, kind) ==
  [key |-> key, name |-> name, kind |-> kind, roles |-> {}, composes |-> FALSE,
   born |-> Nothing, died |-> Nothing, alias |-> Nothing]

HasPage(person) == person.key[1] = "id"
Prefer(a, b) == IF a = Nothing THEN b ELSE a
Dated(person, born, died) == [person EXCEPT !.born = Prefer(@, born), !.died = Prefer(@, died)]

(* The person of a key as Change leaves them; a new one goes to the end.   *)
Registered(roster, key, name, kind, Change(_)) ==
  IF \E n \in DOMAIN roster : roster[n].key = key
  THEN [n \in DOMAIN roster |-> IF roster[n].key = key THEN Change(roster[n]) ELSE roster[n]]
  ELSE Append(roster, Change(Newcomer(key, name, kind)))

(* life_dates: of several people of one name, the last one met.            *)
LifeDates(roster, name, born, died) ==
  LET at == {n \in DOMAIN roster : roster[n].name = name}
  IN  [n \in DOMAIN roster |-> IF at # {} /\ n = Max(at) THEN Dated(roster[n], born, died) ELSE roster[n]]

(* reconcile: a bare name goes into the page of that name; of several such *)
(* pages, the last one met.                                                *)
Target(roster, name) ==
  LET at == {n \in DOMAIN roster : roster[n].name = name /\ HasPage(roster[n])}
  IN  IF at = {} THEN 0 ELSE Max(at)

Absorb(person, bare) ==
  [Dated(person, bare.born, bare.died)
     EXCEPT !.roles = @ \union bare.roles, !.composes = @ \/ bare.composes]

Reconcile(roster) ==
  LET Whole(n) == FoldLeft(LAMBDA p, bare : IF Target(roster, bare.name) = n THEN Absorb(p, bare) ELSE p,
                           roster[n], SelectSeq(roster, LAMBDA q : ~HasPage(q)))
  IN  Collect([n \in DOMAIN roster |-> n],
              LAMBDA n : HasPage(roster[n]) \/ Target(roster, roster[n].name) = 0, Whole)

Profession(person) ==
  IF person.kind = "ensemble" THEN Nothing
  ELSE IF person.composes THEN "composer"
  ELSE IF "conductor" \in person.roles THEN "conductor" ELSE "soloist"

PersonDocument(person) ==
  Entity(person.kind, IF HasPage(person) THEN <<"people", person.key[2]>> ELSE <<"names", person.name>>,
         person.name,
         Claim("has_profession", Profession(person))
           \union Claims("performs_as", person.roles \ NotADiscipline)
           \union Claim("born_on", person.born) \union Claim("died_on", person.died)
           \union Claims("also_known_as", {person.alias} \ {Nothing, person.name}),
         IF HasPage(person) THEN person.key[2] ELSE Nothing)

PersonDocuments(roster) == [n \in DOMAIN roster |-> PersonDocument(roster[n])]

-----------------------------------------------------------------------------
(* decca: a family lists products, a product tracks of [works, credits,    *)
(* headings]; a work is [id, title, level], a credit [id, name, function,  *)
(* flagged], a heading a sequence of people [name, born, died].            *)

LevelOneWork(track) == FirstOf(track.works, LAMBDA w : w.level = 1 /\ w.title # Nothing)

CreditRole(credit) ==
  IF KindOf(credit.name) = "ensemble" THEN "ensemble"
  ELSE IF credit.function = "conductor" THEN "conductor"
  ELSE IF credit.function \in GroupRoles THEN "ensemble" ELSE "soloist"

(* The first COMPOSER heading that names anybody; who performs on the      *)
(* track is not taken for its composer.                                    *)
Heading(track) == Prefer(FirstOf(track.headings, LAMBDA h : h # <<>>), <<>>)

HeadingComposers(track) ==
  LET performing == {k.name : k \in {k \in ToSet(track.credits) :
                                       k.function \notin Authoring \union Production}}
  IN  Collect(Heading(track), LAMBDA p : p.name \notin Unnamed \union performing,
              LAMBDA p : [id |-> 0, name |-> p.name, function |-> "composer", flagged |-> FALSE])

(* The credited composers, the flagged among several; else the heading's.  *)
TrackComposers(track) ==
  LET credited == SelectSeq(track.credits, LAMBDA k : k.function = "composer" /\ k.name \notin Unnamed)
      flagged == SelectSeq(credited, LAMBDA k : k.flagged)
  IN  IF credited = <<>> THEN HeadingComposers(track)
      ELSE IF Len(credited) > 1 /\ flagged # <<>> THEN flagged ELSE credited

(* Who takes part, and who made the recording.                             *)
Involved(track) ==
  SelectSeq(track.credits, LAMBDA k : k.function \notin Authoring \union NotPerforming)
Participants(tracks) ==
  SelectSeq(Flat(Involved, tracks), LAMBDA k : k.function \notin Production)
Producers(tracks) ==
  SelectSeq(Flat(Involved, tracks), LAMBDA k : k.function \in Production)

(* The tracks that belong to a work, and the works they belong to.         *)
WorkTracks(product) == SelectSeq(product.tracks, LAMBDA t : LevelOneWork(t) # Nothing)
WorkIds(tracks) == FirstOccurrences([n \in DOMAIN tracks |-> LevelOneWork(tracks[n]).id])

(* Counter.most_common(1): the most often named, the first of several.     *)
MostCommon(names) ==
  LET Times(x) == Len(SelectSeq(names, LAMBDA y : y = x))
  IN  FirstOf(names, LAMBDA x : \A y \in ToSet(names) : Times(x) >= Times(y))

WorkMention(product, tracks, id) ==
  LET own == SelectSeq(tracks, LAMBDA t : LevelOneWork(t).id = id)
      names == Flat(LAMBDA t : [n \in DOMAIN TrackComposers(t) |-> TrackComposers(t)[n].name], own)
  IN  MentionOf(<<"products", product.id, id>>, LevelOneWork(own[1]).title, MostCommon(names),
                {<<CreditRole(k), k.name>> : k \in ToSet(Participants(tracks))},
                <<"product", product.id>>)

Recording(product) ==
  LET tracks == WorkTracks(product)
  IN  [n \in DOMAIN WorkIds(tracks) |-> WorkMention(product, tracks, WorkIds(tracks)[n])]

(* Roster.add: a credit without an artist's id registers a name, and       *)
(* leaves its function behind.                                             *)
DeccaAdd(roster, credit, composing) ==
  IF credit.id = 0
  THEN Registered(roster, <<"name", credit.name>>, credit.name, KindOf(credit.name),
                  LAMBDA p : [p EXCEPT !.composes = @ \/ composing])
  ELSE Registered(roster, <<"id", credit.id>>, credit.name, KindOf(credit.name),
                  LAMBDA p : [p EXCEPT !.composes = @ \/ composing,
                                       !.roles = @ \union ({credit.function} \ {""})])

(* _collect: composers, performers, the production, and the headings' dates *)
(* of one recording.                                                       *)
DeccaCollect(roster, product) ==
  LET tracks == WorkTracks(product)
      composing == FoldLeft(LAMBDA r, k : DeccaAdd(r, k, TRUE), roster, Flat(TrackComposers, tracks))
      all == FoldLeft(LAMBDA r, k : DeccaAdd(r, k, FALSE), composing,
                      Participants(tracks) \o Producers(tracks))
  IN  FoldLeft(LAMBDA r, p : LifeDates(r, p.name, p.born, p.died), all,
               SelectSeq(Flat(LAMBDA t : FlattenSeq(t.headings), tracks),
                         LAMBDA p : p.born # Nothing \/ p.died # Nothing))

ReadFamily(c, family) ==
  Each(c, family, LAMBDA b, product :
    IF WorkTracks(product) = <<>> THEN b
    ELSE [Emit(b, Recording(product)) EXCEPT !.notes = DeccaCollect(@, product)])

(* enrich: an artist's own page, [id, name, alias].                        *)
EnrichArtist(c, node) ==
  IF node.name = Nothing THEN c
  ELSE [c EXCEPT !.notes = Registered(@, <<"id", node.id>>, node.name, KindOf(node.name),
                                      LAMBDA p : [p EXCEPT !.alias = node.alias])]

(* _fetch_batch: a request that fails is asked for again in halves, down   *)
(* to the single nodes that cannot be had.                                 *)
BatchRequests(net, urls) ==
  LET batches[i \in DOMAIN urls, j \in DOMAIN urls] ==
        LET batch == SubSeq(urls, i, j)
            half == (i + j - 1) \div 2
        IN  IF i = j \/ ToSet(batch) \cap net.down = {} THEN <<batch>>
            ELSE <<batch>> \o batches[i, half] \o batches[half + 1, j]
  IN  batches[1, Len(urls)]

(* _fetch_pending: the nodes that came are stored and used one by one.     *)
FetchPending(net, c, urls, Use(_, _)) ==
  IF urls = <<>> THEN c
  ELSE Each(Each(c, BatchRequests(net, urls), LAMBDA b, batch : Send(net, b, <<"batch">> \o batch)),
            SelectSeq(urls, LAMBDA u : u \notin net.down /\ net.pages[u] # Nothing),
            LAMBDA b, u :
              Use([b EXCEPT !.mirror = (u :> net.pages[u]) @@ @],
                  net.pages[u]))

(* _fetch_mirrored: what the mirror holds comes first, what it lacks when  *)
(* a batch is full; a is [c, pending].                                     *)
Flush(net, a, Use(_, _)) == Then(a.c, LAMBDA b : FetchPending(net, b, a.pending, Use))

FetchNode(net, a, u, Use(_, _)) ==
  IF ~Going(a.c) THEN a
  ELSE IF u \in DOMAIN a.c.mirror THEN [a EXCEPT !.c = Use(@, a.c.mirror[u])]
  ELSE IF Len(a.pending) + 1 < BatchSize THEN [a EXCEPT !.pending = Append(@, u)]
  ELSE [c |-> Flush(net, [a EXCEPT !.pending = Append(@, u)], Use), pending |-> <<>>]

FetchMirrored(net, c, urls, Use(_, _)) ==
  Flush(net, FoldLeft(LAMBDA a, u : FetchNode(net, a, u, Use), [c |-> c, pending |-> <<>>], urls), Use)

(* fetch_sitemap: the index, or all its children.                          *)
DeccaSitemap(net, c, Use(_, _)) ==
  Page(net, c, <<"sitemap">>, LAMBDA a, index :
    Then(Each(a, index.children, LAMBDA b, m :
           Page(net, b, <<"sitemap", m>>, LAMBDA d, urls : Note(d, urls))),
         LAMBDA read : Use([read EXCEPT !.notes = <<>>],
                           FirstOccurrences(IF index.children = <<>> THEN index.urls ELSE read.notes))))

(* families and artist_slugs: the URLs of a section.                       *)
Section(urls, section) == SelectSeq(urls, LAMBDA u : u[1] = section)
Capped(urls, max) == SubSeq(urls, 1, Min({max, Len(urls)}))

DeccaScrape(net, c, max) ==
  DeccaSitemap(net, c, LAMBDA a, urls :
    Then(FetchMirrored(net, a, Capped(Section(urls, "family"), max), ReadFamily), LAMBDA read :
      Then(FetchMirrored(net, read, Section(urls, "artist"), EnrichArtist), LAMBDA rich :
        Emit(rich, PersonDocuments(Reconcile(rich.notes))))))

-----------------------------------------------------------------------------
(* harmoniamundi: the tracklist of an album, line by line. A line is       *)
(* [body, dates, bulleted, note]: its words, the life dates after them, a  *)
(* bullet before them, or a remark or carrier that is no work.             *)

LineKind(line, known) ==
  IF line.dates # Nothing \/ line.body \in known THEN "composer"
  ELSE IF line.bulleted THEN "track"
  ELSE IF line.note \/ line.body = <<>> THEN "note" ELSE "work"

Block(name, dates) == [name |-> name, dates |-> dates, works |-> <<>>, heading |-> FALSE]
BlockComposer(block) == IF block.name \in Unnamed THEN Nothing ELSE block.name
Entry(title, tracks) == [title |-> title, tracks |-> tracks, subtitle |-> <<>>]
OnLast(works, Change(_)) == Append(Front(works), Change(Last(works)))

(* Under a heading a track belongs to it; without one it is a work.        *)
AddTrack(block, title) ==
  IF block.works # <<>> /\ block.heading
  THEN [block EXCEPT !.works = OnLast(@, LAMBDA w : [w EXCEPT !.tracks = Append(@, title)])]
  ELSE [block EXCEPT !.works = Append(@, Entry(title, <<title>>))]

(* A title straight after a title is its subtitle.                         *)
AddWork(block, title) ==
  IF block.works # <<>> /\ Last(block.works).tracks = <<>>
  THEN [block EXCEPT !.works = OnLast(@, LAMBDA w : [w EXCEPT !.subtitle = @ \o title]), !.heading = TRUE]
  ELSE [block EXCEPT !.works = Append(@, Entry(title, <<>>)), !.heading = TRUE]

Filled(block) == block.name # Nothing \/ block.works # <<>>
Close(p) == IF Filled(p.current) THEN Append(p.blocks, p.current) ELSE p.blocks

(* _TitleEcho: the album's title, repeated before the tracklist, is no     *)
(* work; echo is what is left to be repeated.                              *)
Echoes(p, title) == title # <<>> /\ IsPrefix(title, p.echo)

ReadLine(p, line) ==
  LET kind == LineKind(line, p.known)
  IN  CASE kind = "composer" ->
             [blocks |-> Close(p), current |-> Block(line.body, line.dates),
              known |-> p.known \union {line.body}, echo |-> <<>>]
        [] kind = "track" -> [p EXCEPT !.echo = <<>>, !.current = AddTrack(@, line.body)]
        [] kind = "work" /\ Echoes(p, line.body) ->
             [p EXCEPT !.echo = SubSeq(@, Len(line.body) + 1, Len(@))]
        [] kind = "work" /\ ~Echoes(p, line.body) ->
             [p EXCEPT !.echo = <<>>, !.current = AddWork(@, line.body)]
        [] OTHER -> p

ParseContents(lines, credited, title) ==
  Close(FoldLeft(ReadLine, [blocks |-> <<>>, current |-> Block(Nothing, Nothing),
                            known |-> credited, echo |-> title], lines))

(* An album page is [title, credits, lines]; a credit is [name, role,      *)
(* column, ref] and counts once per name and role.                         *)
AlbumCredits(page) ==
  LET all == SelectSeq(page.credits, LAMBDA k : k.name # <<>> /\ k.column # Nothing)
      first == SelectSeq([n \in DOMAIN all |-> n], LAMBDA n : \A j \in 1 .. n - 1 :
                 <<all[j].name, all[j].role>> # <<all[n].name, all[n].role>>)
  IN  [n \in DOMAIN first |-> all[first[n]]]

IsGroup(credit) == credit.role \in GroupRoles \/ KindOf(credit.name) = "ensemble"
AlbumRole(credit) ==
  IF IsGroup(credit) THEN "ensemble" ELSE IF credit.role = "conductor" THEN "conductor" ELSE "soloist"

AlbumBlocks(page) ==
  ParseContents(page.lines,
                {k.name : k \in {k \in ToSet(AlbumCredits(page)) : k.column = "composers"}}, page.title)

(* _mention_documents: a mention per work, numbered where titles repeat;   *)
(* an album without works is one itself.                                   *)
MentionsOf(slug, page, entries) ==
  LET Occurrence(n) == Cardinality({j \in 1 .. n : entries[j][1] = entries[n][1]})
      performers == SelectSeq(AlbumCredits(page), LAMBDA k : k.column = "artists")
  IN  [n \in DOMAIN entries |->
         MentionOf(<<"albums", slug, entries[n][1], Occurrence(n)>>, entries[n][1], entries[n][2],
                   {<<AlbumRole(k), k.name>> : k \in ToSet(performers)}, <<"album", slug>>)]

ListedWorks(blocks) ==
  Flat(LAMBDA b : [n \in DOMAIN b.works |-> <<b.works[n].title, BlockComposer(b)>>], blocks)
OrItself(listed, page) == IF listed = <<>> THEN << <<page.title, Nothing>> >> ELSE listed
AlbumMentions(slug, page, blocks) == MentionsOf(slug, page, OrItself(ListedWorks(blocks), page))

HarmoniaAdd(roster, credit) ==
  Registered(roster, IF credit.ref = Nothing THEN <<"name", credit.name>> ELSE <<"id", credit.ref>>,
             credit.name, IF IsGroup(credit) THEN "ensemble" ELSE "person",
             LAMBDA p : [p EXCEPT !.roles = @ \union ({credit.role} \ {""}),
                                  !.composes = @ \/ credit.column = "composers"])

(* Reader.album. notes holds the roster and, until its end, the first      *)
(* dates stated for a name.                                                *)
WithAlbum(c, url, page, blocks) ==
  [Emit(c, AlbumMentions(url[2], page, blocks)) EXCEPT
     !.notes.roster = FoldLeft(HarmoniaAdd, @, AlbumCredits(page)),
     !.notes.dates = @ \o SelectSeq(blocks, LAMBDA k : k.dates # Nothing)]

ReadAlbum(net, c, url) ==
  TryPage(net, c, url, Always, LAMBDA b, page :
    IF page = Nothing THEN b ELSE WithAlbum(b, url, page, AlbumBlocks(page)))

(* Reader.profile and enrich: a profile is [name, roles, dates], and names *)
(* disciplines only where it states no dates.                              *)
ReadProfile(net, c, url) ==
  TryPage(net, c, url, Always, LAMBDA b, page :
    IF page = Nothing THEN b
    ELSE [b EXCEPT !.notes.roster =
            Registered(@, <<"id", url>>, page.name, KindOf(page.name), LAMBDA p :
              IF page.dates = Nothing
              THEN [p EXCEPT !.composes = @ \/ url[1] = "composer", !.roles = @ \union page.roles]
              ELSE [Dated(p, page.dates[1], page.dates[2]) EXCEPT !.composes = @ \/ url[1] = "composer"])])

(* setdefault keeps the first dates a name was given.                      *)
WithLifeDates(notes) ==
  LET first == SelectSeq([n \in DOMAIN notes.dates |-> n],
                         LAMBDA n : \A j \in 1 .. n - 1 : notes.dates[j].name # notes.dates[n].name)
  IN  FoldLeft(LAMBDA r, n : LifeDates(r, notes.dates[n].name, notes.dates[n].dates[1], notes.dates[n].dates[2]),
               notes.roster, first)

SitemapUrls(net, c, maps) ==
  Each(c, maps, LAMBDA b, m :
    Page(net, b, <<"sitemap", m>>, LAMBDA d, urls : Note(d, FirstOccurrences(urls))))

NewReader(c) == [c EXCEPT !.notes = [roster |-> <<>>, dates |-> <<>>]]

HarmoniaMundiScrape(net, c, max) ==
  Page(net, c, <<"sitemaps">>, LAMBDA a, index :
    Then(SitemapUrls(net, a, index.albums \o index.people), LAMBDA listed :
      Then(Each(NewReader(listed), Capped(Section(listed.notes, "album"), max),
                LAMBDA b, u : ReadAlbum(net, b, u)), LAMBDA played :
        Then(Each(played, Section(listed.notes, "artist") \o Section(listed.notes, "composer"),
                  LAMBDA b, u : ReadProfile(net, b, u)), LAMBDA read :
          Emit(read, PersonDocuments(Reconcile(WithLifeDates(read.notes))))))))
=============================================================================
