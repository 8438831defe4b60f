------------------------------ MODULE Fetches ------------------------------
(***************************************************************************)
(* Runs of the source adapters, one after another, against sites that grow *)
(* and answer badly, over the page mirror the runs share. A run is one     *)
(* step: HttpSourceAdapter.fetch drained by the caller, or killed between  *)
(* two requests. What a scrape does is its operator in a ...Sources        *)
(* module; this module gives it its pages, keeps what the mirror keeps,    *)
(* and states what a run may rely on.                                      *)
(***************************************************************************)
EXTENDS HttpSession

CONSTANTS
  Nothing, LoopBound,
  Letters, Years, MaxListPages,                            \* of the sites' indexes
  NotAPerformer, Generic, EnsembleNames, GroupNames,       \* words about people
  FragmentSize, Intermission, Continuations, FullNames,
  CategoryFor, MembersOf, NonMusicTypes,
  BatchSize, GroupRoles, Unnamed, Production, Authoring, NotPerforming, NotADiscipline,
  PageSize, MaxRounds, Floors, NameAttempts, PlaceTypes, TypePriority, TypeFromName,
  Expand, EnsembleCategories, Sections, MaxForces,
  Qualifiers, Synonyms, Professions, WorkRoles, ProductionRoles, PerformanceRoles, MaxParts

Imslp == INSTANCE ImslpSources WITH SoundsEnsemble <- EnsembleNames
Index == INSTANCE IndexSources
Orchestra == INSTANCE OrchestraSources
Vienna == INSTANCE ViennaSource WITH Ensembles <- EnsembleNames
Publisher == INSTANCE PublisherSources
Record == INSTANCE LabelSources WITH Groups <- GroupNames
Wikidata == INSTANCE WikidataSources WITH Ensembles <- EnsembleCategories
Opera == INSTANCE OperaSource WITH Groups <- EnsembleNames

CONSTANTS
  Families,       \* the sources under study, in groups that share mirror entries
  Sites,          \* source -> version -> url -> body: what each site answers
  Garbled,        \* source -> url -> the bad body it sometimes answers instead
  StaticSources,  \* the sources whose cadence is STATIC
  Fingerprinted,  \* the sources that store pages under the request they made
  Duplicating,    \* the sources that repeat a record the site lists twice
  Reactions,      \* name -> what a server makes of each attempt at a page
  MaxRuns, MaxTroubles   \* bounds: the runs, and what goes wrong besides

ASSUME ReactionsAssumption ==
  /\ IsFiniteSet(DOMAIN Reactions) /\ "calm" \in DOMAIN Reactions
  /\ \A k \in DOMAIN Reactions, n \in 1 .. Retries :
       /\ Reactions[k][n].gaps \in Seq(Nat)
       /\ Reactions[k][n].retryAfter \in Nat
       /\ Reactions[k][n].accepted \in BOOLEAN

VARIABLES
  family,    \* the sources that run
  version,   \* the version of their sites, 1 or 2
  rows,      \* the page mirror
  request,   \* the version of the requests in the code
  outdated,  \* the rows whose page has changed since
  last,      \* the run before: what it yielded, what a whole crawl would
             \* have, and what became of it
  troubles   \* what has gone wrong so far

crawls == <<family, version, rows, request, outdated, last, troubles>>

-----------------------------------------------------------------------------
(* REGISTRY: the scrape of every source.                                   *)
Scrape(source, net, c, max) ==
  CASE source = "imslp" -> Imslp!ImslpScrape(net, c, max)
    [] source = "imslp_works" -> Imslp!ImslpWorksScrape(net, c, max)
    [] source = "imslp_recordings" -> Imslp!ImslpRecordingsScrape(net, c, max)
    [] source = "wikidata" -> Wikidata!WikidataScrape(net, c, max)
    [] source = "wikidata_works" -> Wikidata!WikidataWorksScrape(net, c, max)
    [] source = "wikidata_places" -> Wikidata!WikidataPlacesScrape(net, c, max)
    [] source = "wikidata_ensembles" -> Wikidata!WikidataEnsemblesScrape(net, c, max)
    [] source = "wikidata_genres" -> Wikidata!WikidataGenresScrape(net, c, max)
    [] source = "wikidata_catalogue" -> Wikidata!WikidataCatalogueScrape(net, c, max)
    [] source = "wikidata_instrumentation" -> Wikidata!WikidataInstrumentationScrape(net, c, max)
    [] source = "concertgebouw_archive" -> Index!ConcertgebouwScrape(net, c, max)
    [] source = "nyphil" -> Orchestra!NyPhilScrape(net, c, max)
    [] source = "berlinphil" -> Orchestra!BerlinPhilScrape(net, c, max)
    [] source = "rco" -> Orchestra!RcoScrape(net, c, max)
    [] source = "openopus" -> Index!OpenOpusScrape(net, c, max)
    [] source = "classicalmusiconline" -> Index!ClassicalMusicOnlineScrape(net, c, max)
    [] source = "boosey" -> Publisher!BooseyScrape(net, c, max)
    [] source = "baerenreiter" -> Publisher!BaerenreiterScrape(net, c, max)
    [] source = "henle" -> Publisher!HenleScrape(net, c, max)
    [] source = "classicfm" -> Index!ClassicFmScrape(net, c, max)
    [] source = "wienerphil" -> Vienna!WienerPhilScrape(net, c, max)
    [] source = "laphil" -> Orchestra!LaPhilScrape(net, c, max)
    [] source = "decca" -> Record!DeccaScrape(net, c, max)
    [] source = "harmoniamundi" -> Record!HarmoniaMundiScrape(net, c, max)
    [] source = "roh" -> Opera!RohScrape(net, c, max)

Never == 1000   \* no kill: more requests than any crawl makes

FetchSource(source, net, mirror, max) ==
  Imslp!Finish(Scrape(source, net, Imslp!Begin(mirror), max))

(* What a run tells the ingest: its documents, whatever their order.       *)
Told(c) ==
  {<<c.docs[n].kind, c.docs[n].id, c.docs[n].name, c.docs[n].by, c.docs[n].claims, c.docs[n].at>> :
     n \in DOMAIN c.docs}

Unmirrored == [u \in {} |-> Nothing]
Sound(source, v) == [pages |-> Sites[source][v], down |-> {}, cut |-> Never]

(* The crawl of a site that answers everything, with nothing mirrored.     *)
WholeCrawl == [s \in UNION Families |-> [v \in {1, 2} |-> FetchSource(s, Sound(s, v), Unmirrored, Imslp!NoCap)]]

-----------------------------------------------------------------------------
(* A run meets the site as it is, or one thing that goes wrong: a page     *)
(* whose server reacts badly, a page with a bad body, a kill, or a cap.    *)

(* The pages of a request: a batch asks for several.                       *)
PagesOf(url) == IF url[1] = "batch" THEN {url[n] : n \in 2 .. Len(url)} ELSE {url}
PagesAsked(asked) == UNION {PagesOf(asked[n]) : n \in DOMAIN asked}

Calm == [kind |-> "calm", url |-> <<>>, cut |-> Never, max |-> Imslp!NoCap]
Misfortunes(source, asked) ==
  [kind : DOMAIN Reactions \ {"calm"}, url : PagesAsked(asked), cut : {Never}, max : {Imslp!NoCap}]
    \union [kind : {"garbles"}, url : DOMAIN Garbled[source], cut : {Never}, max : {Imslp!NoCap}]
    \union [kind : {"calm"}, url : {<<>>}, cut : 0 .. Len(asked), max : {Imslp!NoCap}]
    \union {[Calm EXCEPT !.max = 1]}

ReactionsTo(event, url) ==
  Reactions[IF event.url \in PagesOf(url) /\ event.kind \in DOMAIN Reactions THEN event.kind ELSE "calm"]

Call(event, url) ==
  CallWithRetries([now |-> 0, ended |-> 0, requests |-> 0, came |-> FALSE], ReactionsTo(event, url))

NetUnder(event, source) ==
  [pages |-> [u \in DOMAIN Sites[source][version] |->
                IF event.kind = "garbles" /\ u = event.url THEN Garbled[source][u]
                ELSE Sites[source][version][u]],
   down |-> IF event.url # <<>> /\ ~Call(event, event.url).came THEN {event.url} ELSE {},
   cut |-> event.cut]

(* The time the run's pages took, beyond parsing them.                     *)
Spent(event, asked) ==
  LET spent[n \in 0 .. Len(asked)] == IF n = 0 THEN 0 ELSE spent[n - 1] + Call(event, asked[n]).now
  IN  spent[Len(asked)]

ServedTo(source) == Served(rows, request, source \in Fingerprinted, source \in StaticSources)

-----------------------------------------------------------------------------
NoRun == [source |-> Nothing, event |-> Calm, told |-> {}, count |-> 0, whole |-> {}, state |-> "none",
           asked |-> 0, spent |-> 0, runs |-> 0]

FetchesInit ==
  /\ family \in Families
  /\ version = 1
  /\ rows = Unmirrored
  /\ request = 1
  /\ outdated = {}
  /\ last = NoRun
  /\ troubles = 0

(* HttpSourceAdapter.fetch.                                                *)
Run ==
  /\ last.runs < MaxRuns
  /\ \E source \in family : \E whole \in {WholeCrawl[source][version]} :
       \E event \in {Calm} \union IF troubles < MaxTroubles THEN Misfortunes(source, whole.asked) ELSE {} :
         \E c \in {FetchSource(source, NetUnder(event, source), ServedTo(source), event.max)} :
           /\ rows' = Stored(rows, ServedTo(source), c.mirror, request)
           /\ outdated' = outdated \ (DOMAIN c.mirror \ DOMAIN ServedTo(source))
           /\ last' = [source |-> source, event |-> event, told |-> Told(c), count |-> Len(c.docs), whole |-> Told(whole),
                       state |-> c.state, asked |-> Len(c.asked), spent |-> Spent(event, c.asked),
                       runs |-> last.runs + 1]
           /\ troubles' = IF event = Calm THEN troubles ELSE troubles + 1
  /\ UNCHANGED <<family, version, request>>

(* The sites list new records, and change pages that may be mirrored.      *)
Differs(source, url) ==
  /\ url \in DOMAIN Sites[source][1]
  /\ Sites[source][1][url] # Sites[source][2][url]

Grow ==
  /\ version = 1
  /\ version' = 2
  /\ outdated' = {u \in DOMAIN rows : \E source \in family : Differs(source, u)}
  /\ UNCHANGED <<family, rows, request, last, troubles>>

(* The cadence's interval goes by.                                         *)
Age ==
  /\ \E u \in DOMAIN rows : rows[u].age < Interval
  /\ rows' = [u \in DOMAIN rows |-> [rows[u] EXCEPT !.age = Interval]]
  /\ UNCHANGED <<family, version, request, outdated, last, troubles>>

(* A release changes what the code asks for.                               *)
EditRequest ==
  /\ request = 1
  /\ family \intersect Fingerprinted # {}
  /\ request' = 2
  /\ UNCHANGED <<family, version, rows, outdated, last, troubles>>

(* A row of the mirror's file is damaged.                                  *)
Damage ==
  /\ troubles < MaxTroubles
  /\ \E u \in DOMAIN rows :
       /\ Readable(rows[u])
       /\ rows' = [rows EXCEPT ![u].readable = FALSE]
  /\ troubles' = troubles + 1
  /\ UNCHANGED <<family, version, request, outdated, last>>

FetchesNext == Run \/ Grow \/ Age \/ EditRequest \/ Damage

FetchesSpec == FetchesInit /\ [][FetchesNext]_crawls

-----------------------------------------------------------------------------
Undisturbed == last' # last /\ last'.event = Calm

(* What the mirror rightly serves although the site has changed since: in  *)
(* the interval, or of a static source, and asked for as it is asked now.  *)
Outlived(source) ==
  {u \in outdated :
     /\ Readable(rows[u])
     /\ source \in StaticSources \/ rows[u].age = 0
     /\ source \in Fingerprinted => rows[u].request = request}

Ids(told) == {<<d[1], d[2]>> : d \in told}

(* Whatever came before, kills, pages lost or answered badly, caps, damage *)
(* to the mirror, a run that nothing disturbs finishes and yields what a   *)
(* crawl without any mirror would, as soon as no page of an earlier        *)
(* version of the site is rightly served: no failure is remembered.        *)
NextRunIsWhole ==
  [][Undisturbed /\ Outlived(last'.source) = {} =>
       last'.state = "finished" /\ last'.told = last'.whole]_crawls

(* The pages that are there to list others: letters and calendars,         *)
(* sitemaps, start pages, the queries for ids.                             *)
IsIndex(url) ==
  url[1] \in {"worklist", "members", "artists", "index", "items", "path", "concerts", "calendar", "home",
              "archive", "fragment", "sitemap", "sitemaps", "composer ids", "work ids", "catalogued ids",
              "scored ids", "place ids", "seeds"}

(* Even where the mirror rightly serves a page that has changed since, a   *)
(* record that a crawl finds with and without that page is in the next     *)
(* undisturbed run. Of an index the mirror serves no earlier version: what *)
(* it has come to list is seen, and every page that is not mirrored yet.   *)
Elsewhere(source) ==
  FetchSource(source, [Sound(source, version) EXCEPT !.down = {u \in Outlived(source) : ~IsIndex(u)}],
              Unmirrored, Imslp!NoCap)
GrowthIsSeen ==
  [][Undisturbed /\ Outlived(last'.source) # {} =>
       Ids(last'.whole) \intersect Ids(Told(Elsewhere(last'.source))) \subseteq Ids(last'.told)]_crawls

(* A crawl names a record once, however often and wherever the site lists  *)
(* it, and wherever the crawl was cut off: the ingest would take a second  *)
(* document of an id for a later version of the record.                    *)
OneRecordPerId == last.source \notin Duplicating => Cardinality(Ids(last.told)) = last.count

(* The ids that count places, of a document <<kind, id, name, by, claims,  *)
(* at>>: in the contents of an edition, in the programme of a concert, in  *)
(* the whole list of an archive; and the performances that roh names after *)
(* whichever work lists them first.                                        *)
CountsPlaces(source, d) ==
  CASE source \in {"baerenreiter", "henle"} -> Len(d[2]) = 2
    [] source \in {"rco", "wienerphil", "concertgebouw_archive"} -> d[2][1] = "perf"
    [] source = "nyphil" -> d[1] = "mention"
    [] source = "roh" -> d[2][1] = "performance"
    [] OTHER -> FALSE

(* The place is one of a page of its own, and that page has not changed.   *)
SamePlaces(source, d) == source \in {"baerenreiter", "henle", "rco"} /\ ~Differs(source, d[6])

(* An id that two runs of a source both yield is the same record in both,  *)
(* though the site has grown, the mirror served some pages and others were *)
(* missing: ids are what the ingest recognises a record by. Ids that count *)
(* places are, as long as the page whose places they count is the same.    *)
IdsKeepTheirRecord ==
  [][last'.source = last.source =>
       \A d \in last.told, e \in last'.told :
         /\ <<d[1], d[2]>> = <<e[1], e[2]>>
         /\ CountsPlaces(last.source, d) => SamePlaces(last.source, d)
         => d[3] = e[3]]_crawls

(* A crawl takes no longer than its requests may: each attempt ends by its *)
(* deadline however the server deals out its answer, and the retries and   *)
(* pauses are counted. Only Retry-After, which a server sets, adds to it.  *)
LongestAsked == Max({Reactions[at[1]][at[2]].retryAfter : at \in (DOMAIN Reactions) \X (1 .. Retries)})
NoPageHoldsTheCrawl == last.spent <= last.asked * PageBudget(LongestAsked)
=============================================================================
