# A TLA+ model of the composer warehouse

The repository collects what libraries, publishers, orchestras and archives say
of composers, their works and their performances, and turns it into one
catalogue. This directory holds TLA+ modules for the parts of it that keep state
and can interleave, fail or be killed; configurations that check them with TLC;
and proofs that TLAPS checks. Everything is run from this directory:

    tlc -workers 2 -config PostgresBuild.cfg PostgresBuild    # a run
    tlapm PostgresBuildProofs.tla                               # the proofs of a module

`PROJECT.json` lists the runs, the mutated definition that breaks each property,
the source lines each definition stands for, the hazards and the theorems.

## 1. Inventory

Data flows one way:

    sources --fetch--> bronze bucket --process--> silver --promote--> gold --> graph, exports
                            |                        ^                  |
                            +----- rebuild-silver ---+                  +--> APIs, dashboard, frontend

An admin API and a command line drive it. They are separate processes over the
same files and databases, and the API runs its jobs as background threads, so any
two operations can be under way at once.

| Component | State | Operations | Hard behaviour | What makes it correct |
|---|---|---|---|---|
| bronze bucket (`composer-bronze`) | a directory, a manifest and a records file per fetch | fetch, list, read, abandon | a kill between any two writes; abandon beside a fetch; a load beside both | a finished manifest counts its records; a load reads nothing that still grows |
| ingestion (`warehouse/ingestion`) | `ingest_runs`, rows, entities; caches of one load | load a snapshot in batches | stale caches, unique keys two loads mint at once, rollback of a batch | what a run reports is what it stored; caches never outlive their transaction |
| build and swap (`build.py`, `postgres.py`) | live, demoted and staging database, manifest, advisory lock | begin, commit, abort, refuse, promote's read lock | kills, timeouts behind readers, two builders, readers over a swap | readers see whole builds; one builder at a time; the lock comes back |
| rebuild of silver (`rebuild.py`) | decisions carried, snapshots to replay | collect, replay, apply, swap | reviews, loads, fetches and deletions meanwhile | human decisions survive; the newest snapshot wins |
| person clustering (`persons/cluster.py`) | a union-find with sets a cluster must not meet | union, find with path compression | cannot-links reached through chains of merges | no cluster holds two people told apart; the order of ties does not matter |
| person dedupe and review (`persons/dedupe.py`, CLI) | `person_matches`, `canonical_entity_id` | score, catalogue links, apply, reset, accept, reject | passes and reviews over each other, killed between commits | the links are a partition one hop deep; what a human decided stays |
| person scoring (`persons/model.py` and others) | EM weights | train, score | floating point | (not modelled) |
| works: matching, merging, links, entities (`works/`) | `works`, `raw_work_mentions`, parents | resolve a mention, fold duplicates, derive parents | the outcome depends on what earlier mentions created; idempotency of folding | no row refers to a folded work; the best premiere stands; what is derived stays apart; a load matches against what the next one would read |
| derived passes (`derived.py`, places, genres, ensembles) | link columns and tables | refresh in order, each committed by itself | a kill between two passes, loads and other refreshes between them, names that become ambiguous | a quiet refresh leaves nothing stale; a link is never a guess |
| concerts and recordings | event and release tables | group concerts, cluster releases, credit, count programmes | releases joined through a third page | releases of different numbers stay apart |
| gold promotion (`composer-gold`) | the gold database | select, close references, copy | some twenty statements over a silver that changes meanwhile; rules that select from each other's results | what is published stands by itself; who is curated away stays away; credits survive |
| Neo4j graph, connections, Kumu | a live graph, rows in gold | empty and fill in steps, ask for neighbours, store them | two exports or a promote meanwhile, interruption | an undisturbed export leaves exactly gold |
| HTTP (`composer-http`) | mirror of pages, session, deadline | retry, pause, mirror | servers that trickle, refuse or ask for patience; stale, damaged or bad rows | every request ends in bounded time; no failure is remembered |
| 25 sources (`composer-scrapers`) | frontier, rosters and cursor of each fetch | fetch loops, merging of what several pages say of one record | kills, lost pages, sites that grow between runs | every record once and under the same id; new records are found |
| admin API, CLI | no state of their own | check, then schedule | the check and the work are two transactions | at most one job of a kind, or no harm from two |
| consumer API, dashboard, frontend, exports | none | reads | none | none |

`PROJECT.json` has the same list file by file, with what is and is not modelled.
The hazards it lists are what the properties were chosen for.

## 2. The modules

| Module | Of | Composes |
|---|---|---|
| `AtomicSwap` | what a build promises its readers | |
| `PostgresBuild` | `run_build` on Postgres schemas | implements `AtomicSwap` |
| `SqliteBuild` | `run_build` on one SQLite file | implements `AtomicSwap` |
| `Snapshots` | the bucket, fetches, abandon, the choice of a snapshot to load | |
| `IngestRuns` | loads of snapshots into silver | |
| `GreedyClusters` | what the clustering computes, as a definition on sets | |
| `PersonClusters` | the union-find that computes it | implements `GreedyClusters` |
| `PersonLinks` | dedupe passes and reviews over rows and links | takes one call of `PersonClusters` as a step |
| `SilverRebuild` | the rebuild with everything that happens beside it | takes the lock and swap of `PostgresBuild` as steps |
| `WorkMatching` | scores, thresholds and choice of a work for a mention; premiere dates | |
| `WorkFolding` | `merge_works`: which works fold into which | on `WorkMatching` |
| `Works` | loads, reviews, rematches, dedupes and folds over the works of silver | on `WorkFolding` |
| `EntityLinks` | which entity a name means; which work a work derives from | |
| `Events` | concerts and recordings out of the payloads of mentions | on `EntityLinks` |
| `DerivedPasses` | `refresh_derived` beside loads, single passes and other refreshes | on `Events` |
| `GoldCuration` | rules 1 to 3 and the copy, as operators on a silver and a gold | |
| `GoldPromote` | the phases of a promote beside loads and edits of the rule 1 file | on `GoldCuration` |
| `GoldExports` | what is read out of gold: queries, Kumu, graph rows, connections | on `GoldCuration` |
| `GraphExport` | exports to Neo4j and Kumu beside promotes | on `GoldPromote` and `GoldExports` |
| `Crawl` | one crawl as a value: what it asked, yielded, mirrored, how it ended | |
| `ImslpSources`, `IndexSources`, `OrchestraSources`, `ViennaSource`, `PublisherSources`, `LabelSources`, `WikidataSources`, `OperaSource` | the scrape of each of the 25 sources, an operator from a network and a crawl to a crawl | on `Crawl` |
| `HttpSession` | deadline, retries, pauses; what the page mirror serves | |
| `Fetches` | runs of the sources, one after another, over one mirror | instantiates the sources, on `HttpSession` |

A `MC...` module gives a module its values for TLC where they take definitions; a
configuration whose values are names and numbers (`PostgresBuild`, `SqliteBuild`,
`Snapshots`) runs the module itself. A `...Proofs` module holds the theorems of its
module; `SilverRebuildProofs` also those of `Snapshots`, the bucket that a rebuild reads,
and of `Fetches`, which fills it; `PersonLinksProofs` also those of `PersonClusters`, which
it is shown to call. For that a module must extend them all, so theirs are named
`BucketSpec`, `FetchesSpec` and `ClusteringSpec`, and their `Init` and `Next` likewise.
An operator whose comment begins with `Mutant:` is a plausible bug of
the definition it precedes and part of no specification: `PROJECT.json` names the
property that refutes it.

### PostgresBuild

One step is one transaction or one lock call. A builder is a call of `run_build`:
`Start` writes the running manifest, `TakeLock` or `Refused` is
`pg_try_advisory_lock`, `Prepare` drops `<live>_old` and creates the staging
schema (`PrepareTimesOut` when a reader pins the old one), `BuildPass` commits
into it, `Swap` is the rename transaction, `DropDemoted` the drop that gives up
after its timeout, then `Release` and `WriteCompleted`. `Raises` takes the path of
the `except`: `Abort`, `AbortRelease`, `WriteFailed`. `Kill` ends a process at any
step; the server then ends its session and lock. A builder of the API first reads
the manifest (`Accept`); one of the CLI does not. Promotes hold the shared lock
over several statements; sessions pin the tables of an open transaction. After a
refused `begin` the target still holds its lock connection until it is collected
(`Forget`, `Collect`). A schema's content is the number of passes committed into
it, enough to tell a whole one from a part.

### SqliteBuild

Paths and files are told apart: all targets of one path stage into `<path>.tmp`,
`begin` unlinks it, `commit` is `os.replace`, and an engine that is open keeps the
file it opened. Each pass in a file is tagged with the build that wrote it, which is
what shows two builders writing into one another's result.

### Snapshots

A manifest is written by truncating and filling its file (`Path.write_text`), so
both are steps; each record is flushed by itself and counted in another step. A
kill may come anywhere. `Listable` is the condition under which `list_snapshots`
returns at all: one torn manifest blocks the whole source. `Loadable` is what
`process` and `rebuild-silver` may choose. Abandon reads, counts, truncates and
fills in four steps. Snapshots without a manifest (`Legacy`) are finished with a
status "unknown". `process` chooses from a listing and reads later.

### IngestRuns

A load creates its run, caches rows, contents and entities (`LoadState`), then
takes the documents one by one. New rows are flushed one statement at a time and
collide on unique keys: a second insert waits for the first transaction, then fails
(`Waits`, `IngestFails`). `CommitBatch` every `Batch` documents; on an error
`Salvage` commits what it can or `Rollback` goes back to the last batch;
`Finalize...` writes status and counts. Entity records and mentions take this path
alike and are both "documents", except that a known mention whose text changed is read for
its composer again (`Mentions`); claims bring only entities as objects.

### GreedyClusters and PersonClusters

`GreedyClusters` takes the edges from the strongest to the weakest and merges the
two clusters unless a cannot-link would fall inside. `PersonClusters` is the code's
loop: `find` climbs and compresses one pointer per step, `union` keeps the larger
root and merges the sets of barred records.

### PersonLinks

Each command is a session with its own held objects: `dedupe-persons` (with or
without `--reset`) loads, scores in committed batches, weighs catalogue links, looks
each pair up and upgrades it in a later statement; then, as in a review or a
re-clustering, it reads entities, reads rows and writes the links that differ
*from those it holds*. Sessions keep objects over commits and queries do not refresh
them; that is why `held` is a copy. A review reads its row
first and updates it in a later statement.
Rows are oriented by the names, links by the evidence; the instances order the two
oppositely so that the disagreement of the code's two orders happens. `News` is an
ingest that adds evidence. `settled` says that all that was decided has been applied.
`Remember` keeps history that no guard reads: what a human last answered of each pair
(`decided`; an answer given while a catalogue pass is about to overwrite that row is not
counted), and whether the last session to write links held others than there were
(`tangled`).

### SilverRebuild

A database is a record of entities, pair verdicts, mentions and works. `Collect`
reads the human decisions before the lock, `Begin` takes lock and listing, `Replay`
loads the next snapshot, `ApplyPersons` and `ApplyWorks` put decisions back where
the persons, mentions and composers still exist, `Swap` publishes. Beside it fetches
finish, directories are deleted and put back, loads change silver, people review. A
work is known by composer, title key and what sources state outside the title; the
lookup by composer and title returns any of several (the query has no ORDER BY).
Histories that no guard reads say what each collected decision was made on (`sighted`)
and which rebuilds were overtaken by a review or another swap since they collected
(`late`).

### WorkMatching, WorkFolding and Works

What `extract_features` reads out of a title is the constant `TitleFeatures`; scores
are percentages, and the ladder of rules (derivation, shared catalogue that differs,
strong identifier, opus, title) is kept in its order. A list of candidates is a function
from works to what they are known by and their place `at` in it, which decides between
two that score the same. `FoldRound` takes works out of it one by one, the next in the
order of `_order`; `FoldComposerless` does the same with works that have no composer;
`Resolve` follows the merges to their ends. A load holds the candidates it
read when it began and teaches them what it stores (`StartLoad`, `Sight`); a reviewer
accepts or makes a new work; `Rematch` decides anew what no human decided; `Dedupe`
changes who is one person; `Fold` is the pass of `refresh_derived`, which moves matches,
candidates, identifiers and premieres to the work that stays. `Enforced` says whether
the database refuses a row that refers to nothing (Postgres does, SQLite does not).

### EntityLinks, Events and DerivedPasses

A pass is one step, as it is one transaction, and `PassOrder` is the order of
`derived.py`. Several refreshes, the single passes of the command line (`Alone`) and
commits of loads (`Mint`, `Sight`) interleave with them; `Stop` is a kill or an
exception. Queries without an ORDER BY return their rows in any order (`RowOrders`).
`Merges` says what one run of the fold makes of some works and of what they took in
(`became`); nothing says that a second run has nothing left to do, as `FoldIsIdempotent`
(section 5) shows it may. `quiet` and `fresh` are history: they say that nothing was
loaded while a refresh ran, nor folded by another once it had folded itself, and since;
so is `asOf`, what silver had when a kind was last linked.

### GoldCuration, GoldPromote, GoldExports and GraphExport

A promote's phases read silver one after another, each whatever is committed by
then: `b` is the build in memory and `g` the gold it fills. Loads, dedupe passes, reviews
and derive passes commit (`LoadsCommit` with one of `Late`): in any table rows go and rows
come, a row that changes does both. `before` is the silver that a promote began on, which
the properties compare gold with. The rule 1 file is edited in the steps of its
draft. Publishing is one step here because `PostgresBuild` and `SqliteBuild` show that
it may be taken so. An export empties the graph, creates nodes and relationships by
kind, asks for each entity's neighbours and stores them in gold; on SQLite it keeps the
file it opened, on Postgres it reads whatever gold is live.

### Crawl, the sources, HttpSession and Fetches

A site is a function from URLs (tuples) to bodies, and a body is what the parser of the
source returns: records of fields, never text. A crawl is a record that goes through
the requests of the source's `scrape` in their order: `Page` is a request that raises
when its retries are spent, `MirroredPage` one through the mirror, `TryPage` one that is
skipped when lost; `Each`, `Break`, `Return` and `Raise` are Python's. A crawl is killed
before any request. `Fetches` runs sources again and again over one mirror: a run is
one step, the site may `Grow` between runs, the mirror's rows `Age`, a release may
change a fingerprinted request (`EditRequest`), a row may be damaged, and a run may meet
one page that is lost, slow, busy or bad, or a cap. Operators that take operators
(`Page`, `Each`, `FetchMirrored`, `Sweep` ...) stand for code as well; `map` names their
first-order parts and the operators that use them. What one page costs is in `HttpSession`,
three loops inside one another: `Wait` is one socket operation under the deadline, `Attempt`
a request and the wait after it, `CallWithRetries` all attempts.

## 3. What the runs check

| Run | Shows | Bounds |
|---|---|---|
| `postgres_build` | exclusive lock that always comes back; a promote reads one silver; the rename of a commit never meets a leftover; tables in use survive; refinement of `AtomicSwap` | an API and a CLI builder, both killable, a promote, a session, 3 builds of 2 passes |
| `sqlite_alone` | a lone builder, killed and restarted: readers see whole builds; refinement of `AtomicSwap` | 1 builder, 2 readers, 3 builds |
| `snapshots` | finished manifests are exact, loads read frozen snapshots, unless a live fetch was abandoned | 2 fetches and a legacy snapshot, 2 records, 1 operator, 1 load |
| `ingest_runs` | completed runs stored and counted everything whatever was rolled back; the last sighting wins where a load had its source to itself | two loads of one source and one of another, 3 feeds with a changed record and a mention whose composer changed, batch 2 |
| `person_clusters` | the union-find is the greedy partition, keeps what must be apart, ends | every graph on 4 records, 2 scores, at most 2 cannot-links |
| `person_links` | one command at a time, killed anywhere, evidence changing: links are a partition at every moment, who was told apart stays apart, and the links are what decisions and constraints say | 3 persons, 3 scores, 1 shared pair, 1 conflict, 1 news |
| `person_links_two` | two commands at once, colliding on rows, resetting and writing over one another: a row says what a human last answered, and a chain is left only by a session whose links changed under it | 3 persons, 1 score |
| `silver_rebuild` | what a rebuild collected is in what it publishes, and all of silver's decisions if nobody decided since, corrected mentions apart; the newest snapshot wins, nothing dangles | 2 rebuilds, 2 snapshots, 1 pair, 1 mention whose content changes, works that share a key |
| `works` | no row refers to a folded work; the best premiere stands in any order; what is derived is never folded into its original; a load matches against what the next one would read | 3 names of one composer, 3 titles, 3 mentions, 3 works, 2 loads, 2 commands |
| `derived_passes` | what a quiet refresh leaves is what every pass but the fold would make again; releases with different numbers stay apart; a link is to the one thing its name meant when its kind was last linked | 2 refreshes, 1 commit of a load, 13 entities, 5 works of which one folds only in the second run, 4 mentions, two first states |
| `gold` | what is published stands by itself; no spelling and no ensemble without credits of the silver a promote began on is in it, whatever commits; credits survive; an undisturbed export is the gold | 11 entities, 19 claims, 3 configs, 4 commits of other commands, 2 exporters, 1 editor, 3 commits, edits, promotes and exports together |
| `fetch` | a record comes once; no page holds a crawl; no failure is remembered; new records are found; an id keeps its record | 25 sources, each with a site of two versions, 3 runs, 1 misfortune |

Why these bounds are enough to see what matters: three build names are live,
demoted and staging at once, with two builders that fail in between; two
passes tell a whole build from a part; three persons are the least that make a
chain, and four records the least that let a cannot-link be reached from both ends;
two records and batches of two put a kill or a rollback inside and between
batches; two snapshots can be loaded in both orders. Three works fold by two different
routes, and two loads are what it takes for one to meet what the other taught. Of the
first states of `derived_passes`, one lacks what makes a genre ambiguous and the other
what makes an ensemble so. `gold` spends its three on any mix of commits, edits,
promotes and exports, so a promote can be disturbed twice, and an export by a
promote. In `fetch` the first run may go wrong, the second be the one that should
repair it, and the third be late enough for the mirror to have aged; each site is the
smallest one that has what its source must cope with (an item listed twice, a row
without a name, a second page, one person credited in two places), and its second
version inserts records before others and changes pages that are mirrored.

Bounds that are constants of a module and not of the code: `Builds`, `Passes`,
`MaxRecords`, `Feeds`, `MaxShared`, `MaxConflicts`, `MaxNews`, `MaxCannot`, `MaxWorks`,
`MaxLoads`, `MaxCommands`, `MaxCommits`, `MaxSpent`, `MaxRuns`, `MaxTroubles`,
`LoopBound`, `MaxListPages`, `MaxRounds`, and `SilverStates`, the states commits of
loads may bring silver to under a promote. Sizes the code has and the instances make
smaller: `Batch`, `BatchSize`, `PageSize`, `FragmentSize`, `PoolSize`, `Retries`.

The runs list only what relates several parts of the state. The type invariants (`TypeOK`;
in `GoldPromote` and `GraphExport` the first parts of `IInv` and `ExportInv`) are conjuncts
of the inductive invariants of section 4, where they are proved.

Deadlock is not checked where the system may really stop: build names, snapshots,
runs, loads and misfortunes are finite sets that get used up, and the clustering ends.
It is checked in the `PersonLinks` and `SilverRebuild` runs.

Symmetry is used for sessions (`person_links_two`), for rebuilds (`silver_rebuild`) and
for exporters (`gold`), in runs without liveness.

**Fairness.** `PostgresBuild!Fairness` is weak fairness of each builder that has
begun: a thread inside `run_build` keeps executing. Nobody must ask for a build,
fail, read or stop reading; the drops have lock timeouts, so no reader can hold a
builder up. It includes `Collect`, by which the garbage collector closes a lock connection
that nobody refers to: CPython does that when the count of references reaches zero, which
the language does not promise. `PersonClusters` has weak fairness of its only loop. Nothing else is
claimed to happen eventually; what a crawl takes is bounded by counting its waits
(`NoPageHoldsTheCrawl`).

## 4. What is proved

Every theorem holds for all values of the constants that satisfy the `ASSUME`s of the
modules it extends: any number of builders, snapshots, records, persons, rebuilds.

* **PostgresBuildProofs**: `Invariant` (`IInv`), and from it `MutualExclusion`,
  `PromoteIsConsistent`, `SwapIsClear`, `ReadersKeepTheirTables`, and `Refinement`
  of `AtomicSwap`. None of the properties is inductive alone: that a swap meets no
  leftover needs the lock's holder to be the only builder past `begin`, that in turn
  every holder to own its build name, and the refinement that whatever is published
  has all its passes. `IInv` is their conjunction with `NamesAreOwned` and
  `PublishedIsWhole`. `LockIsOnItsWayBack` is the part of `LockComesBack` that needs no
  fairness: the holder of the lock has at most `Passes + 5` steps left (`StepsLeft`), each
  step of its own leaves fewer, no step of anybody else leaves more, and the name that its
  next rename needs is free. So if its thread keeps running, the lock comes back.
  Assumptions: at least one pass; "no build" and "free" are no names. `uuid4` names are
  assumed never to repeat.
* **SqliteBuildProofs**: `Invariant`, `WholeBuilds` and `Refinement` of `AtomicSwap`, from
  the hypothesis `OneAtATime`: that no two callers are inside `run_build`. Nothing in the
  code makes it true of a command line beside the API, and section 5 has what happens
  without it; the theorems say that it is all that is needed, with any number of builders,
  each killed and started again at will (`LoneBuilder` is the case of the run). The
  invariant ties four things: what a builder has open is what `<path>.tmp` names
  (`HandleIsTmp`), it holds the passes finished so far and no leftover (`StagedSoFar`), no
  reader has it (`StagingIsUnseen`), and its build is not published yet (`PublishedOnce`).
  Assumptions: at least one pass; "no build" and "no file" are no names.
* **IngestRunsProofs**: `Invariant`, `StoredWhenCompleted`, `HonestCounts`,
  `LastSighting`. A step of a load does one of four things to the rows: nothing, a
  rollback, a commit, or one write of a row nobody else has written (`RowStep`). So what
  is inductive is not the table but a load's own view of it, `Visible`, which the others
  leave alone: `CacheIsStored` and `CountOf` say that caches and count are true of that
  view, whatever was rolled back. That the last sighting wins needs in addition that the
  source was not loaded by two at once, which the property says itself.
* **PersonLinksProofs**, of `PersonClusters`: `ClusteringInvariant`, `CannotLinksHold`,
  `Refinement` of `GreedyClusters`. The invariant: members of a root are exactly its tree,
  a root bars for all its members, and `find` stays in the tree it was asked about.
  `AbsorbPreserves` is the heart of the safety: the sets of the two roots are enough to
  know that no member of one bars one of the other. For the refinement, the edge a step
  takes is a strongest one of those left (`EdgeIsStrongest`), the trees are the clusters of
  the abstract partition (`ClusterIsListed`, `RootsList`), and absorbing one root by another
  merges two clusters exactly when the definition would (`AbsorbMerges`).
  `FindsCannotLoop` is the part of `Ends` that needs no fairness, for finitely many edges:
  there are heights under which every parent is above its children and a root above its
  whole cluster (`NoCycle`: compression keeps them, a union puts the winner above both);
  each step ends an edge, enters the next part of the call, or brings `find` closer to the
  height of its root; and some edge always comes first of those left.
  `ClustersAreOneCall` joins the two modules: called with the rows of `PersonLinks` as
  edges, the loops end with the clusters that its recursive `Clusters` yields, whatever
  the rows, scores and pairs that are apart. Its invariant, `Agrees`, is that
  the trees are at all times the clusters of the links that the loop has passed, and that
  those are stronger than all that are left.
* **PersonLinksProofs**, of `PersonLinks`: `DecidedStaysDecided` and
  `UndisturbedWritesMend` for any number of sessions; for one session at a time
  `HumanDecisionsSurvive`, `LinksAreOneHop`, `AppliedLinksFollow` and
  `RejectedStayApart` (with two, TLC shows each can fail: section 5). The first half
  of that part is about the clustering itself, for any finite set of persons,
  scores and rows: `ClustersCluster` shows that what the recursive definition yields is a
  partition, that it keeps apart what is rejected or in conflict, that each cluster is
  connected by accepted rows, and that two clusters an accepted row joins are apart for
  a reason; `CanonicalIsBest` that the person others are linked to is
  its own canonical. Every induction there is over a finite set of rows or
  persons and is done by its smallest counterexample (`LeastSubset`). The second half
  is the invariant of a session, `Session`: the links it holds are those of the table
  and what it is about to write are the roots of what it read (`Applying`); links are
  the roots of the evidence whenever nothing has changed since they were applied
  (`Applied`); and every link is one hop.
* **SilverRebuildProofs**: `Typed`, `ReferencesHold`, `CollectedDecisionsSurvive`,
  `NewestContentsWin` for any number of rebuilds, with loads and reviews at any moment.
  The invariant says that only the lock's holder builds and that the staging database
  holds the decisions from the step that applied them, each on the content it was made
  on or on a newer one, which exempts it. For the second half of `DecisionsCarried` it
  adds `Knows`: while nothing has overtaken a rebuild, silver holds no decision but
  those it collected, on the same contents, since loads make none and only rematch
  mentions they correct. `NewestContentsWin` adds what has been replayed (`Replayed`):
  after the n-th of the listed snapshots the staging database holds the newest content
  among the first n, whatever is fetched, deleted or loaded into the live one meanwhile.
  `ComposersAssumption` (no mention is composed by a person somebody may pair)
  keeps work folding out. Of `Snapshots` it proves `BucketInvariant`, `CountsAreExact` and
  `LoadsReadTheWholeSnapshot`: the invariant says of each point of a fetch what it has
  written and counted (`WrittenOf`, `PhaseOf`), that an abandon is on a dead fetch, and
  that nothing appends to what is loadable, the misjudged apart.
* **SilverRebuildProofs**, of `Fetches`: `PagesAreBounded`, for any server, timeout, delay
  and number of retries. One operation never takes more than the deadline has left, so any
  number of them take at most the deadline (`Wait`, `Receive`); an attempt adds a pause of
  at most the delay and a wait of at most the longest `Retry-After` or the power of two
  (`Attempt`); the attempts add up to `PageBudget`, and the pages to the bound. These are
  functions defined from one number to the next, so each lemma says what a step keeps and
  `UpTo`, by the least counterexample, takes it to the last; that the functions exist is
  `RunEnds`. `ReactionsAssumption` says that the waits a server makes are sequences of
  whole numbers and that one reaction is the calm one. The premise of the theorem,
  `CrawlEnded`, is that the run asked a number of pages: what the 25 scrapes compute is not
  reasoned about, and TLC, which has to multiply that number, shows it on every run it makes.
* **WorksProofs**: `Soundness`, `Pointers`, `Derived`, `Cached` and `Premieres`, for any titles,
  scores, sources, loads and commands, in a database that enforces its foreign keys (`Enforced`;
  section 5 has what SQLite does without). That no row refers to a work that is gone needs
  two things. A fold must move every row to a work that stays: `MergesKeep` shows that the
  merges of any list of works close no cycle (a work folds only into one that has not folded
  itself, and works of different composers have no fold in common; those without a composer
  fold into works that have one), and `ResolveEnds` that without a cycle as many steps as
  there are merges lead out of them, because each step leaves fewer works under way. And
  what a load decides against candidates it read long ago must not hit another work: a work
  keeps its title and its id is never given again, so that `IInv` can say of every load that
  it takes no work that is still there for another (`LoadKnows`). The same two carry `Derived`:
  works derived differently score 5 whatever else they have in common (`DerivedScoresLow`),
  so no match and no merge joins them, nor any chain of merges. `Cached` adds that until
  somebody else commits, the candidates of a load are its works with the identifiers stored
  of them (`Fresh`). It assumes `TitlesSayAll`, that beside its title a document states
  identifiers only. Without it the property is false, which is a finding of section 5: an
  opus number stated beside a title is matched on in this load and forgotten by the next.
  `Premieres` rests on `SupersedesOrders`: of two dates of any precision the code keeps the one
  that comes first when each is filled up to year, month and day with a part later than any
  (`PremieresAssumption`: a month and a day have two digits), and that is a total order up to
  equal dates. So the better of two bests is the best of both (`StandingOfBoth`), which carries
  a sighting over what was told before and a fold over its sources one id after the other
  (`FoldPremieres`). Its invariant, `PInv`, adds that the dates a load holds are those of the
  works until somebody else commits, and that nothing was told of a work not yet made.
* **DerivedPassesProofs**: `Invariant`, `NothingIsStale`, `OneThingPerName`, `ReleasesApart`. The
  invariant says of every pass a refresh has behind it, the fold apart, that making it
  again from the rows would change nothing, unless a load committed since or the fold of
  another refresh took works away after its own; it holds because each pass reads only
  what the passes before it wrote and what nobody else may touch. Of the fold
  `MergesAssumption` says only that it is into a work. `OneThingPerName` is about the
  entities there were when a kind was last linked, so it needs no premise.
  `EntitiesAssumption` says that entities are finitely many, `AliasesAssumption` that of
  genres and movements only Wikidata names aliases, and those of an entity keyed on its item.
  `ReleasesApart` is about what the last pass computes, for any rows in any order: each union
  keeps the keys in disjoint clusters of at most one catalogue number (`UnionApart`), so the
  pairs of a performer do (`JoinApart`), the performers of a block (`BlockApart`) and the blocks
  (`RecordingsApart`); a release takes its key from one of its own pages (`FullestIsOfIt`).
  `Join` and `ClusterBlock` are recursive functions; `RunEnds` says that the steps such a
  definition writes down have a result and where it lies. The half about catalogue numbers has
  the premise `PagesAgree`: two mentions of one page give the page the same number. A page that
  changed after some of its works were sighted need not, and the code keeps the first it reads.
* **GraphExportProofs**: `Invariant`, `PromotesStand`, `CurationStays`, `CreditsStaySaid`, `GraphSaysGold`,
  for any number of promotes, exports, editors of the rule 1 file and commits of loads.
  The invariant follows a promote stage by stage: where it is and what silver it began on
  (`Progress`), what is selected (`Selection`), that gold has and speaks of nothing else
  (`Curated`), who was billed often enough by the silver the promote began on (`Evidenced`:
  the build never asks again, so this stays true whatever commits), and, unless silver changed
  meanwhile, what has been copied so far (`Copied`, `Credited`). `SilverAssumption` says that
  no commit deletes an entity or changes its kind (no load, pass or review does; a rebuild's
  swap waits for the promote) and that the references of silver stand after every commit: the works of mentions and links, the persons of works, one hop of a person's
  link. That is what `PointersResolve` of `Works` and `OneHop` of `PersonLinks` state of the
  loads and reviews that make those commits; the two counterexamples of section 5 in
  which silver itself has a dangling reference (a load across a fold on SQLite, two dedupe
  sessions at once) lie outside it.
  `GraphSaysGold` needs nothing of gold: its invariant, `ExportInv`, says how far an export
  that runs alone has come, which rows are nodes by now and which types of relationship join
  every pair of them that gold relates, and no others.

Only model-checked:

* Liveness (`LockComesBack`, `Ends`): that a step which can be taken is taken, and taken
  again until nothing is left, is fairness and ENABLED, which the prover cannot do. The
  rest of the argument is proved (`LockIsOnItsWayBack`, `FindsCannotLoop`).
* Of `Fetches`, `OneRecordPerId`, `NextRunIsWhole`, `GrowthIsSeen` and
  `IdsKeepTheirRecord`. They say what the 25 scrapes compute on a site. The operators of a
  crawl take operators, and recursion over what a page lists is induction over data, neither
  of which the provers can do; what could be generalised is the site, one source at a time.

## 5. Where code and documents part

A property the code does not keep is stated in its module and is part of no run. A
configuration of TLC that shows a trace against it is that of a run with the changes
given (and without the run's own properties); `CHECK_DEADLOCK FALSE` throughout.

### Further counterexamples

* `RaisedIsRecorded` (composer_admin/build_routes.py:195). _rebuild_silver_in_background logs any exception with the comment "Recorded as a failed manifest by rebuild_silver; log for the console." (build_routes.py:197). When begin raises (the advisory lock is held by a promote, postgres.py:108-112) run_build has already written the running manifest (build.py:191) and begin is outside its try (build.py:192-193), so the manifest stays running with no build behind it, and start_rebuild_silver answers 409 from then on.
  Configuration: that of `postgres_build` with `Builders = {api}`, `Cli = Killable = Sessions = {}`, `Builds = {s1, s2}`, `Passes = 1`, `SPECIFICATION Spec`, `INVARIANT RaisedIsRecorded`.
* `FailedWasNeverLive` (composer_warehouse/build.py:198). run_build says "On failure the staging area is discarded, the manifest records the error, the live database stays untouched" (build.py:187-188). commit swaps in its own transaction and then waits up to 5s in _drop_demoted (postgres.py:125-136), which catches only OperationalError: a Ctrl-C there reaches the except BaseException, aborts nothing that is left and records failed for the build that is now live.
  Configuration: that of `postgres_build` with as above, also `Promoters = {}`, `INVARIANT FailedWasNeverLive`.
* `BeginClearsStaging` (composer_warehouse/postgres.py:115). abort logs "could not drop staging schema %s; the next rebuild will" (postgres.py:146), but begin drops only <live>_old (postgres.py:117) and creates a staging schema under a fresh uuid name (postgres.py:101), so the leftover is never dropped.
  Configuration: that of `postgres_build` with as `FailedWasNeverLive`, `INVARIANT BeginClearsStaging`.
* `NothingHalfBuilt` (composer_warehouse/build.py:142). The module says a build "writes a fresh database into a staging area no reader can see, then swaps it in indivisibly, so readers never see a half-built result" (build.py:3-4). All SqliteFileTargets of a path stage into the same <path>.tmp and begin unlinks it unconditionally (build.py:125, 143): when a CLI rebuild begins while an API rebuild is about to commit, os.replace (build.py:149) moves the second builder's half-built file into place.
  Configuration: that of `sqlite_alone` with `Builders = {api, cli}`, `Killable = {}`, `Readers = {reader}`, `Builds = {s1, s2}`, `INVARIANT NothingHalfBuilt`.
* `AbandonIsTheWayOut` (composer_admin/routes.py:138). apps/admin-api/README.md:35-38 says of a fetch that was killed outright "Abandon is the way out - it marks the snapshot failed and corrects its record count to what is on disk" (and routes.py:123-126 likewise). A fetch killed between write_manifest (scraper.py:46) and the opening of records.ndjson (bucket.py:155) leaves a running manifest and no file: abandon_snapshot then raises FileNotFoundError while counting, before it writes anything, every time it is tried, and the source stays blocked.
  Configuration: that of `snapshots` with `INVARIANT AbandonIsTheWayOut`.
* `MisjudgedCountIsExact` (composer_admin/routes.py:138). abandon_snapshot says "``record_count`` is corrected to what is actually on disk" (routes.py:124-125) and warns that "a fetch that *is* still going will carry on writing to a snapshot now marked failed" (routes.py:127-128). Nothing tells a live fetch from a dead one: abandoned alive, and then killed, it leaves a failed manifest with too small a count for good; while it goes on, a load may read what still grows ("never one still running", composer-bronze README).
  Configuration: that of `snapshots` with `INVARIANT MisjudgedCountIsExact`.
* `PartialCountsAreExact` (composer_warehouse/ingestion/core.py:223). packages/composer-warehouse/README.md (Ingest flow, step 2) says "A mid-run failure commits what was ingested so far and marks the run `failed` with partial counts." When the failure is a flush (a duplicate entity key minted by a load of another source, a lock that is not given), the session cannot commit and core.py:221-223 rolls back to the last full batch, while state.seen and state.new, which are stored as the counts, include the batch that is gone.
  Configuration: that of `ingest_runs` with `INVARIANT PartialCountsAreExact`.
* `RunsAreFinalized` (composer_warehouse/ingestion/runner.py:50). execute_run says it will "Ingest records into the already-created run and finalize it" (runner.py:36). The objects of the last claims are still unflushed when the loop ends; the trailing flush_entity_timestamps (core.py:226-227) and the final commit (runner.py:50) are outside every try, so a collision there raises out of execute_run and the run stays running, after which has_running (crud.py:35) refuses the source for good.
  Configuration: that of `ingest_runs` with `INVARIANT RunsAreFinalized`.
* `ContentIsUpdated` (composer_warehouse/ingestion/core.py:53). packages/composer-warehouse/README.md (Ingest flow, step 2) says of a known document "if its content differs from what's stored, that's updated too". The comparison is with the hash cached when the load began (core.py:53, 172): if another load of the source (a CLI one, or a second request that passed has_running before the first committed its run) changed the row since, the difference is not seen, and last_run_id names a run whose snapshot says otherwise.
  Configuration: that of `ingest_runs` with `INVARIANT ContentIsUpdated`.
* `OneHop` (composer_warehouse/persons/dedupe.py:327). apply_clusters says "the pointer graph is a partition: one hop to a root, no chains, no cycles. Gold relies on this" (dedupe.py:301-303). It writes only the links that differ from the ones its session holds, and dedupe_persons has held every entity since before it scored (dedupe.py:344; sessions are made with expire_on_commit=False, composer_models/db.py:64, and a query does not refresh what is loaded). A person-review that applies its own clusters meanwhile is overwritten link by link, and what remains is a chain.
  Configuration: that of `person_links_two` with `Scores = {0, 1, 2}`, `MaxShared = 0`, no symmetry, `INVARIANT OneHop`.
* `HumanDecisionsStay` (composer_warehouse/persons/dedupe.py:256). dedupe.py:53 says "Decisions a human made, which a re-run must never discard", and _link_shared_catalogues "a pair a human decided is left alone" (dedupe.py:233). The row is read, found waiting for review and set to auto_linked by an update that does not look at the status again: an acceptance or a rejection committed between the two is overwritten, and a later --reset deletes the row.
  Configuration: that of `person_links_two` with `Scores = {0, 1}`, no symmetry, `PROPERTY HumanDecisionsStay`.
* `NeverAskedAgain` (composer_warehouse/persons/dedupe.py:256). composer_models/persons.py:16 says "``rejected`` is remembered so re-runs don't re-propose". The same race, two steps on: a rejection that comes between the look-up and the update of a catalogue pass is overwritten with auto_linked, a --reset deletes the row as a machine's, and scoring proposes the pair to a human again. `DecisionsStand` of `person_links_two` says that this is the only way.
  Configuration: that of `person_links_two` without symmetry, `PROPERTY NeverAskedAgain`.
* `AcceptedAreLinked` (composer_warehouse/persons/cluster.py:124). composer_models/persons.py:15 says "``auto_linked`` / ``accepted`` also set ``entity.canonical_entity_id``", and person-review prints "linked". An accepted row is an edge with the low score that sent it to review, so it is considered last, and an authority conflict or a rejection between the clusters refuses it: the pair stays apart.
  Configuration: that of `person_links` with `MaxShared = MaxNews = 0`, `INVARIANT AcceptedAreLinked`.
* `ResetKeepsAcceptedLinks` (composer_warehouse/persons/dedupe.py:156). reset_person_links says accepted rows "survive, along with the links they justify" (dedupe.py:148-149). The link is kept only on the entity that is the entity_id of an accepted row. Which side that is depends on the length of the given names (dedupe.py:63-73); which side carries the link depends on the evidence (_canonical_rank, dedupe.py:177-185). When the two disagree the link of the pair is dropped.
  Configuration: that of `person_links` with `MaxShared = MaxConflicts = MaxNews = 0`, `PROPERTY ResetKeepsAcceptedLinks`.
* `DecisionsSurviveRebuild` (composer_warehouse/rebuild.py:326). rebuild.py:21 says "Human review decisions survive the rebuild." They are read before run_build starts (rebuild.py:326) and never again: person-review and review --accept write to the live database through the whole replay, and what they commit after the collection is replaced by the swap without having been seen.
  Configuration: that of `silver_rebuild` with `Rebuilds = {r1}`, `Mentions = {m1, m2}`, no symmetry, `PROPERTY DecisionsSurviveRebuild` (if nobody decides and no other rebuild publishes between the collection and the swap, it holds: the second half of `DecisionsCarried`).
* `DecisionsKeepTheirWork` (composer_warehouse/rebuild.py:198). rebuild.py:21 says "Human review decisions survive the rebuild." A manual match is carried by the composer and title key of its work, which no constraint makes unique: works of one title whose sources number them differently are two works (match.py:89). The lookup (rebuild.py:198-203) takes any of them, so the mention can end at the one the reviewer turned down.
  Configuration: that of `silver_rebuild` with `Rebuilds = {r1}`, `Mentions = {m1, m2}`, no symmetry, `PROPERTY DecisionsKeepTheirWork`.
* `CorrectedIsRematched` (composer_warehouse/rebuild.py:214). RawWorkMention says "one whose content actually changed is re-resolved against the work catalogue so a corrected title doesn't keep the decision made for the old one" (packages/composer-models/src/composer_models/works.py, class RawWorkMention). A rebuild replays the corrected content and then applies the decision collected for the old one by external id alone (rebuild.py:187-191, 214-216).
  Configuration: that of `silver_rebuild` with `Rebuilds = {r1}`, `Mentions = {m1, m2}`, no symmetry, `PROPERTY CorrectedIsRematched`.
* `FoldIsIdempotent` (composer_warehouse/works/merge.py:149). merge.py:30-31 says "The pass is idempotent: a second run finds nothing left to fold". What a composerless work teaches the work it folds into is not seen by those before it: the owners of a number are worked out once (merge.py:138-141) and each composerless work is tried once, so one that precedes the work carrying its number in title order folds in the next run.
  Configuration: that of `works` with `Titles = {1, 2, 3, 4}`, `Values = {k550, k551, q1}`, `MaxCommands = 1`, `Feeds <- MCFeedsAnonymous`, `PROPERTY FoldIsIdempotent`.
* `PointersResolve` (composer_warehouse/ingestion/mentions.py:133). A load decides against candidates read at its start (state.py:134). When refresh_derived folds one of them meanwhile, the load stores its mention, title and identifiers under a work that no longer exists. Postgres refuses the row and fails the load; SQLite, opened without PRAGMA foreign_keys (models/db.py), keeps it, and merge.py:162 promises that "every row that references a folded work" is moved.
  Configuration: that of `works` with `Enforced = FALSE`, `INVARIANT PointersResolve`.
* `PremiereSettles` (composer_warehouse/ingestion/mentions.py:111). premiere.py:61-64 says "Neither rule depends on the order the sources arrive in". apply_premiere compares with the date the load read at its start (mentions.py:110-112), so a load that spans a fold writes its later date over the earlier one the fold moved to the work.
  Configuration: that of `works` with `INVARIANT PremiereSettles`.
* `CacheIsDatabase` (composer_warehouse/works/__init__.py:146). mentions.py:85-86 says of identifiers that later mentions match on them "this run or the next". An opus number a source states beside the title is part of the features of this run (extract.py:208-214) but is neither stored as an identifier nor in the title, from which the next run reads the work again (works/__init__.py:146-154).
  Configuration: that of `works` with `Opuses = {40}`, `Feeds <- MCFeedsOpus`, `INVARIANT CacheIsDatabase`.
* `PublishesFresh` (composer_admin/build_routes.py:43). build_routes.py:40-42 says the passes run first "so the Promote button never publishes stale derivations". They run before promote takes its lock and reads silver, one transaction each, while loads commit: mentions loaded after a pass are published without its concerts, recordings or links.
  Configuration: that of `derived_passes` without symmetry, `PROPERTY PublishesFresh`.
* `IdsStay` (composer_warehouse/recordings/derive.py:168). recordings/derive.py:11-13 says a recording's id "is the same after every re-run", and models/recordings.py:29 "stable across derives". The id is that of the key of the fullest page of the cluster, and which pages make a cluster depends on the pages there are, so a page loaded later gives the recording an earlier page is on another id.
  Configuration: that of `derived_passes` with `Base <- MCBaseLater`, no symmetry, `PROPERTY IdsStay`.
* `NobodyComesBack` (composer_gold/_claims.py:80). composer-gold/README.md:28-30 says "The walk never takes in a person", and _claims.py:77 "Persons are rule 1's alone". The walk does not go on to persons, but it starts from whatever the claims of kept persons name: a teacher (student_of) whom rule 1 dropped is among the seeds, is not in kept_roots, and is copied.
  Configuration: that of `gold` with `INVARIANT NobodyComesBack`.
* `LateEnsemblesAreBilled` (composer_gold/_claims.py:80). _claims.py:71-72 says "an ensemble a kept person points at but that never played a concert or recording stays out". The ensembles are listed once, when the promote begins (_selection.py:175), and only those without enough credits are in unevidenced_ensembles (_selection.py:303). One that a load commits after that is in neither set: a kept person's claim, read later, names it, and the walk takes it in without a credit.
  Configuration: that of `gold` with `INVARIANT LateEnsemblesAreBilled`.
* `EnsemblesBySources` (composer_gold/_claims.py:119). queries.py:41 keeps values "in 'most sources first' order", and kumu.py takes "the value the most sources back". What is counted is rows: the literal claims of an ensemble's spellings are re-pointed without the deduplication persons get, so one source that lists two spellings outvotes another one.
  Configuration: that of `gold` with `INVARIANT EnsemblesBySources`.
* `NoHalfFile` (composer_gold/_rule1_config.py:77). _rule1_config.py:73-74 says the file is "swapped in atomically so a reader never sees a half-written file". Every edit writes the same draft, so with two requests at once one renames the draft the other has just truncated, and a promote that starts then falls back to the defaults without an error.
  Configuration: that of `gold` with `Editors = {e1, e2}`, `INVARIANT NoHalfFile`.
* `ConnectionsAreOfGold` (composer_graph/connections.py:309). snapshot_connections asks whatever graph an earlier export left and writes the answers to the gold of now: after a promote that dropped an entity, gold stores connections of something it does not have.
  Configuration: that of `gold` with `MaxSpent = 4`, `Editors = {}`, `Late = {}`, `KumuConfigs = {}`, `Exporters = {x1}`, `INVARIANT ConnectionsAreOfGold`.

### Sources

Found while the scrapes were written down; the first two lists are what `fetch` exempts
from one property each (the sources of `Duplicating`, the ids of `CountsPlaces`).

* Repeated records (`OneRecordPerId`): rco names a concert twice that one calendar page
  lists twice (fetch.py:64 compares with earlier pages only); imslp, imslp_works and
  imslp_recordings yield a row of the worklist or a credited person for each time it
  comes.
* Ids that come to name another record (`IdsKeepTheirRecord`). An id that counts a
  place names another record once the site lists an earlier item: the items of an
  anthology at baerenreiter (__init__.py:185), the rows of a volume at henle
  (__init__.py:236), the items of a programme at rco (performances.py:52), nyphil
  (performances.py:72) and wienerphil (performances.py:306), the rows of the whole list
  at concertgebouw_archive (performances.py:75). The second version of each of those
  sites inserts such an item, and the ingest takes the record that now stands there for
  a new version of the first. What is checked of baerenreiter, henle and rco is that
  nothing else shifts these ids: as long as the page is the same they keep their record.
  wienerphil counts the works of a listing and of a detail page differently, so a lost
  detail page shifts them too; roh names a performance after whichever work lists it
  first, so a lost work page renames it. Every other id is checked to keep its record.
* Pages stored without a validator are remembered as they came: harmoniamundi, laphil
  and boosey for a year, wienerphil, roh and berlinphil for good. So are Wikidata's
  answers about relations and metrics, whose completeness is not checked. `fetch` lets a
  site answer badly only where the source has a validator.
* What a mirrored page itself lists waits for its entry to age: an item of an edition,
  an event on a person's page at laphil, a performance on a work's or a production's page
  at roh. `GrowthIsSeen` therefore asks for the records that a crawl also finds without
  the mirrored pages that have changed. roh's pages are static: new performances of an
  old production are never seen.
* A lost page ends the whole crawl in berlinphil (a concert's detail) and rco (an answer
  that is not JSON); boosey silently drops a composer whose page is lost; laphil never
  asks again for a person whose page failed, and its people do not count towards
  max_pages; decca finishes as "finished" with no works when its GraphQL endpoint is
  down, and stores nothing of a batch it is killed in.
* decca and harmoniamundi give a person another id when the page that links them is
  lost; imslp_recordings takes id and spelling of a person from whichever page comes
  first; openopus gives two works of one title one id.
* A Wikidata batch is mirrored under the ids it asks for: an id inserted early in the
  list makes a new query of every later batch. The batches of genre counterparts do not
  count towards max_pages.
* boosey/works.py:111 says "A label immediately followed by another label has no value";
  only a bare label is recognised as one.
* `Retry-After` is followed however long it asks (composer_http/__init__.py:128), which
  is why `NoPageHoldsTheCrawl` counts it apart.

## 6. Abstractions and what is left out

* Builds: on Postgres the manifest is a row and written in one step; on SQLite a
  torn manifest file is taken as one step too. SQLite's read-only error after a file
  was replaced is one of the ways a pass raises. A lock connection is lost only with
  its process. An interrupt during `os.replace` itself is not a step.
* Bucket: the listing of a source is read at one instant. Of a live fetch and an abandon
  that write one manifest at once, the last text stands (in the code a longer one written
  in between leaves its tail, and the file is no JSON).
* Loads: labels, timestamps and `process --run-id` are left out of `IngestRuns`; the
  works of a mention are in `Works`, where a document is a transaction of its own. Locks
  are those of rows and keys, as on Postgres; on SQLite one transaction has them all, which
  leaves out interleavings and adds the failures that `IngestFails` has (a lock is not given).
* Persons: the set of persons is fixed; scores of the corpus are fixed within a
  behaviour; a catalogue pass looks all its pairs up in one step; whether a
  catalogue cluster is ambiguous is nondeterministic; authority conflicts are pairs,
  without the bound on component size that `constraints.py` applies. A row of a person
  ingested after `apply_clusters` read the persons raises there, which is like a kill.
* Rebuild: loads are atomic and do not span the swap (one that does goes on with ids of
  the old database, or writes to the replaced file); the lock is Postgres's (SQLite
  has none); machine verdicts count as "open"; person links and the folding of works
  are in their own modules. The refresh that ends a rebuild (rebuild.py:271) folds works
  after the decisions are applied, so a mention may be published at the work its own was
  folded into, of another title perhaps; `SilverRebuild` stops at the decision as applied.
* Works: the text of titles and difflib's ratio are constants; alternative titles take
  the path of identifiers; which source stated an identifier is left out.
* Derived passes: a pass reads and writes in one step; names are compared as the keys
  they are normalised to; `Merges` stands for one run of `WorkFolding`,
  and is any function of the works and of what they took in.
* Gold: the SELECTs of one phase are one step; a commit is one of those the constant `Late`
  lists, where the instance has a load that sights a record again and brings an ensemble, a
  claim and a record, one that brings a work, a dedupe pass that links and unlinks, and a derive
  pass that adds and drops a credit (the theorems allow any); persons that are committed
  during a promote come in as late ensembles do, through the walk, and `NobodyComesBack` has the
  same way in without a commit; weights of the connections are numbers
  that compare like the code's logarithms and roots; the text Kumu and Neo4j show is
  left out. Sequences of export steps are those of `load.py`, batches of one step are one.
* Fetch: the parsers that cut a page into fields are left out (a page is what they
  return), names that differ in case only are one value, the rows of a SPARQL answer are
  grouped by item, a run is one step in which a kill may come before any request, and
  two runs never overlap.
* Not modelled at all: the scoring model's arithmetic, parsing of foreign pages and
  titles, read-only queries, the pages of dashboard and frontend, migrations, settings.

The definitions stand for about a third of the lines of the implementation. Most of the
rest is text processing (catalogue numbers, titles, scoring strings, page parsers),
read-only queries and their schemas, and pages.

## 7. Plan

1. Done: builds, bucket, ingestion, persons, rebuild, works, derived passes, gold and
   its exports, the sources and the page mirror.
2. Proofs. Done: builds on Postgres and on SQLite, bucket, ingestion, clustering, person links,
   rebuild, works, derived passes, promotes, the graph, the time a crawl takes. Left: what the
   scrapes yield (section 4, "Only model-checked").
3. Compositions: `IngestRuns` with the swap under it; the authority component bound
   with the clustering it makes equivalent.
4. More of the pure algorithms: catalogue shorthand and ranges, instrumentation,
   payloads of concerts, against reference definitions.
