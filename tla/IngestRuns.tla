----------------------------- MODULE IngestRuns -----------------------------
(***************************************************************************)
(* Loads of snapshots into silver, each an IngestRun (ingestion/runner.py, *)
(* core.py), from the API, which refuses a source that has a running load, *)
(* or from the CLI, which does not look.                                   *)
(*                                                                         *)
(* A load reads what it needs to know of the database once, at its start,  *)
(* and then relies on those caches; it commits every Batch documents.      *)
(* Rows are unique per source and external id, entities per key over all   *)
(* sources, so two loads can collide: the later flush waits for the        *)
(* earlier transaction and then fails.  Entity records and work mentions   *)
(* take the same path here and are both "documents"; the works a mention   *)
(* resolves to, labels and timestamps are left out.                        *)
(***************************************************************************)
EXTENDS Naturals, Sequences, FiniteSets

CONSTANTS
    Runs,       \* loads
    Cli,        \* those started by a command
    Sources,
    SourceOf,   \* the source of each load
    Ids,        \* external ids
    Mentions,   \* those of work mentions; the others are of entity records
    Contents,   \* versions of a document's content
    Names,      \* entity keys
    Feeds,      \* the documents a snapshot can hold, in order
    Batch,      \* COMMIT_BATCH
    NoRow       \* no such row

Doc == [id : Ids, content : Contents, entity : Names, objects : SUBSET Names]

ASSUME SourceOfAssumption == SourceOf \in [Runs -> Sources]
ASSUME FeedsAssumption == Feeds \subseteq Seq(Doc)
ASSUME BatchAssumption == Batch \in Nat \ {0}

VARIABLES
    rows,       \* committed documents, per source and id
    entities,   \* committed entities
    log,        \* the committed ingest_runs row of each load
    pc,         \* where each load is
    feed,       \* what it loads
    seen,       \* state.seen
    new,        \* state.new
    known,      \* its cache of contents by id
    minted,     \* its cache of entities
    written,    \* rows it has flushed and not committed
    inserted,   \* entities it has flushed and not committed
    pending,    \* entities it has added and not flushed
    alone       \* history: no other load of its source ran beside it

database == <<rows, entities, log>>
counters == <<seen, new>>
caches == <<known, minted>>
transaction == <<written, inserted, pending>>
vars == <<database, pc, feed, counters, caches, transaction, alone>>

Row == [content : Contents, entity : Names, first : Runs, last : Runs]

ASSUME NoRowAssumption == NoRow \notin Contents \union Row

Working == {"created", "loop", "batch", "clean", "dirty", "finalize"}
Locations == {"idle", "accepted", "completed", "failed", "crashed", "dead"} \union Working

TypeOK ==
    /\ rows \in [Sources \X Ids -> Row \union {NoRow}]
    /\ entities \subseteq Names
    /\ log \in [Runs -> [status : {"none", "running", "completed", "failed"}, seen : Nat, new : Nat]]
    /\ pc \in [Runs -> Locations]
    /\ feed \in [Runs -> Feeds \union {<<>>}]
    /\ seen \in [Runs -> Nat] /\ \A r \in Runs : seen[r] <= Len(feed[r])
    /\ new \in [Runs -> Nat] /\ \A r \in Runs : new[r] <= seen[r]
    /\ known \in [Runs -> [Ids -> Contents \union {NoRow}]]
    /\ minted \in [Runs -> SUBSET Names]
    /\ written \in [Runs -> [Ids -> Row \union {NoRow}]]
    /\ inserted \in [Runs -> SUBSET Names]
    /\ pending \in [Runs -> SUBSET Names]
    /\ alone \in [Runs -> BOOLEAN]

Nothing == [i \in Ids |-> NoRow]

Init ==
    /\ rows = [k \in Sources \X Ids |-> NoRow]
    /\ entities = {}
    /\ log = [r \in Runs |-> [status |-> "none", seen |-> 0, new |-> 0]]
    /\ pc = [r \in Runs |-> "idle"]
    /\ feed = [r \in Runs |-> <<>>]
    /\ seen = [r \in Runs |-> 0]
    /\ new = [r \in Runs |-> 0]
    /\ known = [r \in Runs |-> Nothing]
    /\ minted = [r \in Runs |-> {}]
    /\ written = [r \in Runs |-> Nothing]
    /\ inserted = [r \in Runs |-> {}]
    /\ pending = [r \in Runs |-> {}]
    /\ alone = [r \in Runs |-> TRUE]

-----------------------------------------------------------------------------
(* Rows, locks and constraints.                                            *)

Key(r, i) == <<SourceOf[r], i>>
SameSource(r) == {q \in Runs \ {r} : SourceOf[q] = SourceOf[r]}

\* A row as the load sees it: its own version, else the committed one.
Visible(r, i) == IF written[r][i] # NoRow THEN written[r][i] ELSE rows[Key(r, i)]

\* Flushing these entities (and a row) meets another load's transaction...
Waits(r, names) == \E q \in Runs \ {r} : inserted[q] \intersect names # {}
WaitsForRow(r, i) == \E q \in SameSource(r) : written[q][i] # NoRow

\* ... or a committed duplicate: IntegrityError.
Flushable(r, names) == names \intersect entities = {} /\ ~Waits(r, names)

Goto(r, location) == pc' = [pc EXCEPT ![r] = location]

Discard(r) ==
    /\ written' = [written EXCEPT ![r] = Nothing]
    /\ inserted' = [inserted EXCEPT ![r] = {}]
    /\ pending' = [pending EXCEPT ![r] = {}]

\* session.commit(), which flushes what is pending first.
Publish(r) ==
    /\ rows' = [k \in Sources \X Ids |->
            IF k[1] = SourceOf[r] /\ written[r][k[2]] # NoRow
            THEN written[r][k[2]] ELSE rows[k]]
    /\ entities' = entities \union inserted[r] \union pending[r]
    /\ Discard(r)

Finalize(r, status) ==
    log' = [log EXCEPT ![r] = [status |-> status, seen |-> seen[r], new |-> new[r]]]

\* The load returns, or its process ends: its local state is gone.
Leave(r, location) ==
    /\ Goto(r, location)
    /\ seen' = [seen EXCEPT ![r] = 0]
    /\ new' = [new EXCEPT ![r] = 0]
    /\ known' = [known EXCEPT ![r] = Nothing]
    /\ minted' = [minted EXCEPT ![r] = {}]

-----------------------------------------------------------------------------
(* Opening a run.                                                          *)

\* process_snapshot: has_running is asked in one transaction ...
Accept(r) ==
    /\ pc[r] = "idle"
    /\ ~\E q \in SameSource(r) : log[q].status = "running"
    /\ Goto(r, "accepted")
    /\ UNCHANGED <<database, feed, counters, caches, transaction, alone>>

\* ... and create_run commits the row in another.
Create(r) ==
    /\ pc[r] = "accepted" \/ (r \in Cli /\ pc[r] = "idle")
    /\ Finalize(r, "running")
    /\ LET beside == {q \in SameSource(r) : pc[q] \in Working}
       IN  alone' = [q \in Runs |->
                IF q \in beside \/ (q = r /\ beside # {}) THEN FALSE ELSE alone[q]]
    /\ \E f \in Feeds : feed' = [feed EXCEPT ![r] = f]
    /\ Goto(r, "created")
    /\ UNCHANGED <<rows, entities, counters, caches, transaction>>

LoadState(r) ==
    /\ pc[r] = "created"
    /\ known' = [known EXCEPT ![r] = [i \in Ids |->
            IF rows[Key(r, i)] = NoRow THEN NoRow ELSE rows[Key(r, i)].content]]
    /\ minted' = [minted EXCEPT ![r] = entities]
    /\ Goto(r, "loop")
    /\ UNCHANGED <<database, feed, counters, transaction, alone>>

-----------------------------------------------------------------------------
(* The loop of run_ingest_records.                                         *)

More(r) == pc[r] = "loop" /\ seen[r] < Len(feed[r])
Item(r) == feed[r][seen[r] + 1]

\* Whether the content changed is asked of the cache, not of the row.
Changed(r) == Item(r).content # known[r][Item(r).id]

\* Who it is about is read of a document that is new, and of a mention that changed.
ReadsEntity(r) == Changed(r) /\ (known[r][Item(r).id] = NoRow \/ Item(r).id \in Mentions)

\* The entities that go to the database with the item: those the last one left
\* pending and whom it is about.
ToFlush(r) ==
    pending[r] \union (IF ReadsEntity(r) THEN {Item(r).entity} \ minted[r] ELSE {})

Passed(r) ==
    /\ seen' = [seen EXCEPT ![r] = @ + 1]
    /\ Goto(r, IF (seen[r] + 1) % Batch = 0 THEN "batch" ELSE "loop")

\* The item's row and what it mints; the objects of its claims stay pending.
Store(r, row) ==
    /\ written' = [written EXCEPT ![r][Item(r).id] = row]
    /\ inserted' = [inserted EXCEPT ![r] = @ \union ToFlush(r)]
    /\ minted' = [minted EXCEPT ![r] = @ \union {row.entity} \union Item(r).objects]
    /\ pending' = [pending EXCEPT ![r] = Item(r).objects \ (minted[r] \union {row.entity})]
    /\ known' = [known EXCEPT ![r][Item(r).id] = Item(r).content]

IngestNew(r) ==
    /\ More(r)
    /\ known[r][Item(r).id] = NoRow
    /\ Flushable(r, ToFlush(r)) /\ ~WaitsForRow(r, Item(r).id)
    /\ rows[Key(r, Item(r).id)] = NoRow
    /\ Store(r, [content |-> Item(r).content, entity |-> Item(r).entity, first |-> r, last |-> r])
    /\ new' = [new EXCEPT ![r] = @ + 1]
    /\ Passed(r)
    /\ UNCHANGED <<database, feed, alone>>

\* Mutant: a document that is known keeps its stored content.
IngestKnownUnchanged(r) ==
    /\ More(r)
    /\ known[r][Item(r).id] # NoRow
    /\ Flushable(r, ToFlush(r)) /\ ~WaitsForRow(r, Item(r).id)
    /\ Store(r, [Visible(r, Item(r).id) EXCEPT !.last = r])
    /\ Passed(r)
    /\ UNCHANGED <<database, new, feed, alone>>

IngestKnown(r) ==
    /\ More(r)
    /\ known[r][Item(r).id] # NoRow
    /\ Flushable(r, ToFlush(r)) /\ ~WaitsForRow(r, Item(r).id)
    /\ Store(r, [Visible(r, Item(r).id) EXCEPT
            !.content = IF Changed(r) THEN Item(r).content ELSE @,
            !.entity = IF ReadsEntity(r) THEN Item(r).entity ELSE @,
            !.last = r])
    /\ Passed(r)
    /\ UNCHANGED <<database, new, feed, alone>>

\* A duplicate key, or a lock that is not given in time: the flush fails and
\* the session can only roll back.  SQLite refuses the lock to the first write of a
\* transaction, and when that is an UPDATE the session is still good.
IngestFails(r) ==
    /\ More(r)
    /\ \/ ~Flushable(r, ToFlush(r))
       \/ WaitsForRow(r, Item(r).id)
       \/ known[r][Item(r).id] = NoRow /\ rows[Key(r, Item(r).id)] # NoRow
    /\ seen' = [seen EXCEPT ![r] = @ + 1]
    /\ \/ Goto(r, "dirty")
       \/ ToFlush(r) = {} /\ written[r] = Nothing /\ WaitsForRow(r, Item(r).id) /\ Goto(r, "clean")
    /\ UNCHANGED <<database, new, feed, caches, transaction, alone>>

\* The records iterator raises: the session is still good.
SourceRaises(r) ==
    /\ pc[r] = "loop"
    /\ Goto(r, "clean")
    /\ UNCHANGED <<database, feed, counters, caches, transaction, alone>>

\* Mutant: the timestamps are flushed, the transaction stays open.
CommitBatchForgotten(r) ==
    /\ pc[r] = "batch"
    /\ Flushable(r, pending[r])
    /\ Discard(r)
    /\ Goto(r, "loop")
    /\ UNCHANGED <<database, feed, counters, caches, alone>>

CommitBatch(r) ==
    /\ pc[r] = "batch"
    /\ Flushable(r, pending[r])
    /\ Publish(r)
    /\ Goto(r, "loop")
    /\ UNCHANGED <<log, feed, counters, caches, alone>>

BatchFails(r) ==
    /\ pc[r] = "batch"
    /\ ~Flushable(r, pending[r])
    /\ Goto(r, "dirty")
    /\ UNCHANGED <<database, feed, counters, caches, transaction, alone>>

-----------------------------------------------------------------------------
(* The ends of a run.                                                      *)

\* The except clause commits what was ingested so far ...
Salvage(r) ==
    /\ pc[r] = "clean"
    /\ Flushable(r, pending[r])
    /\ Publish(r)
    /\ Goto(r, "finalize")
    /\ UNCHANGED <<log, feed, counters, caches, alone>>

\* Mutant: the run goes on in a new transaction, with the caches of the old.
RollbackAndGoOn(r) ==
    /\ pc[r] = "dirty" \/ (pc[r] = "clean" /\ ~Flushable(r, pending[r]))
    /\ Discard(r)
    /\ Goto(r, "loop")
    /\ UNCHANGED <<database, feed, counters, caches, alone>>

\* ... or cannot.
Rollback(r) ==
    /\ pc[r] = "dirty" \/ (pc[r] = "clean" /\ ~Flushable(r, pending[r]))
    /\ Discard(r)
    /\ Goto(r, "finalize")
    /\ UNCHANGED <<database, feed, counters, caches, alone>>

FinalizeFailed(r) ==
    /\ pc[r] = "finalize"
    /\ Finalize(r, "failed")
    /\ Leave(r, "failed")
    /\ UNCHANGED <<rows, entities, feed, transaction, alone>>

\* The last partial batch and the finished run share one transaction.
Complete(r) ==
    /\ pc[r] = "loop"
    /\ seen[r] = Len(feed[r])
    /\ Flushable(r, pending[r])
    /\ Publish(r)
    /\ Finalize(r, "completed")
    /\ Leave(r, "completed")
    /\ UNCHANGED <<feed, alone>>

\* The trailing flush, or that commit, fails: neither is in a try block.
CompleteFails(r) ==
    /\ pc[r] = "loop"
    /\ seen[r] = Len(feed[r])
    /\ ~Flushable(r, pending[r])
    /\ Discard(r)
    /\ Leave(r, "crashed")
    /\ UNCHANGED <<database, feed, alone>>

Kill(r) ==
    /\ pc[r] \in Working
    /\ Discard(r)
    /\ Leave(r, "dead")
    /\ UNCHANGED <<database, feed, alone>>

-----------------------------------------------------------------------------
Load(r) ==
    \/ Accept(r) \/ Create(r) \/ LoadState(r)
    \/ IngestNew(r) \/ IngestKnown(r) \/ IngestFails(r) \/ SourceRaises(r)
    \/ CommitBatch(r) \/ BatchFails(r)
    \/ Salvage(r) \/ Rollback(r) \/ FinalizeFailed(r)
    \/ Complete(r) \/ CompleteFails(r) \/ Kill(r)

Next == \E r \in Runs : Load(r)

Spec == Init /\ [][Next]_vars
-----------------------------------------------------------------------------
(* Properties.                                                             *)

Stored(r, i) == rows[Key(r, i)] # NoRow
FedIds(r) == {feed[r][n].id : n \in 1..Len(feed[r])}
FirstSeen(r) == {i \in Ids : Stored(r, i) /\ rows[Key(r, i)].first = r}

\* A run that says completed has every document of its snapshot in the
\* database, whatever other loads did meanwhile.
CompletedIsStored ==
    \A r \in Runs : log[r].status = "completed" => \A i \in FedIds(r) : Stored(r, i)

\* records_new of a completed run is the number of documents it added, no
\* matter how its batches and other loads' interleaved; a failed run never
\* claims fewer than it added.
CountsAreHonest ==
    \A r \in Runs :
        /\ log[r].status = "completed" => log[r].new = Cardinality(FirstSeen(r))
        /\ log[r].status = "failed" => log[r].new >= Cardinality(FirstSeen(r))

\* "If its content differs from what's stored, that's updated too" (README,
\* Ingest flow): what is stored says what the load that saw it last said.
SaysTheLast(r) ==
    log[r].status = "completed" =>
        \A i \in FedIds(r) :
            rows[Key(r, i)].last = r =>
                LET n == CHOOSE m \in 1..Len(feed[r]) :
                        /\ feed[r][m].id = i
                        /\ \A l \in (m + 1)..Len(feed[r]) : feed[r][l].id # i
                IN  rows[Key(r, i)].content = feed[r][n].content

\* It holds of every load that had its source to itself.
LastSightingWins == \A r \in Runs : alone[r] => SaysTheLast(r)

\* The claim as the README makes it, of every load.
ContentIsUpdated == \A r \in Runs : SaysTheLast(r)

\* "A mid-run failure commits what was ingested so far and marks the run
\* failed with partial counts" (README, Ingest flow).
PartialCountsAreExact ==
    \A r \in Runs :
        log[r].status = "failed" => log[r].new = Cardinality(FirstSeen(r))

\* execute_run ingests the records "into the already-created run and finalizes
\* it" (runner.py:36): a run whose process lives is not left running.
RunsAreFinalized ==
    \A r \in Runs : pc[r] = "crashed" => log[r].status # "running"

-----------------------------------------------------------------------------
(* The inductive invariant.                                                *)

\* The ends of a run are where its log says, and only a load in its loop, or
\* on its way out of it, has a transaction.
PhaseOf(r) ==
    /\ log[r].status = "completed" <=> pc[r] = "completed"
    /\ log[r].status = "failed" <=> pc[r] = "failed"
    /\ pc[r] \notin {"loop", "batch", "clean", "dirty"} => written[r] = Nothing
    /\ pc[r] \in {"idle", "accepted", "created"} => seen[r] = 0 /\ new[r] = 0

\* At most one load holds a row, ...
OneWriter ==
    \A q, r \in Runs, i \in Ids :
        q # r /\ SourceOf[q] = SourceOf[r] => written[q][i] = NoRow \/ written[r][i] = NoRow

\* ... and what it holds is a version of the committed one, or its own.
Descends(r) ==
    \A i \in Ids :
        written[r][i] # NoRow =>
            /\ written[r][i].last = r
            /\ rows[Key(r, i)] = NoRow => written[r][i].first = r
            /\ rows[Key(r, i)] # NoRow => written[r][i].first = rows[Key(r, i)].first

\* What the cache knows is there; what it does not know this load has not
\* written, though another may have.
CacheIsStored(r) ==
    pc[r] \in {"loop", "batch"} =>
        \A i \in Ids :
            IF known[r][i] = NoRow THEN written[r][i] = NoRow ELSE Visible(r, i) # NoRow

\* m is where the first k documents of the feed last mention document n's id.
LastAt(r, n, m, k) ==
    /\ feed[r][m].id = feed[r][n].id
    /\ \A l \in (m + 1)..k : feed[r][l].id # feed[r][n].id

\* The cache says what the feed last said.
CacheSaysTheLast(r) ==
    pc[r] \in {"loop", "batch"} =>
        \A n \in 1..seen[r] :
            \E m \in 1..seen[r] :
                LastAt(r, n, m, seen[r]) /\ known[r][feed[r][n].id] = feed[r][m].content

\* The documents the load was the first to see, as the load sees them.
Mine(r) == {i \in Ids : Visible(r, i) # NoRow /\ Visible(r, i).first = r}

CountOf(r) ==
    /\ pc[r] \in {"idle", "accepted", "created", "loop", "batch", "clean", "dirty"} =>
        IsFiniteSet(Mine(r)) /\ Cardinality(Mine(r)) = new[r]
    /\ pc[r] = "finalize" => IsFiniteSet(Mine(r)) /\ Cardinality(Mine(r)) <= new[r]
    /\ pc[r] = "completed" => IsFiniteSet(Mine(r)) /\ Cardinality(Mine(r)) = log[r].new
    /\ pc[r] = "failed" => IsFiniteSet(Mine(r)) /\ Cardinality(Mine(r)) <= log[r].new

\* A load that has its source to itself knows what is in the database.
AloneIsTrue(r) ==
    alone[r] /\ pc[r] \in Working =>
        /\ \A q \in SameSource(r) : pc[q] \notin Working
        /\ pc[r] \in {"loop", "batch"} =>
            \A i \in Ids : known[r][i] # NoRow => Visible(r, i).content = known[r][i]

CompletedOf(r) ==
    pc[r] = "completed" =>
        \A n \in 1..Len(feed[r]) :
            LET row == rows[Key(r, feed[r][n].id)] IN
            /\ row # NoRow
            /\ alone[r] /\ row.last = r =>
                \E m \in 1..Len(feed[r]) :
                    LastAt(r, n, m, Len(feed[r])) /\ row.content = feed[r][m].content

IInv ==
    /\ TypeOK
    /\ OneWriter
    /\ \A r \in Runs :
        /\ PhaseOf(r) /\ Descends(r)
        /\ CacheIsStored(r) /\ CacheSaysTheLast(r)
        /\ CountOf(r) /\ AloneIsTrue(r) /\ CompletedOf(r)
=============================================================================
