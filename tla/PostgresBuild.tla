--------------------------- MODULE PostgresBuild ---------------------------
(***************************************************************************)
(* Concurrent builds of one Postgres schema (silver or gold).              *)
(*                                                                         *)
(* Each builder is one call of run_build (build.py) on its own             *)
(* PostgresSchemaTarget (postgres.py); builders are background tasks of    *)
(* the admin API, which read the manifest before they are scheduled, or    *)
(* CLI commands, which do not.  Beside them run the promotes that read     *)
(* this schema under schema_read_lock, and plain sessions whose open       *)
(* transactions keep the tables they touched from being dropped.           *)
(*                                                                         *)
(* A step is one transaction or one lock call, so every interleaving the   *)
(* server allows is a behaviour.  The content of a schema is abstracted to *)
(* the number of build passes committed into it.                           *)
(***************************************************************************)
EXTENDS Naturals

CONSTANTS
    Builders,   \* the callers of run_build
    Cli,        \* those that can start without reading the manifest (the CLI)
    Killable,   \* those whose process may be killed
    Promoters,  \* readers that hold schema_read_lock
    Sessions,   \* readers that hold nothing but an open transaction
    Builds,     \* the names a staging schema can get (uuid4, so never twice)
    NoBuild,    \* no such schema
    Free,       \* the advisory lock has no exclusive holder
    Passes      \* the commits a build makes before it is whole

ASSUME PassesAssumption == Passes \in Nat \ {0}
ASSUME NoBuildAssumption == NoBuild \notin Builds
ASSUME FreeAssumption == Free \notin Builders

VARIABLES
    live,       \* the build whose schema has the live name
    old,        \* the build whose schema has the name <live>_old
    staging,    \* the builds whose staging schema exists
    passes,     \* passes committed into each build's schema
    lock,       \* holder of the exclusive advisory lock
    sharing,    \* promotes holding the shared form of it
    seen,       \* the builds each promote has read from since it took the lock
    open,       \* the build whose tables each session's transaction pins
    manifest,   \* composer_meta.build_manifest: a status and whose it is
    pc,         \* where each builder is
    job,        \* the build each builder is working on
    used,       \* the names drawn so far
    published   \* history: the builds that have been live

schemas == <<live, old, staging, passes>>
locks   == <<lock, sharing>>
readers == <<seen, open>>
builder == <<pc, job, used>>
vars == <<schemas, locks, readers, manifest, builder, published>>

Status == {"none", "running", "completed", "failed"}

\* The builder holds the exclusive lock exactly at these points.
Holding ==
    {"prepare", "adrift", "build", "swapped", "release",
     "abort", "abort_release"}
Locations ==
    {"idle", "queued", "lock", "refused", "completed", "failed"} \union Holding

BeforeSwap == {"lock", "refused", "prepare", "adrift", "build"}
AfterSwap == {"swapped", "release", "completed"}
Begun(b) == pc[b] \notin {"idle", "queued"}

TypeOK ==
    /\ live \in Builds \union {NoBuild}
    /\ old \in Builds \union {NoBuild}
    /\ staging \subseteq Builds
    /\ passes \in [Builds -> 0..Passes]
    /\ lock \in Builders \union {Free}
    /\ sharing \subseteq Promoters
    /\ seen \in [Promoters -> SUBSET Builds]
    /\ open \in [Sessions -> Builds \union {NoBuild}]
    /\ manifest \in [status : Status, build : Builds \union {NoBuild}]
    /\ pc \in [Builders -> Locations]
    /\ job \in [Builders -> Builds \union {NoBuild}]
    /\ used \subseteq Builds
    /\ published \subseteq Builds

Init ==
    /\ live = NoBuild
    /\ old = NoBuild
    /\ staging = {}
    /\ passes = [id \in Builds |-> 0]
    /\ lock = Free
    /\ sharing = {}
    /\ seen = [p \in Promoters |-> {}]
    /\ open = [s \in Sessions |-> NoBuild]
    /\ manifest = [status |-> "none", build |-> NoBuild]
    /\ pc = [b \in Builders |-> "idle"]
    /\ job = [b \in Builders |-> NoBuild]
    /\ used = {}
    /\ published = {}

Goto(b, location) == pc' = [pc EXCEPT ![b] = location]

\* write_manifest: one upsert of the target's only row.
WriteManifest(b, status) == manifest' = [status |-> status, build |-> job[b]]

\* DROP SCHEMA waits for every transaction that touched its tables.
Pinned(id) == id # NoBuild /\ \E s \in Sessions : open[s] = id

-----------------------------------------------------------------------------
(* run_build, from the request to the staging schema.                      *)

\* start_rebuild_silver and start_promote: refuse while the manifest says
\* running, else leave the build to a background task.
Accept(b) ==
    /\ pc[b] = "idle"
    /\ manifest.status # "running"
    /\ Goto(b, "queued")
    /\ UNCHANGED <<schemas, locks, readers, manifest, job, used, published>>

\* The running manifest is written before anything else happens.
Start(b) ==
    /\ pc[b] = "queued" \/ (b \in Cli /\ pc[b] = "idle")
    /\ \E id \in Builds \ used :
        /\ used' = used \union {id}
        /\ job' = [job EXCEPT ![b] = id]
        /\ manifest' = [status |-> "running", build |-> id]
    /\ Goto(b, "lock")
    /\ UNCHANGED <<schemas, locks, readers, published>>

\* Mutant: the lock only looks at other builds, not at the promotes.
TakeLockAmongReaders(b) ==
    /\ pc[b] = "lock"
    /\ lock = Free
    /\ lock' = b
    /\ Goto(b, "prepare")
    /\ UNCHANGED <<schemas, sharing, readers, manifest, job, used, published>>

\* Mutant: the manifest check stands in for the lock.
TakeLockUnchecked(b) ==
    /\ pc[b] = "lock"
    /\ manifest = [status |-> "running", build |-> job[b]]
    /\ lock' = b
    /\ Goto(b, "prepare")
    /\ UNCHANGED <<schemas, sharing, readers, manifest, job, used, published>>

TakeLock(b) ==
    /\ pc[b] = "lock"
    /\ lock = Free /\ sharing = {}
    /\ lock' = b
    /\ Goto(b, "prepare")
    /\ UNCHANGED <<schemas, sharing, readers, manifest, job, used, published>>

\* pg_try_advisory_lock says no: begin raises, and it is called outside the
\* try block of run_build, so nothing writes the manifest again.
Refused(b) ==
    /\ pc[b] = "lock"
    /\ lock # Free \/ sharing # {}
    /\ Goto(b, "refused")
    /\ UNCHANGED <<schemas, locks, readers, manifest, job, used, published>>

\* The caller logs the exception and returns.
Forget(b) ==
    /\ pc[b] = "refused"
    /\ Goto(b, "idle")
    /\ job' = [job EXCEPT ![b] = NoBuild]
    /\ UNCHANGED <<schemas, locks, readers, manifest, used, published>>

\* Mutant: the demoted schema is left for the swap to drop.
PrepareKeepingOld(b) ==
    /\ pc[b] = "prepare"
    /\ staging' = staging \union {job[b]}
    /\ Goto(b, "build")
    /\ UNCHANGED <<live, old, passes, locks, readers, manifest, job, used, published>>

\* The rest of begin: one transaction drops the previous demoted schema and
\* creates the staging schema.
Prepare(b) ==
    /\ pc[b] = "prepare"
    /\ ~Pinned(old)
    /\ old' = NoBuild
    /\ staging' = staging \union {job[b]}
    /\ Goto(b, "build")
    /\ UNCHANGED <<live, passes, locks, readers, manifest, job, used, published>>

\* A reader still on the demoted tables outlasts lock_timeout.  begin raises
\* with the lock connection open and no one to call abort.
PrepareTimesOut(b) ==
    /\ pc[b] = "prepare"
    /\ Pinned(old)
    /\ Goto(b, "adrift")
    /\ UNCHANGED <<schemas, locks, readers, manifest, job, used, published>>

\* The target goes out of scope and its connection, and the lock, with it.
Collect(b) ==
    /\ pc[b] = "adrift"
    /\ lock' = Free
    /\ Goto(b, "idle")
    /\ job' = [job EXCEPT ![b] = NoBuild]
    /\ UNCHANGED <<schemas, sharing, readers, manifest, used, published>>

-----------------------------------------------------------------------------
(* The build, the swap and the two ways out.                               *)

BuildPass(b) ==
    /\ pc[b] = "build"
    /\ passes[job[b]] < Passes
    /\ passes' = [passes EXCEPT ![job[b]] = @ + 1]
    /\ UNCHANGED <<live, old, staging, locks, readers, manifest, builder, published>>

\* The rename transaction of commit.  ALTER SCHEMA ... RENAME fails when the
\* name is taken: then only Raises is left.
Swap(b) ==
    /\ pc[b] = "build"
    /\ passes[job[b]] = Passes
    /\ live = NoBuild \/ old = NoBuild
    /\ old' = IF live = NoBuild THEN old ELSE live
    /\ live' = job[b]
    /\ staging' = staging \ {job[b]}
    /\ published' = published \union {job[b]}
    /\ Goto(b, "swapped")
    /\ UNCHANGED <<passes, locks, readers, manifest, job, used>>

\* Mutant: the demoted schema goes whoever still reads it.
DropDemotedByForce(b) ==
    /\ pc[b] = "swapped"
    /\ old' = NoBuild
    /\ Goto(b, "release")
    /\ UNCHANGED <<live, staging, passes, locks, readers, manifest, job, used, published>>

\* _drop_demoted, best effort: a pinned schema outlasts lock_timeout and stays.
DropDemoted(b) ==
    /\ pc[b] = "swapped"
    /\ old' = IF Pinned(old) THEN old ELSE NoBuild
    /\ Goto(b, "release")
    /\ UNCHANGED <<live, staging, passes, locks, readers, manifest, job, used, published>>

Release(b) ==
    /\ pc[b] = "release"
    /\ lock' = Free
    /\ Goto(b, "completed")
    /\ UNCHANGED <<schemas, sharing, readers, manifest, job, used, published>>

WriteCompleted(b) ==
    /\ pc[b] = "completed"
    /\ WriteManifest(b, "completed")
    /\ Goto(b, "idle")
    /\ job' = [job EXCEPT ![b] = NoBuild]
    /\ UNCHANGED <<schemas, locks, readers, used, published>>

\* An exception or a Ctrl-C reaches the try block: during a pass or the rename
\* (which then rolls back), or while commit waits for _drop_demoted.
Raises(b) ==
    /\ pc[b] \in {"build", "swapped"}
    /\ Goto(b, "abort")
    /\ UNCHANGED <<schemas, locks, readers, manifest, job, used, published>>

\* abort drops the staging schema, or logs that it could not.
Abort(b) ==
    /\ pc[b] = "abort"
    /\ staging' \in {staging \ {job[b]}, staging}
    /\ Goto(b, "abort_release")
    /\ UNCHANGED <<live, old, passes, locks, readers, manifest, job, used, published>>

\* Mutant: the failure path keeps its lock connection.
AbortReleaseForgotten(b) ==
    /\ pc[b] = "abort_release"
    /\ Goto(b, "failed")
    /\ UNCHANGED <<schemas, locks, readers, manifest, job, used, published>>

\* Mutant: the exception is swallowed and run_build reports success.
AbortReleaseSwallowed(b) ==
    /\ pc[b] = "abort_release"
    /\ lock' = Free
    /\ Goto(b, "completed")
    /\ UNCHANGED <<schemas, sharing, readers, manifest, job, used, published>>

AbortRelease(b) ==
    /\ pc[b] = "abort_release"
    /\ lock' = Free
    /\ Goto(b, "failed")
    /\ UNCHANGED <<schemas, sharing, readers, manifest, job, used, published>>

WriteFailed(b) ==
    /\ pc[b] = "failed"
    /\ WriteManifest(b, "failed")
    /\ Goto(b, "idle")
    /\ job' = [job EXCEPT ![b] = NoBuild]
    /\ UNCHANGED <<schemas, locks, readers, used, published>>

\* The process dies: the server ends its session, and the lock with it.
Kill(b) ==
    /\ b \in Killable
    /\ pc[b] # "idle"
    /\ lock' = IF lock = b THEN Free ELSE lock
    /\ Goto(b, "idle")
    /\ job' = [job EXCEPT ![b] = NoBuild]
    /\ UNCHANGED <<schemas, sharing, readers, manifest, used, published>>

-----------------------------------------------------------------------------
(* Readers.                                                                *)

\* schema_read_lock: refused at once while a build holds the lock.
ReadLock(p) ==
    /\ p \notin sharing
    /\ lock = Free
    /\ sharing' = sharing \union {p}
    /\ seen' = [seen EXCEPT ![p] = {}]
    /\ UNCHANGED <<schemas, lock, open, manifest, builder, published>>

\* One statement of a promote: the schema name is resolved when it runs.
ReadStatement(p) ==
    /\ p \in sharing
    /\ live # NoBuild
    /\ seen' = [seen EXCEPT ![p] = @ \union {live}]
    /\ UNCHANGED <<schemas, locks, open, manifest, builder, published>>

\* The promote ends, fails or dies.
ReadUnlock(p) ==
    /\ p \in sharing
    /\ sharing' = sharing \ {p}
    /\ UNCHANGED <<schemas, lock, readers, manifest, builder, published>>

OpenSession(s) ==
    /\ open[s] = NoBuild
    /\ live # NoBuild
    /\ open' = [open EXCEPT ![s] = live]
    /\ UNCHANGED <<schemas, locks, seen, manifest, builder, published>>

CloseSession(s) ==
    /\ open[s] # NoBuild
    /\ open' = [open EXCEPT ![s] = NoBuild]
    /\ UNCHANGED <<schemas, locks, seen, manifest, builder, published>>

-----------------------------------------------------------------------------
Run(b) ==
    \/ Start(b) \/ TakeLock(b) \/ Refused(b) \/ Forget(b)
    \/ Prepare(b) \/ PrepareTimesOut(b) \/ Collect(b)
    \/ BuildPass(b) \/ Swap(b) \/ DropDemoted(b) \/ Release(b) \/ WriteCompleted(b)
    \/ Abort(b) \/ AbortRelease(b) \/ WriteFailed(b)

Read ==
    \/ \E p \in Promoters : ReadLock(p) \/ ReadStatement(p) \/ ReadUnlock(p)
    \/ \E s \in Sessions : OpenSession(s) \/ CloseSession(s)

Next ==
    \/ \E b \in Builders : Accept(b) \/ Run(b) \/ Raises(b) \/ Kill(b)
    \/ Read

Spec == Init /\ [][Next]_vars

\* A thread that has begun run_build keeps executing it; nobody is obliged to
\* ask for a build, to fail, to read or to stop reading.
Fairness == \A b \in Builders : WF_vars(pc[b] # "idle" /\ Run(b))
FairSpec == Spec /\ Fairness
-----------------------------------------------------------------------------
(* Properties.                                                             *)

\* One build at a time (postgres.py:43): every builder between begin and the
\* release of its connection is the lock's holder, and no promote reads then.
OneBuildAtATime ==
    /\ \A b \in Builders : pc[b] \in Holding <=> lock = b
    /\ lock # Free => sharing = {}

\* A swap never feeds a promote "a mix of old and new silver" (postgres.py:60):
\* all the statements it has run so far read the schema that is still live.
PromoteReadsOneBuild ==
    \A p \in sharing : seen[p] \subseteq {live}

\* The rename of commit finds its target name free and its source there: no
\* earlier crash, timeout or failed drop leaves a schema in the way.
SwapNeverCollides ==
    \A b \in Builders :
        pc[b] = "build" => old = NoBuild /\ job[b] \in staging

\* The tables of an open transaction outlive the swap under it, for however
\* many builds it stays open.
PinnedTablesSurvive ==
    \A s \in Sessions : open[s] # NoBuild => open[s] \in {live, old}

\* A builder that has begun owns a name: drawn once, never shared, and live
\* exactly after the swap.
NamesAreOwned ==
    /\ staging \union published \subseteq used
    /\ \A b \in Builders : Begun(b) =>
        /\ job[b] \in used
        /\ \A c \in Builders \ {b} : Begun(c) => job[c] # job[b]
        /\ pc[b] \in BeforeSwap => job[b] \notin published
        /\ pc[b] \in AfterSwap => job[b] \in published

\* Whatever was published is whole, and nothing else is live or reported.
PublishedIsWhole ==
    /\ \A id \in published : passes[id] = Passes
    /\ live # NoBuild => live \in published
    /\ manifest.status = "completed" => manifest.build \in published

\* The inductive invariant: what an interleaving of builds and readers keeps.
IInv ==
    /\ TypeOK
    /\ OneBuildAtATime
    /\ PromoteReadsOneBuild
    /\ SwapNeverCollides
    /\ PinnedTablesSurvive
    /\ NamesAreOwned
    /\ PublishedIsWhole

\* The view a reader has of the live schema: a whole build or nothing.
Visible ==
    IF live = NoBuild THEN NoBuild
    ELSE IF passes[live] = Passes THEN live ELSE "half-built"

Claimed == IF manifest.status = "completed" THEN manifest.build ELSE NoBuild

Promise == INSTANCE AtomicSwap WITH current <- Visible, claim <- Claimed

\* The swap keeps the promise of build.py's docstring: readers go from one
\* whole build to another, and only a published build is called completed.
ImplementsPromise == Promise!Spec

\* Every build that takes the lock gives it back, whatever fails on the way.
LockComesBack ==
    \A b \in Builders : lock = b ~> lock # b

\* build_routes.py:197: a background rebuild that raised is "recorded as a
\* failed manifest", so none leaves its own "running" behind.
RaisedIsRecorded ==
    \A b \in Builders :
        pc[b] = "refused" =>
            manifest # [status |-> "running", build |-> job[b]]

\* build.py:187: on failure "the live database stays untouched".
FailedWasNeverLive ==
    manifest.status = "failed" => manifest.build \notin published

\* postgres.py:146: a staging schema abort could not drop, "the next rebuild
\* will": once a build has begun, its own is the only one.
BeginClearsStaging ==
    \A b \in Builders : pc[b] = "build" => staging = {job[b]}
=============================================================================
