---------------------------- MODULE SqliteBuild ----------------------------
(***************************************************************************)
(* Concurrent builds of one SQLite database file.                          *)
(*                                                                         *)
(* Each builder is one call of run_build (build.py) on its own             *)
(* SqliteFileTarget for the same path, so all of them stage into the one   *)
(* file <path>.tmp.  Paths and files are told apart the way a POSIX file   *)
(* system does: a path names a file, an open engine keeps the file it      *)
(* opened whatever happens to the path.  A file's content is abstracted to *)
(* the set of passes written into it, each tagged with the build that      *)
(* wrote it.                                                               *)
(***************************************************************************)
EXTENDS Naturals

CONSTANTS
    Builders,   \* the callers of run_build
    Cli,        \* those that can start without reading the manifest (the CLI)
    Killable,   \* those whose process may be killed
    Readers,    \* processes with the live database open: promotes, APIs
    Builds,     \* the runs of run_build, each with its own manifest object
    NoBuild,    \* no build
    Files,      \* the inodes of the file system
    NoFile,     \* a path that names nothing
    Passes      \* the commits a build makes before it is whole

ASSUME PassesAssumption == Passes \in Nat \ {0}
ASSUME NoBuildAssumption == NoBuild \notin Builds
ASSUME NoFileAssumption == NoFile \notin Files

VARIABLES
    live,       \* the file <path> names
    tmp,        \* the file <path>.tmp names
    data,       \* the passes written into each file
    handle,     \* the file each builder's engine has open
    view,       \* the file each reader has open
    manifest,   \* <path>.manifest.json: a status and whose it is
    pc,         \* where each builder is
    job,        \* the build each builder is working on
    done,       \* the passes that build has finished
    used,       \* the builds begun so far
    published   \* history: the builds whose commit has replaced the live file

paths == <<live, tmp>>
vars == <<paths, data, handle, view, manifest, pc, job, done, used, published>>

Status == {"none", "running", "completed", "failed"}
Locations == {"idle", "queued", "begin", "build", "replaced", "abort", "failed"}
Content == SUBSET (Builds \X (1..Passes))

TypeOK ==
    /\ {live, tmp} \subseteq Files \union {NoFile}
    /\ data \in [Files -> Content]
    /\ handle \in [Builders -> Files \union {NoFile}]
    /\ view \in [Readers -> Files \union {NoFile}]
    /\ manifest \in [status : Status, build : Builds \union {NoBuild}]
    /\ pc \in [Builders -> Locations]
    /\ job \in [Builders -> Builds \union {NoBuild}]
    /\ done \in [Builders -> 0..Passes]
    /\ {used, published} \subseteq SUBSET Builds

Init ==
    /\ live = NoFile
    /\ tmp = NoFile
    /\ data = [f \in Files |-> {}]
    /\ handle = [b \in Builders |-> NoFile]
    /\ view = [r \in Readers |-> NoFile]
    /\ manifest = [status |-> "none", build |-> NoBuild]
    /\ pc = [b \in Builders |-> "idle"]
    /\ job = [b \in Builders |-> NoBuild]
    /\ done = [b \in Builders |-> 0]
    /\ used = {}
    /\ published = {}

Goto(b, location) == pc' = [pc EXCEPT ![b] = location]

\* write_build_manifest: the file is rewritten in place.
WriteManifest(b, status) == manifest' = [status |-> status, build |-> job[b]]

Close(b) == handle' = [handle EXCEPT ![b] = NoFile]

\* A file no path names and no process has open has been given back.
Unlinked(f) ==
    /\ f \notin {live, tmp}
    /\ \A b \in Builders : handle[b] # f
    /\ \A r \in Readers : view[r] # f

-----------------------------------------------------------------------------
\* start_rebuild_silver and start_promote: refuse while the manifest says
\* running, else leave the build to a background task.
Accept(b) ==
    /\ pc[b] = "idle"
    /\ manifest.status # "running"
    /\ Goto(b, "queued")
    /\ UNCHANGED <<paths, data, handle, view, manifest, job, done, used, published>>

Start(b) ==
    /\ pc[b] = "queued" \/ (b \in Cli /\ pc[b] = "idle")
    /\ \E id \in Builds \ used :
        /\ used' = used \union {id}
        /\ job' = [job EXCEPT ![b] = id]
        /\ manifest' = [status |-> "running", build |-> id]
    /\ done' = [done EXCEPT ![b] = 0]
    /\ Goto(b, "begin")
    /\ UNCHANGED <<paths, data, handle, view, published>>

\* Mutant: a staging file left behind by a crash is built on.
BeginOnLeftovers(b) ==
    /\ pc[b] = "begin"
    /\ Goto(b, "build")
    /\ UNCHANGED <<paths, data, handle, view, manifest, job, done, used, published>>

\* begin: unlink <path>.tmp, whoever it belongs to, and make an engine, which
\* opens nothing yet.
Begin(b) ==
    /\ pc[b] = "begin"
    /\ tmp' = NoFile
    /\ Goto(b, "build")
    /\ UNCHANGED <<live, data, handle, view, manifest, job, done, used, published>>

\* The engine's first connection opens <path>.tmp, creating it if it is not
\* there, and with it the tables.
OpenStaging(b) ==
    /\ pc[b] = "build"
    /\ handle[b] = NoFile
    /\ \/ /\ tmp # NoFile
          /\ handle' = [handle EXCEPT ![b] = tmp]
          /\ UNCHANGED <<tmp, data>>
       \/ /\ tmp = NoFile
          /\ \E f \in Files :
              /\ Unlinked(f)
              /\ tmp' = f
              /\ data' = [data EXCEPT ![f] = {}]
              /\ handle' = [handle EXCEPT ![b] = f]
    /\ UNCHANGED <<live, view, manifest, pc, job, done, used, published>>

\* One transaction, into the file that is open.  (SQLite may refuse to begin
\* one on a file that has lost its path: that is Raises.)
BuildPass(b) ==
    /\ pc[b] = "build"
    /\ handle[b] # NoFile
    /\ done[b] < Passes
    /\ done' = [done EXCEPT ![b] = @ + 1]
    /\ data' = [data EXCEPT ![handle[b]] = @ \union {<<job[b], done[b] + 1>>}]
    /\ UNCHANGED <<paths, handle, view, manifest, pc, job, used, published>>

\* commit: os.replace gives the live path to whatever file <path>.tmp names.
\* When it names nothing the call raises: Raises.
Commit(b) ==
    /\ pc[b] = "build"
    /\ done[b] = Passes
    /\ tmp # NoFile
    /\ Close(b)
    /\ live' = tmp
    /\ tmp' = NoFile
    /\ published' = published \union {job[b]}
    /\ Goto(b, "replaced")
    /\ UNCHANGED <<data, view, manifest, job, done, used>>

WriteCompleted(b) ==
    /\ pc[b] = "replaced"
    /\ WriteManifest(b, "completed")
    /\ Goto(b, "idle")
    /\ UNCHANGED <<paths, data, handle, view, job, done, used, published>>

\* An exception or a Ctrl-C anywhere in the build, or a commit with no file.
Raises(b) ==
    /\ pc[b] = "build"
    /\ Goto(b, "abort")
    /\ UNCHANGED <<paths, data, handle, view, manifest, job, done, used, published>>

\* abort: dispose, and unlink <path>.tmp, whoever it belongs to.
Abort(b) ==
    /\ pc[b] = "abort"
    /\ Close(b)
    /\ tmp' = NoFile
    /\ Goto(b, "failed")
    /\ UNCHANGED <<live, data, view, manifest, job, done, used, published>>

\* Mutant: an aborted build is reported like any other.
WriteFailedAsCompleted(b) ==
    /\ pc[b] = "failed"
    /\ WriteManifest(b, "completed")
    /\ Goto(b, "idle")
    /\ UNCHANGED <<paths, data, handle, view, job, done, used, published>>

WriteFailed(b) ==
    /\ pc[b] = "failed"
    /\ WriteManifest(b, "failed")
    /\ Goto(b, "idle")
    /\ UNCHANGED <<paths, data, handle, view, job, done, used, published>>

\* The process dies: its files are closed, <path>.tmp and the manifest stay.
Kill(b) ==
    /\ b \in Killable
    /\ pc[b] # "idle"
    /\ Close(b)
    /\ Goto(b, "idle")
    /\ UNCHANGED <<paths, data, view, manifest, job, done, used, published>>

-----------------------------------------------------------------------------
\* A reader opens the live path and keeps the file across a swap, until its
\* pool is disposed (dispose_db) or its process ends.
OpenLive(r) ==
    /\ view[r] = NoFile
    /\ live # NoFile
    /\ view' = [view EXCEPT ![r] = live]
    /\ UNCHANGED <<paths, data, handle, manifest, pc, job, done, used, published>>

CloseLive(r) ==
    /\ view[r] # NoFile
    /\ view' = [view EXCEPT ![r] = NoFile]
    /\ UNCHANGED <<paths, data, handle, manifest, pc, job, done, used, published>>

-----------------------------------------------------------------------------
Run(b) ==
    \/ Start(b) \/ Begin(b) \/ OpenStaging(b) \/ BuildPass(b)
    \/ Commit(b) \/ WriteCompleted(b) \/ Abort(b) \/ WriteFailed(b)

Next ==
    \/ \E b \in Builders : Accept(b) \/ Run(b) \/ Raises(b) \/ Kill(b)
    \/ \E r \in Readers : OpenLive(r) \/ CloseLive(r)

Spec == Init /\ [][Next]_vars

-----------------------------------------------------------------------------
(* Properties.                                                             *)

\* The file is the whole work of one build and of no other.
WholeBuild(f, id) == data[f] = {id} \X (1..Passes)

\* build.py:3 "readers never see a half-built result": what a reader has open,
\* or could open now, is the whole work of a single build.
NothingHalfBuilt ==
    \A f \in ({live} \union {view[r] : r \in Readers}) \ {NoFile} :
        \E id \in Builds : WholeBuild(f, id)

Visible ==
    IF live = NoFile THEN NoBuild
    ELSE IF \E id \in Builds : WholeBuild(live, id)
    THEN CHOOSE id \in Builds : WholeBuild(live, id)
    ELSE "half-built"

Claimed == IF manifest.status = "completed" THEN manifest.build ELSE NoBuild

Promise == INSTANCE AtomicSwap WITH current <- Visible, claim <- Claimed

\* A lone builder, killed and restarted at will, keeps the promise of
\* build.py's docstring: whole build to whole build, and only a published
\* build is called completed.
ImplementsPromise == Promise!Spec
=============================================================================
