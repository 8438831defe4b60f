------------------------------ MODULE Snapshots ------------------------------
(***************************************************************************)
(* The bronze bucket of one source: fetches that write snapshots, the      *)
(* abandon endpoint that closes the ones a kill left running, and the      *)
(* loads that read finished ones.                                          *)
(*                                                                         *)
(* A snapshot is a directory with a manifest and a file of records, and is *)
(* named after the one fetch that writes it.  A manifest is written by     *)
(* truncating its file and then filling it (Path.write_text), so a reader  *)
(* or a kill can come between the two; a record is flushed on its own, so  *)
(* a kill never takes an earlier one away.  What a record says is left     *)
(* out: a file is the number of records that can be read from it.          *)
(***************************************************************************)
EXTENDS Naturals, FiniteSets

CONSTANTS
    Snaps,          \* snapshot ids, one per fetch
    Legacy,         \* snapshots written before there were manifests
    Operators,      \* requests to the abandon endpoint
    Loads,          \* runs of process
    MaxRecords,     \* the documents a source yields, at most
    NoFile,         \* records.ndjson does not exist
    NoSnap          \* an operator or load that is on no snapshot

ASSUME MaxRecordsAssumption == MaxRecords \in Nat
ASSUME LegacyAssumption == Legacy \subseteq Snaps
ASSUME NoFileAssumption == NoFile \notin Nat
ASSUME NoSnapAssumption == NoSnap \notin Snaps

VARIABLES
    manifest,   \* status and record_count of each snapshot's manifest.json
    file,       \* readable records in each records.ndjson
    fetch,      \* where the fetch of each snapshot is
    count,      \* its local variable count
    outcome,    \* the status it will finish with
    abandon,    \* where each abandon request is, on what, with what count
    load,       \* where each load is, on what, and how many records it read
    misjudged   \* history: snapshots abandoned while their fetch was alive

fetches == <<fetch, count, outcome>>
snapshots == <<manifest, file, fetches, abandon, load, misjudged>>

\* "absent": no directory; "bare": a directory without a manifest, listed as
\* "unknown"; "torn": truncated and not yet (or never) filled.
Status == {"absent", "bare", "torn", "running", "completed", "failed"}
Finished == {"completed", "failed"}

FetchLocations ==
    {"none", "queued", "mkdir", "open_manifest", "fill_manifest", "open_records",
     "next", "written", "reopen_manifest", "refill_manifest", "done", "dead"}

BucketTypeOK ==
    /\ manifest \in [Snaps -> [status : Status, count : 0..MaxRecords]]
    /\ file \in [Snaps -> (0..MaxRecords) \union {NoFile}]
    /\ fetch \in [Snaps -> FetchLocations]
    /\ count \in [Snaps -> 0..MaxRecords]
    /\ outcome \in [Snaps -> Finished]
    /\ abandon \in [Operators ->
            [at : {"idle", "count", "truncate", "fill", "error"},
             snap : Snaps \union {NoSnap}, n : 0..MaxRecords]]
    /\ load \in [Loads ->
            [at : {"idle", "queued", "loaded"},
             snap : Snaps \union {NoSnap}, n : 0..MaxRecords]]
    /\ misjudged \subseteq Snaps

BucketInit ==
    /\ manifest = [s \in Snaps |->
            [status |-> IF s \in Legacy THEN "bare" ELSE "absent", count |-> 0]]
    /\ file = [s \in Snaps |-> IF s \in Legacy THEN MaxRecords ELSE NoFile]
    /\ fetch = [s \in Snaps |-> IF s \in Legacy THEN "done" ELSE "none"]
    /\ count = [s \in Snaps |-> 0]
    /\ outcome = [s \in Snaps |-> "failed"]
    /\ abandon = [a \in Operators |-> [at |-> "idle", snap |-> NoSnap, n |-> 0]]
    /\ load = [l \in Loads |-> [at |-> "idle", snap |-> NoSnap, n |-> 0]]
    /\ misjudged = {}

Records(s) == IF file[s] = NoFile THEN 0 ELSE file[s]

\* list_snapshots raises when one manifest of the source is not JSON.
Listable == \A s \in Snaps : manifest[s].status # "torn"

\* Mutant: a snapshot still being written is good enough to load.
LoadableEarly(s) ==
    manifest[s].status \in Finished \union {"bare", "running"} /\ Records(s) > 0

\* A snapshot with no readable first record is of kind "pages".
Loadable(s) ==
    manifest[s].status \in Finished \union {"bare"} /\ Records(s) > 0

Running(s) == manifest[s].status = "running"

GotoFetch(s, location) == fetch' = [fetch EXCEPT ![s] = location]

-----------------------------------------------------------------------------
(* A fetch: write_documents, asked for by the API or the CLI.              *)

\* fetch_scraper, fetch_due: refuse while a manifest says running, else leave
\* the fetch to a background task.
Accept(s) ==
    /\ fetch[s] = "none"
    /\ Listable
    /\ ~\E t \in Snaps : Running(t)
    /\ GotoFetch(s, "queued")
    /\ UNCHANGED <<manifest, file, count, outcome, abandon, load, misjudged>>

\* The task, or cmd_fetch, which looks at nothing first.
Start(s) ==
    /\ fetch[s] \in {"none", "queued"}
    /\ GotoFetch(s, "mkdir")
    /\ UNCHANGED <<manifest, file, count, outcome, abandon, load, misjudged>>

MakeDirectory(s) ==
    /\ fetch[s] = "mkdir"
    /\ manifest' = [manifest EXCEPT ![s].status = "bare"]
    /\ GotoFetch(s, "open_manifest")
    /\ UNCHANGED <<file, count, outcome, abandon, load, misjudged>>

TruncateManifest(s) ==
    /\ fetch[s] \in {"open_manifest", "reopen_manifest"}
    /\ manifest' = [manifest EXCEPT ![s].status = "torn"]
    /\ GotoFetch(s, IF fetch[s] = "open_manifest" THEN "fill_manifest" ELSE "refill_manifest")
    /\ UNCHANGED <<file, count, outcome, abandon, load, misjudged>>

StartManifest(s) ==
    /\ fetch[s] = "fill_manifest"
    /\ manifest' = [manifest EXCEPT ![s] = [status |-> "running", count |-> 0]]
    /\ GotoFetch(s, "open_records")
    /\ UNCHANGED <<file, count, outcome, abandon, load, misjudged>>

OpenRecords(s) ==
    /\ fetch[s] = "open_records"
    /\ file' = [file EXCEPT ![s] = 0]
    /\ GotoFetch(s, "next")
    /\ UNCHANGED <<manifest, count, outcome, abandon, load, misjudged>>

\* The source yields a document and write_records flushes its line.
WriteRecord(s) ==
    /\ fetch[s] = "next"
    /\ file[s] < MaxRecords
    /\ file' = [file EXCEPT ![s] = @ + 1]
    /\ GotoFetch(s, "written")
    /\ UNCHANGED <<manifest, count, outcome, abandon, load, misjudged>>

\* The generator resumes: the record just written is counted.
CountRecord(s) ==
    /\ fetch[s] = "written"
    /\ count' = [count EXCEPT ![s] = @ + 1]
    /\ GotoFetch(s, "next")
    /\ UNCHANGED <<manifest, file, outcome, abandon, load, misjudged>>

Exhausted(s) ==
    /\ fetch[s] = "next"
    /\ outcome' = [outcome EXCEPT ![s] = "completed"]
    /\ GotoFetch(s, "reopen_manifest")
    /\ UNCHANGED <<manifest, file, count, abandon, load, misjudged>>

\* The source raises, the file cannot be opened, or a line cannot be flushed
\* whole (what it leaves behind cannot be read).
Raises(s) ==
    /\ fetch[s] \in {"open_records", "next"}
    /\ outcome' = [outcome EXCEPT ![s] = "failed"]
    /\ GotoFetch(s, "reopen_manifest")
    /\ UNCHANGED <<manifest, file, count, abandon, load, misjudged>>

FinishManifest(s) ==
    /\ fetch[s] = "refill_manifest"
    /\ manifest' = [manifest EXCEPT ![s] = [status |-> outcome[s], count |-> count[s]]]
    /\ GotoFetch(s, "done")
    /\ UNCHANGED <<file, count, outcome, abandon, load, misjudged>>

\* The process dies, or Ctrl-C, which "except Exception" lets through.
KillFetch(s) ==
    /\ fetch[s] \notin {"none", "done", "dead"}
    /\ GotoFetch(s, "dead")
    /\ UNCHANGED <<manifest, file, count, outcome, abandon, load, misjudged>>

-----------------------------------------------------------------------------
(* abandon_snapshot.  "Whether the run is really dead is the caller's       *)
(* judgement", and the caller may be wrong.                                 *)

AbandonCheck(a, s) ==
    /\ abandon[a].at = "idle"
    /\ Listable
    /\ Running(s)
    /\ abandon' = [abandon EXCEPT ![a] = [at |-> "count", snap |-> s, n |-> 0]]
    /\ misjudged' = IF fetch[s] = "dead" THEN misjudged ELSE misjudged \union {s}
    /\ UNCHANGED <<manifest, file, fetches, load>>

\* read_records: a file the fetch never opened raises FileNotFoundError.
AbandonCount(a) ==
    /\ abandon[a].at = "count"
    /\ LET s == abandon[a].snap
       IN  abandon' = [abandon EXCEPT ![a] =
                [at |-> IF file[s] = NoFile THEN "error" ELSE "truncate",
                 snap |-> s, n |-> Records(s)]]
    /\ UNCHANGED <<manifest, file, fetches, load, misjudged>>

AbandonTruncate(a) ==
    /\ abandon[a].at = "truncate"
    /\ manifest' = [manifest EXCEPT ![abandon[a].snap].status = "torn"]
    /\ abandon' = [abandon EXCEPT ![a].at = "fill"]
    /\ UNCHANGED <<file, fetches, load, misjudged>>

\* Mutant: the count of the running manifest is carried over.
AbandonFillUncorrected(a) ==
    /\ abandon[a].at = "fill"
    /\ manifest' = [manifest EXCEPT ![abandon[a].snap].status = "failed"]
    /\ abandon' = [abandon EXCEPT ![a] = [at |-> "idle", snap |-> NoSnap, n |-> 0]]
    /\ UNCHANGED <<file, fetches, load, misjudged>>

AbandonFill(a) ==
    /\ abandon[a].at = "fill"
    /\ manifest' = [manifest EXCEPT ![abandon[a].snap] =
            [status |-> "failed", count |-> abandon[a].n]]
    /\ abandon' = [abandon EXCEPT ![a] = [at |-> "idle", snap |-> NoSnap, n |-> 0]]
    /\ UNCHANGED <<file, fetches, load, misjudged>>

\* The endpoint answers 500, or its process dies on the way.
AbandonEnds(a) ==
    /\ abandon[a].at # "idle"
    /\ abandon' = [abandon EXCEPT ![a] = [at |-> "idle", snap |-> NoSnap, n |-> 0]]
    /\ UNCHANGED <<manifest, file, fetches, load, misjudged>>

-----------------------------------------------------------------------------
(* process_snapshot, cmd_process and rebuild_silver choose loadable         *)
(* snapshots from a listing, and read them some time later.                 *)

Process(l, s) ==
    /\ load[l].at # "queued"
    /\ Listable
    /\ Loadable(s)
    /\ load' = [load EXCEPT ![l] = [at |-> "queued", snap |-> s, n |-> 0]]
    /\ UNCHANGED <<manifest, file, fetches, abandon, misjudged>>

ReadRecords(l) ==
    /\ load[l].at = "queued"
    /\ LET s == load[l].snap
       IN  load' = [load EXCEPT ![l] = [at |-> "loaded", snap |-> s, n |-> Records(s)]]
    /\ UNCHANGED <<manifest, file, fetches, abandon, misjudged>>

-----------------------------------------------------------------------------
Fetch(s) ==
    \/ Accept(s) \/ Start(s) \/ MakeDirectory(s) \/ TruncateManifest(s)
    \/ StartManifest(s) \/ OpenRecords(s) \/ WriteRecord(s) \/ CountRecord(s)
    \/ Exhausted(s) \/ Raises(s) \/ FinishManifest(s) \/ KillFetch(s)

Abandon(a) ==
    \/ \E s \in Snaps : AbandonCheck(a, s)
    \/ AbandonCount(a) \/ AbandonTruncate(a) \/ AbandonFill(a) \/ AbandonEnds(a)

BucketNext ==
    \/ \E s \in Snaps : Fetch(s)
    \/ \E a \in Operators : Abandon(a)
    \/ \E l \in Loads : ReadRecords(l) \/ \E s \in Snaps : Process(l, s)

BucketSpec == BucketInit /\ [][BucketNext]_snapshots
-----------------------------------------------------------------------------
(* Properties.                                                             *)

\* "record_count is corrected to what is actually on disk" (routes.py:125),
\* and a fetch counts what it wrote: whichever way a snapshot finished,
\* through success, failure or abandon, its manifest counts its records.  That
\* a live fetch "will carry on writing to a snapshot now marked failed" is what
\* abandon warns of; a completed one is exact even then.
FinishedCountIsExact ==
    \A s \in Snaps :
        \/ manifest[s].status = "completed"
        \/ manifest[s].status = "failed" /\ s \notin misjudged
        => manifest[s].count = Records(s)

\* A load reads "never one still running" (composer-bronze README): however
\* fetches, kills and abandons interleave with it, what it read is what the
\* snapshot will always hold, unless somebody abandoned it alive.
LoadedIsFrozen ==
    \A l \in Loads :
        load[l].at = "loaded" /\ load[l].snap \notin misjudged => load[l].n = file[load[l].snap]

\* Nothing appends to a loadable snapshot, or to one a load has chosen.
LoadableIsClosed ==
    /\ \A s \in Snaps \ misjudged : Loadable(s) => fetch[s] \in {"done", "dead"}
    /\ \A l \in Loads : load[l].at # "idle" =>
        /\ load[l].snap \in Snaps
        /\ file[load[l].snap] # NoFile
        /\ load[l].snap \notin misjudged => fetch[load[l].snap] \in {"done", "dead"}

\* An abandon under way is on a dead fetch, whose records it has counted, or
\* on one that was misjudged.
AbandonedIsDead ==
    \A a \in Operators : abandon[a].at # "idle" =>
        /\ abandon[a].snap \in Snaps
        /\ abandon[a].at \in {"truncate", "fill"} => file[abandon[a].snap] # NoFile
        /\ abandon[a].snap \notin misjudged =>
            /\ fetch[abandon[a].snap] = "dead"
            /\ abandon[a].at \in {"truncate", "fill"} => abandon[a].n = Records(abandon[a].snap)

\* What a fetch has written and counted at each of its points, and what its
\* manifest says, which only an abandon of the misjudged can change under it.
WrittenOf(s) ==
    /\ fetch[s] \in {"none", "queued", "mkdir", "open_manifest", "fill_manifest", "open_records"} =>
        file[s] = NoFile /\ count[s] = 0
    /\ fetch[s] \in {"next", "reopen_manifest", "refill_manifest"} => count[s] = Records(s)
    /\ fetch[s] \in {"next", "written"} => file[s] # NoFile
    /\ fetch[s] = "written" => count[s] + 1 = file[s]
    /\ manifest[s].status = "completed" => fetch[s] = "done"

PhaseOf(s) ==
    /\ fetch[s] \in {"none", "queued", "mkdir"} => manifest[s].status = "absent"
    /\ fetch[s] = "open_manifest" => manifest[s].status = "bare"
    /\ fetch[s] \in {"fill_manifest", "refill_manifest"} => manifest[s].status = "torn"
    /\ fetch[s] \in {"open_records", "next", "written", "reopen_manifest"} =>
        manifest[s].status = "running"
    /\ fetch[s] = "done" => manifest[s].status \in Finished \union {"bare"}

\* The inductive invariant: each manifest answers for its file because only
\* one fetch writes it, and an abandon only after that fetch, if it is judged
\* right.
BucketIInv ==
    /\ BucketTypeOK
    /\ FinishedCountIsExact
    /\ LoadedIsFrozen
    /\ LoadableIsClosed
    /\ AbandonedIsDead
    /\ \A s \in Snaps : WrittenOf(s)
    /\ \A s \in Snaps \ misjudged : PhaseOf(s)

\* The README of the admin API on a fetch that was killed outright: "Abandon is
\* the way out".  No abandon of a dead running snapshot is answered with an
\* error.
AbandonIsTheWayOut == \A a \in Operators : abandon[a].at # "error"

\* The abandon endpoint: "record_count is corrected to what is actually on
\* disk", of a fetch that was alive after all too.
MisjudgedCountIsExact ==
    \A s \in Snaps : manifest[s].status \in Finished => manifest[s].count = Records(s)
=============================================================================
