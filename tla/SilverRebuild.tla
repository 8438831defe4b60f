---------------------------- MODULE SilverRebuild ----------------------------
(***************************************************************************)
(* rebuild_silver (rebuild.py): the bucket is replayed into a staging      *)
(* database, what humans decided is carried over, and the staging database *)
(* takes the place of silver, while fetches finish snapshots, loads change *)
(* silver and humans go on reviewing it.                                   *)
(*                                                                         *)
(* A database is a record.  A work is known by its composer, its title key *)
(* and what its sources state outside the title (a catalogue number); two  *)
(* works can share the first two.  Ids are random and not part of it.      *)
(* The lock and the swap are PostgresBuild's; what dedupe_persons does     *)
(* with the pairs nobody decided, and their links, is PersonLinks'.        *)
(***************************************************************************)
EXTENDS Naturals, FiniteSets

CONSTANTS
    Rebuilds,   \* the calls of rebuild_silver
    Snapshots,  \* document snapshots, numbered in the order of their run ids
    Entities,
    Nobody,     \* the composer of a work whose sources name none
    Pairs,      \* pairs of persons a human may be asked about
    Mentions,   \* (source, external id)
    Contents,   \* versions of a mention's content
    Absent,     \* the snapshot does not have the mention; no row, no work
    Titles,     \* title keys
    Stated,     \* what a source states of a work beside its title
    Unstated,   \* nothing
    Brings,     \* the entities of each snapshot's entity documents
    Says,       \* the content each snapshot has for a mention
    Heading,    \* the composer and title of a content
    Meant,      \* the work the matcher finds or makes for a content
    Free        \* no rebuild holds the lock

Composers == Entities \union {Nobody}
Works == [composer : Composers, title : Titles, stated : Stated \union {Unstated}]
Row == [content : Contents, work : Works, manual : BOOLEAN]

ASSUME SnapshotsAssumption == Snapshots \subseteq Nat
ASSUME PairsAssumption == Pairs \subseteq SUBSET Entities
ASSUME AbsentAssumption == Absent \notin Contents \union Works \union Row
ASSUME DistinctAssumption == Nobody \notin Entities /\ Free \notin Rebuilds /\ Unstated \notin Stated
ASSUME BringsAssumption == Brings \in [Snapshots -> SUBSET Entities]
ASSUME SaysAssumption == Says \in [Snapshots -> [Mentions -> Contents \union {Absent}]]
ASSUME HeadingAssumption == Heading \in [Contents -> [composer : Composers, title : Titles]]
ASSUME MeantAssumption ==
    Meant \in [Contents -> Works] /\ \A c \in Contents : Meant[c].composer = Heading[c].composer
\* Folding works of a person's duplicates is merge_works': here no pair composes.
ASSUME ComposersAssumption == \A c \in Contents, p \in Pairs : Heading[c].composer \notin p

Verdicts == {"open", "accepted", "rejected"}
Human == {"accepted", "rejected"}
Database ==
    [entities : SUBSET Entities, verdict : [Pairs -> Verdicts],
     mention : [Mentions -> Row \union {Absent}], works : SUBSET Works]
Decisions == [verdict : [Pairs -> Verdicts], work : [Mentions -> Works \union {Absent}]]

VARIABLES
    bucket,     \* the snapshots that can be loaded
    silver,     \* the live database
    staging,    \* the one under construction
    holder,     \* who holds the build lock
    pc,         \* where each rebuild is
    kept,       \* the decisions it collected
    todo,       \* the snapshots it has yet to replay
    listed,     \* history: all it set out to replay
    sighted,    \* history: the contents that what it collected was decided on
    late        \* history: something was decided, or published, since then

job == <<pc, kept, todo, listed, sighted>>
vars == <<bucket, silver, staging, holder, job, late>>

Building == {"replay", "works", "swap"}
UnderWay(r) == pc[r] \in {"collected"} \union Building
Locations == {"idle", "collected", "done", "failed", "refused"} \union Building

Empty ==
    [entities |-> {}, verdict |-> [p \in Pairs |-> "open"],
     mention |-> [m \in Mentions |-> Absent], works |-> {}]
NoDecisions == [verdict |-> Empty.verdict, work |-> Empty.mention]
Sights(db) == [m \in Mentions |-> IF db.mention[m] = Absent THEN Absent ELSE db.mention[m].content]

TypeOK ==
    /\ bucket \subseteq Snapshots
    /\ silver \in Database
    /\ staging \in Database
    /\ holder \in Rebuilds \union {Free}
    /\ pc \in [Rebuilds -> Locations]
    /\ kept \in [Rebuilds -> Decisions]
    /\ todo \in [Rebuilds -> SUBSET Snapshots]
    /\ listed \in [Rebuilds -> SUBSET Snapshots]
    /\ sighted \in [Rebuilds -> [Mentions -> Contents \union {Absent}]]
    /\ late \in [Rebuilds -> BOOLEAN]

Init ==
    /\ bucket = {}
    /\ silver = Empty
    /\ staging = Empty
    /\ holder = Free
    /\ pc = [r \in Rebuilds |-> "idle"]
    /\ kept = [r \in Rebuilds |-> NoDecisions]
    /\ todo = [r \in Rebuilds |-> {}]
    /\ listed = [r \in Rebuilds |-> {}]
    /\ sighted = [r \in Rebuilds |-> Sights(Empty)]
    /\ late = [r \in Rebuilds |-> FALSE]

-----------------------------------------------------------------------------
(* Reading a snapshot into a database: new mentions and those whose        *)
(* content changed are matched, and what a human said of the latter goes.  *)

Changed(db, s) ==
    {m \in Mentions :
        /\ Says[s][m] # Absent
        /\ db.mention[m] # Absent => db.mention[m].content # Says[s][m]}

Sighting(c) == [content |-> c, work |-> Meant[c], manual |-> FALSE]

Ingest(db, s) ==
    LET met == {Says[s][m] : m \in Changed(db, s)}
    IN  [entities |-> db.entities \union Brings[s] \union ({Heading[c].composer : c \in met} \ {Nobody}),
         verdict |-> db.verdict,
         mention |-> [m \in Mentions |->
            IF m \in Changed(db, s) THEN Sighting(Says[s][m]) ELSE db.mention[m]],
         works |-> db.works \union {Meant[c] : c \in met}]

-----------------------------------------------------------------------------
(* Around the rebuild.                                                     *)

\* A fetch ends: its snapshot can be loaded from now on.
Finish(s) ==
    /\ s \in Snapshots \ bucket
    /\ bucket' = bucket \union {s}
    /\ UNCHANGED <<silver, staging, holder, job, late>>

\* Its directory is deleted "to keep it out" (warehouse README), or put back.
Delete(s) ==
    /\ s \in bucket
    /\ bucket' = bucket \ {s}
    /\ UNCHANGED <<silver, staging, holder, job, late>>

\* A load of one snapshot (process), in any order.
Load(s) ==
    /\ s \in bucket
    /\ silver' = Ingest(silver, s)
    /\ UNCHANGED <<bucket, staging, holder, job, late>>

\* What a rebuild under way has not seen.
Overtaken == late' = [r \in Rebuilds |-> UnderWay(r)]

\* person-review --accept / --reject
DecidePair(p, verdict) ==
    /\ p \subseteq silver.entities
    /\ silver' = [silver EXCEPT !.verdict = [silver.verdict EXCEPT ![p] = verdict]]
    /\ Overtaken
    /\ UNCHANGED <<bucket, staging, holder, job>>

Matched(db, m, w) ==
    LET row == [content |-> db.mention[m].content, work |-> w, manual |-> TRUE]
    IN  [db EXCEPT !.mention = [db.mention EXCEPT ![m] = row]]

\* review --accept
AcceptWork(m, w) ==
    /\ silver.mention[m] # Absent
    /\ w \in silver.works
    /\ silver' = Matched(silver, m, w)
    /\ Overtaken
    /\ UNCHANGED <<bucket, staging, holder, job>>

\* review --new
NewWork(m) ==
    /\ silver.mention[m] # Absent
    /\ LET h == Heading[silver.mention[m].content]
           w == [composer |-> h.composer, title |-> h.title, stated |-> Unstated]
       IN  silver' = Matched([silver EXCEPT !.works = silver.works \union {w}], m, w)
    /\ Overtaken
    /\ UNCHANGED <<bucket, staging, holder, job>>

-----------------------------------------------------------------------------
(* The rebuild.                                                            *)

Goto(r, location) == pc' = [pc EXCEPT ![r] = location]

Collected(db) ==
    [verdict |-> db.verdict,
     work |-> [m \in Mentions |->
        IF db.mention[m] # Absent /\ db.mention[m].manual THEN db.mention[m].work ELSE Absent]]

\* collect_decisions, before the build has its lock
Collect(r) ==
    /\ pc[r] = "idle"
    /\ kept' = [kept EXCEPT ![r] = Collected(silver)]
    /\ sighted' = [sighted EXCEPT ![r] = Sights(silver)]
    /\ Goto(r, "collected")
    /\ UNCHANGED <<bucket, silver, staging, holder, todo, listed, late>>

\* The call is over, and what it knew is gone.
End(r, location) ==
    /\ Goto(r, location)
    /\ kept' = [kept EXCEPT ![r] = NoDecisions]
    /\ todo' = [todo EXCEPT ![r] = {}]
    /\ listed' = [listed EXCEPT ![r] = {}]
    /\ sighted' = [sighted EXCEPT ![r] = Sights(Empty)]

Refuse(r) ==
    /\ pc[r] = "collected"
    /\ holder # Free
    /\ End(r, "refused")
    /\ late' = [late EXCEPT ![r] = FALSE]
    /\ UNCHANGED <<bucket, silver, staging, holder>>

\* The lock, an empty staging database, and the whole of replayable_sources.
Begin(r) ==
    /\ pc[r] = "collected"
    /\ holder = Free
    /\ holder' = r
    /\ staging' = Empty
    /\ todo' = [todo EXCEPT ![r] = bucket]
    /\ listed' = [listed EXCEPT ![r] = bucket]
    /\ Goto(r, "replay")
    /\ UNCHANGED <<bucket, silver, kept, sighted, late>>

\* Mutant: the snapshots are replayed as they come.
ReplayAny(r, s) ==
    /\ pc[r] = "replay"
    /\ s \in todo[r] \intersect bucket
    /\ staging' = Ingest(staging, s)
    /\ todo' = [todo EXCEPT ![r] = @ \ {s}]
    /\ UNCHANGED <<bucket, silver, holder, pc, kept, listed, sighted, late>>

\* The next snapshot, the oldest first.
Replay(r, s) ==
    /\ pc[r] = "replay"
    /\ s \in todo[r] \intersect bucket
    /\ \A t \in todo[r] : s <= t
    /\ staging' = Ingest(staging, s)
    /\ todo' = [todo EXCEPT ![r] = @ \ {s}]
    /\ UNCHANGED <<bucket, silver, holder, pc, kept, listed, sighted, late>>

\* _apply_person_decisions; a pair that lost a person is dropped.  The
\* dedupe_persons that follows leaves decided pairs as they are.
ApplyPersons(r) ==
    /\ pc[r] = "replay"
    /\ todo[r] = {}
    /\ staging' = [staging EXCEPT !.verdict = [p \in Pairs |->
            IF p \subseteq staging.entities THEN kept[r].verdict[p] ELSE "open"]]
    /\ Goto(r, "works")
    /\ UNCHANGED <<bucket, silver, holder, kept, todo, listed, sighted, late>>

SameKey(v, w) == v.composer = w.composer /\ v.title = w.title

\* Mutant: the composer need not be there.
CarriedAnyway(r) == {m \in Mentions : kept[r].work[m] # Absent /\ staging.mention[m] # Absent}

\* The mentions whose decision can be applied: there, and so is its composer.
Carried(r) ==
    {m \in Mentions :
        /\ kept[r].work[m] # Absent
        /\ staging.mention[m] # Absent
        /\ kept[r].work[m].composer \in staging.entities \union {Nobody}}

\* The works made again, from their titles, as the replay did not make them.
Remade(r) ==
    {[kept[r].work[m] EXCEPT !.stated = Unstated] :
        m \in {n \in Carried(r) : \A w \in staging.works : ~SameKey(w, kept[r].work[n])}}

\* Mutant: a decision whose work the replay did not make is dropped.
ApplyWorksMade(r) ==
    /\ pc[r] = "works"
    /\ LET made == {m \in Carried(r) : \E w \in staging.works : SameKey(w, kept[r].work[m])}
       IN  \E work \in [made -> staging.works] :
            /\ \A m \in made : SameKey(work[m], kept[r].work[m])
            /\ staging' = [staging EXCEPT
                    !.mention = [m \in Mentions |->
                        IF m \in made
                        THEN [content |-> staging.mention[m].content, work |-> work[m], manual |-> TRUE]
                        ELSE staging.mention[m]]]
    /\ Goto(r, "swap")
    /\ UNCHANGED <<bucket, silver, holder, kept, todo, listed, sighted, late>>

\* _apply_work_decisions; where works share a key, the query names any.
ApplyWorks(r) ==
    /\ pc[r] = "works"
    /\ \E work \in [Carried(r) -> staging.works \union Remade(r)] :
        /\ \A m \in Carried(r) : SameKey(work[m], kept[r].work[m])
        /\ staging' =
            [entities |-> staging.entities,
             verdict |-> staging.verdict,
             mention |-> [m \in Mentions |->
                IF m \in Carried(r)
                THEN [content |-> staging.mention[m].content, work |-> work[m], manual |-> TRUE]
                ELSE staging.mention[m]],
             works |-> staging.works \union Remade(r)]
    /\ Goto(r, "swap")
    /\ UNCHANGED <<bucket, silver, holder, kept, todo, listed, sighted, late>>

\* refresh_derived is done; run_build commits.
Swap(r) ==
    /\ pc[r] = "swap"
    /\ silver' = staging
    /\ staging' = Empty
    /\ holder' = Free
    /\ End(r, "done")
    /\ late' = [q \in Rebuilds |-> q # r /\ UnderWay(q)]
    /\ UNCHANGED bucket

\* A replay raises (a malformed document, a deleted one, the disk), or the process is killed.
Fail(r) ==
    /\ pc[r] \in Building
    /\ staging' = Empty
    /\ holder' = Free
    /\ End(r, "failed")
    /\ late' = [late EXCEPT ![r] = FALSE]
    /\ UNCHANGED <<bucket, silver>>

Next ==
    \/ \E s \in Snapshots : Finish(s) \/ Delete(s) \/ Load(s)
    \/ \E p \in Pairs, verdict \in Human : DecidePair(p, verdict)
    \/ \E m \in Mentions : NewWork(m) \/ \E w \in Works : AcceptWork(m, w)
    \/ \E r \in Rebuilds :
        \/ Collect(r) \/ Refuse(r) \/ Begin(r)
        \/ \E s \in Snapshots : Replay(r, s)
        \/ ApplyPersons(r) \/ ApplyWorks(r) \/ Swap(r) \/ Fail(r)

Spec == Init /\ [][Next]_vars

-----------------------------------------------------------------------------
(* Properties.                                                             *)

\* A database holds what was decided of the persons and mentions it still
\* has: the pairs, and the composer and title of the work of a mention that is
\* what it was (seen) when it was decided.  A corrected mention is to be
\* matched anew.
KeepsPairs(db, decided) ==
    \A p \in Pairs : decided.verdict[p] \in Human /\ p \subseteq db.entities =>
        db.verdict[p] = decided.verdict[p]
KeepsWorks(db, decided, seen) ==
    \A m \in Mentions :
        /\ decided.work[m] # Absent
        /\ db.mention[m] # Absent
        /\ db.mention[m].content = seen[m]
        /\ decided.work[m].composer \in db.entities \union {Nobody}
        => db.mention[m].manual /\ SameKey(db.mention[m].work, decided.work[m])
Keeps(db, decided, seen) == KeepsPairs(db, decided) /\ KeepsWorks(db, decided, seen)

Swapped(r) == pc[r] = "swap" /\ pc'[r] = "done"

\* "Human review decisions survive the rebuild": whatever was loaded, finished
\* or deleted beside it, a swap takes no decision out of silver.
DecisionsSurviveRebuild ==
    [][\A r \in Rebuilds : Swapped(r) => Keeps(silver', Collected(silver), Sights(silver))]_vars

\* They do as far as the rebuild could know of them: what it collected is in
\* what it publishes, and so is every decision that silver holds at the swap
\* if nothing was decided, or published by another rebuild, since it collected
\* (loads may have corrected and rematched mentions meanwhile).
DecisionsCarried ==
    [][\A r \in Rebuilds : Swapped(r) =>
        /\ Keeps(silver', kept[r], sighted[r])
        /\ ~late[r] => Keeps(silver', Collected(silver), Sights(silver))]_vars

\* A decision names the work the human chose, not another of the same title.
DecisionsKeepTheirWork ==
    [][\A r \in Rebuilds, m \in Mentions :
        Swapped(r) /\ Collected(silver).work[m] # Absent =>
            silver'.mention[m] # Absent /\ silver'.mention[m].work = Collected(silver).work[m]]_vars

\* "a corrected title doesn't keep the decision made for the old one"
\* (RawWorkMention): a mention that a rebuild brings a new content for is matched.
CorrectedIsRematched ==
    [][\A r \in Rebuilds, m \in Mentions :
        /\ Swapped(r)
        /\ Collected(silver).work[m] # Absent
        /\ silver'.mention[m] # Absent
        /\ silver'.mention[m].manual
        => silver'.mention[m].content = silver.mention[m].content]_vars

\* A rebuild loads every snapshot there was when it began, and where they
\* differ the newest wins, in whatever order silver had loaded them.
NewestWins ==
    [][\A r \in Rebuilds : Swapped(r) =>
        \A s \in listed[r] :
            /\ Brings[s] \subseteq silver'.entities
            /\ \A m \in Mentions :
                Says[s][m] # Absent /\ (\A t \in listed[r] : t > s => Says[t][m] = Absent) =>
                    silver'.mention[m] # Absent /\ silver'.mention[m].content = Says[s][m]]_vars

\* Every mention's work and composer, and every work's composer, is there.
Whole(db) ==
    /\ \A m \in Mentions : db.mention[m] # Absent =>
        /\ db.mention[m].work \in db.works
        /\ Heading[db.mention[m].content].composer \in db.entities \union {Nobody}
    /\ \A w \in db.works : w.composer \in db.entities \union {Nobody}
NothingDangles == Whole(silver) /\ Whole(staging)

=============================================================================
