------------------------ MODULE SilverRebuildProofs ------------------------
(***************************************************************************)
(* Proofs about SilverRebuild, for any snapshots, contents, works, humans  *)
(* and rebuilds.  The invariant says who may touch the staging database,   *)
(* which of the collected decisions are in it at each point, and that its  *)
(* references hold; the last section adds that silver cannot hold a        *)
(* decision the one rebuild under way does not know, if nobody reviews.    *)
(*                                                                         *)
(* The theorems about the bucket a rebuild reads from (Snapshots) come     *)
(* first, for any number of snapshots, records, abandon requests and       *)
(* loads.  One writer per snapshot is what carries them: the invariant     *)
(* says, for each point of a fetch, what it has written and counted, and   *)
(* that loads only touch what no fetch writes, and abandons too unless one *)
(* took a live fetch for dead.                                             *)
(*                                                                         *)
(* What fills the bucket comes last: how long a crawl of a source can be   *)
(* held (Fetches, HttpSession), for any sites, servers, deadlines, retries *)
(* and pauses.  The functions of HttpSession are defined step by step, so  *)
(* each lemma says what a step keeps and UpTo takes it to the last one.    *)
(***************************************************************************)
EXTENDS SilverRebuild, Snapshots, Fetches, FiniteSetTheorems, WellFoundedInduction, TLAPS

-----------------------------------------------------------------------------
(* The bucket.                                                             *)

\* Legacy snapshots are closed and nothing else exists yet.
LEMMA BucketBegins == BucketInit => BucketIInv
  BY MaxRecordsAssumption, LegacyAssumption, NoFileAssumption
  DEF BucketInit, BucketIInv, BucketTypeOK, FinishedCountIsExact, LoadedIsFrozen, LoadableIsClosed,
      AbandonedIsDead, WrittenOf, PhaseOf, Records, Loadable, Status, Finished, FetchLocations

\* A manifest that an abandon truncates or fills, of a fetch that is dead or
\* misjudged.
AbandonTyped ==
    abandon \in [Operators -> [at : {"idle", "count", "truncate", "fill", "error"},
                              snap : Snaps \union {NoSnap}, n : 0 .. MaxRecords]]

LEMMA ManifestStep ==
  ASSUME BucketIInv, UNCHANGED <<file, fetches, load, misjudged>>, AbandonTyped', AbandonedIsDead',
         NEW t \in Snaps, NEW m \in [status : {"torn", "failed"}, count : 0 .. MaxRecords],
         t \notin misjudged => fetch[t] = "dead",
         \/ m.status = "torn"
         \/ t \notin misjudged => m.count = Records(t),
         manifest' = [manifest EXCEPT ![t] = m]
  PROVE  BucketIInv'
<1>1. manifest' \in [Snaps -> [status : Status, count : 0 .. MaxRecords]]
  BY DEF BucketIInv, BucketTypeOK, Status
<1>2. BucketTypeOK'
  BY <1>1 DEF BucketIInv, BucketTypeOK, AbandonTyped, fetches
<1>3. manifest'[t] = m /\ m.status \in {"torn", "failed"}
  BY DEF BucketIInv, BucketTypeOK
<1>4. \A s \in Snaps \ {t} : manifest'[s] = manifest[s]
  BY DEF BucketIInv, BucketTypeOK
<1>5. \A s \in Snaps : Records(s)' = Records(s)
  BY DEF Records
<1>6. FinishedCountIsExact'
  BY <1>3, <1>4, <1>5 DEF BucketIInv, FinishedCountIsExact
<1>7. LoadedIsFrozen'
  BY DEF BucketIInv, LoadedIsFrozen
<1>8. LoadableIsClosed'
  <2>1. ASSUME NEW s \in Snaps \ misjudged, Loadable(s)' PROVE fetch[s] \in {"done", "dead"}
    <3>1. CASE s = t
      BY <3>1
    <3>2. CASE s # t
      BY <1>4, <2>1, <3>2 DEF BucketIInv, LoadableIsClosed, Loadable, Records
    <3> QED
      BY <3>1, <3>2
  <2> QED
    BY <2>1 DEF BucketIInv, LoadableIsClosed, fetches
<1>9. ASSUME NEW s \in Snaps PROVE WrittenOf(s)'
  <2>1. WrittenOf(s) /\ (manifest'[s].status = "completed" => manifest[s].status = "completed")
    BY <1>3, <1>4 DEF BucketIInv
  <2>2. Records(s)' = Records(s) /\ UNCHANGED <<fetch, count, file>>
    BY DEF Records, fetches
  <2> QED
    BY <2>1, <2>2 DEF WrittenOf
<1>10. ASSUME NEW s \in Snaps \ misjudged PROVE PhaseOf(s)'
  <2>1. CASE s = t
    BY <2>1 DEF PhaseOf, fetches
  <2>2. CASE s # t
    BY <1>4, <2>2 DEF BucketIInv, PhaseOf, fetches
  <2> QED
    BY <2>1, <2>2
<1> QED
  BY <1>2, <1>6, <1>7, <1>8, <1>9, <1>10 DEF BucketIInv

\* One step per action: each leaves the snapshots it is not about alone, and
\* the guards give the phase of the one it is about.
LEMMA BucketGoesOn == BucketIInv /\ [BucketNext]_snapshots => BucketIInv'
<1> SUFFICES ASSUME BucketIInv, [BucketNext]_snapshots PROVE BucketIInv'
  OBVIOUS
<1> USE MaxRecordsAssumption, NoFileAssumption, NoSnapAssumption
    DEF BucketIInv, BucketTypeOK, FinishedCountIsExact, LoadedIsFrozen, LoadableIsClosed,
        AbandonedIsDead, WrittenOf, PhaseOf, Records, Loadable, Running, Status, Finished,
        FetchLocations, GotoFetch, fetches
<1>1. ASSUME NEW s \in Snaps, Accept(s) PROVE BucketIInv'
  BY <1>1 DEF Accept
<1>2. ASSUME NEW s \in Snaps, Start(s) PROVE BucketIInv'
  BY <1>2 DEF Start
<1>3. ASSUME NEW s \in Snaps, MakeDirectory(s) PROVE BucketIInv'
  BY <1>3 DEF MakeDirectory
<1>4. ASSUME NEW s \in Snaps, TruncateManifest(s) PROVE BucketIInv'
  BY <1>4 DEF TruncateManifest
<1>5. ASSUME NEW s \in Snaps, StartManifest(s) PROVE BucketIInv'
  BY <1>5 DEF StartManifest
<1>6. ASSUME NEW s \in Snaps, OpenRecords(s) PROVE BucketIInv'
  BY <1>6 DEF OpenRecords
<1>7. ASSUME NEW s \in Snaps, WriteRecord(s) PROVE BucketIInv'
  BY <1>7 DEF WriteRecord
<1>8. ASSUME NEW s \in Snaps, CountRecord(s) PROVE BucketIInv'
  BY <1>8 DEF CountRecord
<1>9. ASSUME NEW s \in Snaps, Exhausted(s) PROVE BucketIInv'
  BY <1>9 DEF Exhausted
<1>10. ASSUME NEW s \in Snaps, Raises(s) PROVE BucketIInv'
  BY <1>10 DEF Raises
<1>11. ASSUME NEW s \in Snaps, FinishManifest(s) PROVE BucketIInv'
  BY <1>11 DEF FinishManifest
<1>12. ASSUME NEW s \in Snaps, KillFetch(s) PROVE BucketIInv'
  BY <1>12 DEF KillFetch
<1>13. ASSUME NEW a \in Operators, NEW s \in Snaps, AbandonCheck(a, s) PROVE BucketIInv'
  BY <1>13 DEF AbandonCheck
<1>14. ASSUME NEW a \in Operators, AbandonCount(a) PROVE BucketIInv'
  <2>1. abandon[a].snap \in Snaps
    BY <1>14 DEF AbandonCount
  <2>2. Records(abandon[a].snap) \in 0..MaxRecords
    BY <2>1
  <2>3. UNCHANGED <<manifest, file, fetches, load, misjudged>>
    BY <1>14 DEF AbandonCount
  <2>4. BucketTypeOK' /\ AbandonedIsDead'
    BY <1>14, <2>1, <2>2 DEF AbandonCount
  <2> QED
    BY <2>3, <2>4
<1>15. ASSUME NEW a \in Operators, AbandonTruncate(a) PROVE BucketIInv'
  <2> DEFINE t == abandon[a].snap
             m == [status |-> "torn", count |-> manifest[t].count]
  <2>1. UNCHANGED <<file, fetches, load, misjudged>> /\ t \in Snaps
    BY <1>15 DEF AbandonTruncate
  <2>2. manifest' = [manifest EXCEPT ![t] = m]
    <3>1. manifest[t] \in [status : Status, count : 0 .. MaxRecords]
      BY <2>1
    <3>2. [manifest[t] EXCEPT !.status = "torn"] = m
      BY <3>1
    <3>3. manifest' = [manifest EXCEPT ![t] = [@ EXCEPT !.status = "torn"]]
      BY <1>15 DEF AbandonTruncate
    <3> HIDE DEF m
    <3> QED
      BY <3>2, <3>3
  <2>3. m \in [status : {"torn", "failed"}, count : 0 .. MaxRecords]
    BY <2>1
  <2>4. t \notin misjudged => fetch[t] = "dead"
    <3>1. abandon[a].at # "idle"
      BY <1>15 DEF AbandonTruncate
    <3> QED
      BY ONLY <3>1, AbandonedIsDead DEF AbandonedIsDead
  <2>5. AbandonTyped'
    BY <1>15 DEF AbandonTruncate, AbandonTyped
  <2>6. AbandonedIsDead'
    <3>1. abandon'[a] = [at |-> "fill", snap |-> t, n |-> abandon[a].n]
      BY <1>15 DEF AbandonTruncate
    <3>2. abandon[a].at = "truncate" /\ \A b \in Operators \ {a} : abandon'[b] = abandon[b]
      BY <1>15 DEF AbandonTruncate
    <3> QED
      BY <2>1, <3>1, <3>2
  <2>7. m.status = "torn"
    OBVIOUS
  <2> HIDE DEF t, m
  <2> QED
    BY ONLY BucketIInv, <2>1, <2>2, <2>3, <2>4, <2>5, <2>6, <2>7, ManifestStep
<1>16. ASSUME NEW a \in Operators, AbandonFill(a) PROVE BucketIInv'
  <2> DEFINE t == abandon[a].snap
             m == [status |-> "failed", count |-> abandon[a].n]
  <2>1. UNCHANGED <<file, fetches, load, misjudged>> /\ t \in Snaps
    BY <1>16 DEF AbandonFill
  <2>2. manifest' = [manifest EXCEPT ![t] = m]
    BY <1>16 DEF AbandonFill
  <2>3. m \in [status : {"torn", "failed"}, count : 0 .. MaxRecords]
    BY <2>1
  <2>4. t \notin misjudged => fetch[t] = "dead"
    <3>1. abandon[a].at # "idle"
      BY <1>16 DEF AbandonFill
    <3> QED
      BY ONLY <3>1, AbandonedIsDead DEF AbandonedIsDead
  <2>5. AbandonTyped'
    BY <1>16 DEF AbandonFill, AbandonTyped
  <2>6. AbandonedIsDead'
    <3>1. abandon'[a] = [at |-> "idle", snap |-> NoSnap, n |-> 0]
      BY <1>16 DEF AbandonFill
    <3>2. \A b \in Operators \ {a} : abandon'[b] = abandon[b]
      BY <1>16 DEF AbandonFill
    <3> QED
      BY <2>1, <3>1, <3>2
  <2>7. t \notin misjudged => m.count = Records(t)
    BY <1>16 DEF AbandonFill
  <2> HIDE DEF t, m
  <2> QED
    BY ONLY BucketIInv, <2>1, <2>2, <2>3, <2>4, <2>5, <2>6, <2>7, ManifestStep
<1>17. ASSUME NEW a \in Operators, AbandonEnds(a) PROVE BucketIInv'
  BY <1>17 DEF AbandonEnds
<1>18. ASSUME NEW l \in Loads, NEW s \in Snaps, Process(l, s) PROVE BucketIInv'
  BY <1>18 DEF Process
<1>19. ASSUME NEW l \in Loads, ReadRecords(l) PROVE BucketIInv'
  BY <1>19 DEF ReadRecords
<1>20. CASE UNCHANGED snapshots
  BY <1>20 DEF snapshots
<1> QED
  BY ONLY [BucketNext]_snapshots, <1>1, <1>2, <1>3, <1>4, <1>5, <1>6, <1>7, <1>8, <1>9, <1>10, <1>11,
     <1>12, <1>13, <1>14, <1>15, <1>16, <1>17, <1>18, <1>19, <1>20
     DEF BucketNext, Fetch, Abandon

\* The inductive invariant of the bucket.
THEOREM BucketInvariant == BucketSpec => []BucketIInv
  BY BucketBegins, BucketGoesOn, PTL DEF BucketSpec

\* Whatever ends a fetch, the finished manifest counts what can be read; after
\* an abandon of a live one, only the fetch itself can make it so again.
THEOREM CountsAreExact == BucketSpec => []FinishedCountIsExact
<1>1. BucketIInv => FinishedCountIsExact
  BY DEF BucketIInv
<1> QED
  BY <1>1, BucketInvariant, PTL

\* What a load read is what the snapshot holds ever after, unless it was
\* abandoned while its fetch was alive.
THEOREM LoadsReadTheWholeSnapshot == BucketSpec => []LoadedIsFrozen
<1>1. BucketIInv => LoadedIsFrozen
  BY DEF BucketIInv
<1> QED
  BY <1>1, BucketInvariant, PTL

-----------------------------------------------------------------------------
(* The rebuild.                                                            *)

HolderBuilds == \A r \in Rebuilds : pc[r] \in Building => holder = r
PairsCarried == \A r \in Rebuilds : pc[r] \in {"works", "swap"} => KeepsPairs(staging, kept[r])
WorksCarried == \A r \in Rebuilds : pc[r] = "swap" => KeepsWorks(staging, kept[r], sighted[r])

\* The inductive invariant.
IInv ==
    /\ TypeOK
    /\ NothingDangles
    /\ HolderBuilds
    /\ PairsCarried
    /\ WorksCarried

-----------------------------------------------------------------------------
(* Databases.                                                              *)

\* An empty database is a database, without rows that could dangle.
LEMMA EmptyIsWhole ==
  /\ Empty \in Database /\ Whole(Empty) /\ NoDecisions \in Decisions
  /\ Sights(Empty) \in [Mentions -> Contents \union {Absent}]
<1>1. Empty \in Database /\ Whole(Empty) /\ NoDecisions \in Decisions
  BY DEF Empty, Database, Whole, NoDecisions, Decisions, Verdicts
<1>2. \A m \in Mentions : Empty.mention[m] = Absent
  BY DEF Empty
<1> QED
  BY <1>1, <1>2 DEF Sights

\* Reading a snapshot keeps a database a database and its references whole,
\* touches no verdict, and leaves a mention alone or unmatched by hand.
LEMMA IngestKeeps ==
  ASSUME NEW db \in Database, NEW s \in Snapshots, Whole(db)
  PROVE  /\ Ingest(db, s) \in Database
         /\ Whole(Ingest(db, s))
         /\ Ingest(db, s).verdict = db.verdict
         /\ \A m \in Mentions :
                \/ Ingest(db, s).mention[m] = db.mention[m]
                \/ Ingest(db, s).mention[m] # Absent /\ ~Ingest(db, s).mention[m].manual
<1> DEFINE met == {Says[s][m] : m \in Changed(db, s)}
           new == Ingest(db, s)
<1>1. met \subseteq Contents
  BY SaysAssumption, AbsentAssumption DEF Changed
<1>2. \A c \in Contents :
        /\ Meant[c] \in Works
        /\ Meant[c].composer = Heading[c].composer
        /\ Heading[c].composer \in Entities \union {Nobody}
  BY MeantAssumption, HeadingAssumption DEF Works, Composers
<1>3. \A c \in Contents :
        Sighting(c) \in Row /\ Sighting(c).work = Meant[c] /\ ~Sighting(c).manual /\ Sighting(c) # Absent
  <2> TAKE c \in Contents
  <2>1. Sighting(c) = [content |-> c, work |-> Meant[c], manual |-> FALSE] /\ Meant[c] \in Works
    BY <1>2 DEF Sighting
  <2> HIDE DEF Works
  <2>2. Sighting(c) \in Row
    BY <2>1 DEF Row
  <2>3. Sighting(c).work = Meant[c] /\ Sighting(c).manual = FALSE
    BY <2>1
  <2>4. Absent \notin Row
    BY AbsentAssumption
  <2> QED
    BY <2>2, <2>3, <2>4
<1>4. /\ new.entities = db.entities \union Brings[s] \union ({Heading[c].composer : c \in met} \ {Nobody})
      /\ new.verdict = db.verdict
      /\ new.mention = [m \in Mentions |-> IF m \in Changed(db, s) THEN Sighting(Says[s][m]) ELSE db.mention[m]]
      /\ new.works = db.works \union {Meant[c] : c \in met}
      /\ new = [entities |-> new.entities, verdict |-> new.verdict, mention |-> new.mention, works |-> new.works]
  BY DEF Ingest
<1> HIDE DEF new
<1>5. \A m \in Changed(db, s) : Says[s][m] \in met
  OBVIOUS
<1>6. new.entities \subseteq Entities
  BY <1>1, <1>2, <1>4, BringsAssumption, DistinctAssumption DEF Database
<1>7. new.works \subseteq Works
  BY <1>1, <1>2, <1>4 DEF Database
<1>8. new.mention \in [Mentions -> Row \union {Absent}]
  BY <1>1, <1>3, <1>4, <1>5 DEF Database
<1>9. new \in Database
  BY <1>4, <1>6, <1>7, <1>8 DEF Database
<1>10. \A m \in Mentions : new.mention[m] # Absent =>
          /\ new.mention[m].work \in new.works
          /\ Heading[new.mention[m].content].composer \in new.entities \union {Nobody}
  <2> TAKE m \in Mentions
  <2>1. CASE m \in Changed(db, s)
    <3>1. new.mention[m] = Sighting(Says[s][m]) /\ Says[s][m] \in met
      BY <1>4, <1>5, <2>1
    <3>2. Sighting(Says[s][m]).content = Says[s][m] /\ Sighting(Says[s][m]).work = Meant[Says[s][m]]
      BY DEF Sighting
    <3> QED
      BY <1>4, <3>1, <3>2
  <2>2. CASE m \notin Changed(db, s)
    BY <1>4, <2>2 DEF Whole
  <2> QED
    BY <2>1, <2>2
<1>11. \A w \in new.works : w.composer \in new.entities \union {Nobody}
  BY <1>1, <1>2, <1>4 DEF Whole, Database
<1>12. \A m \in Mentions :
        \/ new.mention[m] = db.mention[m]
        \/ new.mention[m] # Absent /\ ~new.mention[m].manual
  BY <1>1, <1>3, <1>4, <1>5
<1> QED
  BY <1>4, <1>9, <1>10, <1>11, <1>12 DEF Whole, new

\* Matching a mention by hand, to a work that has been or is added.
LEMMA MatchedKeeps ==
  ASSUME NEW db \in Database, NEW m \in Mentions, NEW w \in Works, db.mention[m] # Absent
  PROVE  LET new == Matched(db, m, w) IN
         /\ new \in Database
         /\ new.entities = db.entities /\ new.verdict = db.verdict /\ new.works = db.works
         /\ \A n \in Mentions : n # m => new.mention[n] = db.mention[n]
         /\ new.mention[m] # Absent /\ new.mention[m].work = w
         /\ new.mention[m].content = db.mention[m].content
<1>1. db.mention[m] \in Row
  BY DEF Database
<1>2. [content |-> db.mention[m].content, work |-> w, manual |-> TRUE] \in Row
  BY <1>1 DEF Row
<1>3. /\ [content |-> db.mention[m].content, work |-> w, manual |-> TRUE].work = w
      /\ [content |-> db.mention[m].content, work |-> w, manual |-> TRUE].content = db.mention[m].content
  OBVIOUS
<1> DEFINE row == [content |-> db.mention[m].content, work |-> w, manual |-> TRUE]
           new == Matched(db, m, w)
<1> HIDE DEF row
<1>4. row # Absent
  BY <1>2, AbsentAssumption DEF row
<1>5. /\ new.entities = db.entities /\ new.verdict = db.verdict /\ new.works = db.works
      /\ new.mention = [db.mention EXCEPT ![m] = row]
      /\ new = [entities |-> new.entities, verdict |-> new.verdict, mention |-> new.mention, works |-> new.works]
  <2>1. new = [db EXCEPT !.mention = [db.mention EXCEPT ![m] = row]]
    BY DEF Matched, row
  <2>2. db = [entities |-> db.entities, verdict |-> db.verdict, mention |-> db.mention, works |-> db.works]
    BY DEF Database
  <2> HIDE DEF new
  <2> QED
    BY <2>1, <2>2
<1> HIDE DEF new
<1>6. new \in Database
  BY <1>2, <1>5 DEF Database, row
<1> QED
  BY <1>3, <1>4, <1>5, <1>6 DEF Database, new, row

\* What is collected of a database are decisions, each on a content.
LEMMA CollectedType ==
  ASSUME NEW db \in Database
  PROVE  /\ Collected(db) \in Decisions
         /\ Sights(db) \in [Mentions -> Contents \union {Absent}]
<1>1. \A m \in Mentions : db.mention[m] # Absent =>
        db.mention[m].work \in Works /\ db.mention[m].content \in Contents
  BY DEF Database, Row
<1>2. Collected(db) \in Decisions
  BY <1>1 DEF Collected, Decisions, Database
<1> QED
  BY <1>1, <1>2 DEF Sights

-----------------------------------------------------------------------------
(* The steps.                                                              *)

\* A field at a time: an update of a database, written out.
LEMMA Updated ==
  ASSUME NEW db \in Database, NEW v, NEW w
  PROVE  /\ [db EXCEPT !.verdict = v] =
                [entities |-> db.entities, verdict |-> v, mention |-> db.mention, works |-> db.works]
         /\ [db EXCEPT !.works = w] =
                [entities |-> db.entities, verdict |-> db.verdict, mention |-> db.mention, works |-> w]
<1>1. db = [entities |-> db.entities, verdict |-> db.verdict, mention |-> db.mention, works |-> db.works]
  BY DEF Database
<1>2. [db EXCEPT !.verdict = v] =
        [entities |-> db.entities, verdict |-> v, mention |-> db.mention, works |-> db.works]
  BY <1>1
<1>3. [db EXCEPT !.works = w] =
        [entities |-> db.entities, verdict |-> db.verdict, mention |-> db.mention, works |-> w]
  BY <1>1
<1> QED
  BY <1>2, <1>3

\* Only one rebuild has a staging database.
LEMMA Alone ==
  ASSUME IInv, NEW r \in Rebuilds, holder = r \/ holder = Free, NEW q \in Rebuilds, q # r
  PROVE  pc[q] \notin Building
  BY DistinctAssumption DEF IInv, HolderBuilds

\* At the start there is nothing.
LEMMA InitEstablishes == Init => IInv
<1> SUFFICES ASSUME Init PROVE IInv
  OBVIOUS
<1>1. TypeOK
  BY EmptyIsWhole DEF Init, TypeOK, Locations
<1>2. NothingDangles
  BY EmptyIsWhole DEF Init, NothingDangles
<1> QED
  BY <1>1, <1>2 DEF Init, IInv, HolderBuilds, PairsCarried, WorksCarried, Building

\* What changes silver alone keeps the invariant if it keeps silver whole.
LEMMA SilverStep ==
  ASSUME IInv, silver' \in Database, Whole(silver'), UNCHANGED <<bucket, staging, holder, job>>,
         late' \in [Rebuilds -> BOOLEAN]
  PROVE  IInv'
<1>1. TypeOK'
  BY DEF IInv, TypeOK, job
<1>2. NothingDangles'
  BY DEF IInv, NothingDangles, Whole
<1> QED
  BY <1>1, <1>2 DEF IInv, HolderBuilds, PairsCarried, WorksCarried, KeepsPairs, KeepsWorks, job

\* A load, and the three ways a human changes silver.
LEMMA SilverPreserves ==
  ASSUME IInv
  PROVE  /\ \A s \in Snapshots : Load(s) => IInv'
         /\ \A p \in Pairs, verdict \in Human : DecidePair(p, verdict) => IInv'
         /\ \A m \in Mentions, w \in Works : AcceptWork(m, w) => IInv'
         /\ \A m \in Mentions : NewWork(m) => IInv'
<1>0. silver \in Database /\ Whole(silver)
  BY DEF IInv, TypeOK, NothingDangles
<1>1. ASSUME NEW s \in Snapshots, Load(s) PROVE IInv'
  <2>1. late' \in [Rebuilds -> BOOLEAN]
    BY <1>1 DEF Load, IInv, TypeOK
  <2>2. silver' \in Database /\ Whole(silver')
    BY <1>0, <1>1, IngestKeeps DEF Load
  <2> QED
    BY <1>1, <2>1, <2>2, SilverStep DEF Load
<1>O. Overtaken => late' \in [Rebuilds -> BOOLEAN]
  BY DEF Overtaken, UnderWay
<1>2. ASSUME NEW p \in Pairs, NEW verdict \in Human, DecidePair(p, verdict) PROVE IInv'
  <2>1. silver' = [entities |-> silver.entities, verdict |-> [silver.verdict EXCEPT ![p] = verdict],
                   mention |-> silver.mention, works |-> silver.works]
    BY <1>0, <1>2, Updated DEF DecidePair
  <2>2. silver' \in Database
    BY <1>0, <2>1 DEF Database, Human, Verdicts
  <2>3. Whole(silver')
    BY <1>0, <2>1 DEF Whole
  <2> QED
    BY <1>2, <2>2, <2>3, <1>O, SilverStep DEF DecidePair
<1>3. ASSUME NEW m \in Mentions, NEW w \in Works, AcceptWork(m, w) PROVE IInv'
  <2>1. silver' = Matched(silver, m, w) /\ w \in silver.works /\ silver.mention[m] # Absent
    BY <1>3 DEF AcceptWork
  <2>2. silver' \in Database /\ Whole(silver')
    BY <1>0, <2>1, MatchedKeeps DEF Whole
  <2> QED
    BY <1>3, <2>2, <1>O, SilverStep DEF AcceptWork
<1>4. ASSUME NEW m \in Mentions, NewWork(m) PROVE IInv'
  <2> DEFINE h == Heading[silver.mention[m].content]
             w == [composer |-> h.composer, title |-> h.title, stated |-> Unstated]
             made == [silver EXCEPT !.works = silver.works \union {w}]
  <2>1. silver' = Matched(made, m, w) /\ silver.mention[m] # Absent
    BY <1>4 DEF NewWork
  <2>2. w \in Works
    <3>1. silver.mention[m].content \in Contents
      BY <1>0, <2>1 DEF Database, Row
    <3> QED
      BY <3>1, HeadingAssumption DEF Works
  <2>3. made = [entities |-> silver.entities, verdict |-> silver.verdict,
                mention |-> silver.mention, works |-> silver.works \union {w}]
    BY <1>0, Updated
  <2> HIDE DEF made, w
  <2>4. made \in Database
    BY <1>0, <2>2, <2>3 DEF Database
  <2>5. made.mention[m] # Absent
    BY <2>1, <2>3
  <2>6. Whole(made)
    <3>1. w.composer \in silver.entities \union {Nobody}
      BY <1>0, <2>1 DEF Whole, w
    <3> QED
      BY <1>0, <2>3, <3>1 DEF Whole
  <2>7. w \in made.works
    BY <2>3
  <2>8. silver' \in Database /\ Whole(silver')
    BY <2>1, <2>2, <2>4, <2>5, <2>6, <2>7, MatchedKeeps DEF Whole
  <2> QED
    BY <1>4, <2>8, <1>O, SilverStep DEF NewWork
<1> QED
  BY <1>1, <1>2, <1>3, <1>4

\* The steps of a rebuild that only move it.
LEMMA JobPreserves ==
  ASSUME IInv, NEW r \in Rebuilds
  PROVE  /\ Collect(r) => IInv'
         /\ Refuse(r) => IInv'
         /\ Begin(r) => IInv'
         /\ Swap(r) => IInv'
         /\ Fail(r) => IInv'
<1> USE DEF HolderBuilds, PairsCarried, WorksCarried, NothingDangles
<1>0. silver \in Database /\ Whole(silver) /\ staging \in Database /\ Whole(staging)
  BY DEF IInv, TypeOK
<1>1. ASSUME Collect(r) PROVE IInv'
  <2>1. TypeOK'
    BY <1>0, <1>1, CollectedType DEF Collect, Goto, IInv, TypeOK, Locations
  <2> QED
    BY <1>1, <2>1 DEF Collect, Goto, IInv, TypeOK, Building, Whole, KeepsPairs, KeepsWorks
<1>2. ASSUME Refuse(r) PROVE IInv'
  <2>1. TypeOK'
    BY <1>2, EmptyIsWhole DEF Refuse, End, Goto, IInv, TypeOK, Locations
  <2> QED
    BY <1>2, <2>1 DEF Refuse, End, Goto, IInv, TypeOK, Building, Whole, KeepsPairs, KeepsWorks
<1>3. ASSUME Begin(r) PROVE IInv'
  <2>1. TypeOK'
    BY <1>3, EmptyIsWhole DEF Begin, Goto, IInv, TypeOK, Locations, Building
  <2>2. \A q \in Rebuilds \ {r} : pc'[q] \notin Building
    BY <1>3, Alone DEF Begin, Goto, IInv, TypeOK
  <2>3. pc'[r] = "replay" /\ holder' = r
    BY <1>3 DEF Begin, Goto, IInv, TypeOK
  <2>4. NothingDangles'
    BY <1>0, <1>3, EmptyIsWhole DEF Begin, Whole
  <2> QED
    BY <2>1, <2>2, <2>3, <2>4 DEF IInv, Building
<1>4. ASSUME Swap(r) PROVE IInv'
  <2>0. pc[r] = "swap" /\ holder = r
    BY <1>4 DEF Swap, IInv, Building
  <2>1. TypeOK'
    BY <1>0, <1>4, EmptyIsWhole DEF Swap, End, Goto, IInv, TypeOK, Locations
  <2>2. \A q \in Rebuilds : pc'[q] \notin Building
    BY <1>4, <2>0, Alone DEF Swap, End, Goto, IInv, TypeOK, Building
  <2>3. NothingDangles'
    BY <1>0, <1>4, EmptyIsWhole DEF Swap, Whole
  <2> QED
    BY <2>1, <2>2, <2>3 DEF IInv, Building
<1>5. ASSUME Fail(r) PROVE IInv'
  <2>0. holder = r
    BY <1>5 DEF Fail, IInv
  <2>1. TypeOK'
    BY <1>0, <1>5, EmptyIsWhole DEF Fail, End, Goto, IInv, TypeOK, Locations
  <2>2. \A q \in Rebuilds : pc'[q] \notin Building
    BY <1>5, <2>0, Alone DEF Fail, End, Goto, IInv, TypeOK, Building
  <2>3. NothingDangles'
    BY <1>0, <1>5, EmptyIsWhole DEF Fail, Whole
  <2> QED
    BY <2>1, <2>2, <2>3 DEF IInv, Building
<1> QED
  BY <1>1, <1>2, <1>3, <1>4, <1>5

\* The steps that fill the staging database.
LEMMA StagingPreserves ==
  ASSUME IInv, NEW r \in Rebuilds
  PROVE  /\ \A s \in Snapshots : Replay(r, s) => IInv'
         /\ ApplyPersons(r) => IInv'
         /\ ApplyWorks(r) => IInv'
<1> USE DEF HolderBuilds, PairsCarried, WorksCarried, NothingDangles
<1>0. /\ silver \in Database /\ Whole(silver) /\ staging \in Database /\ Whole(staging)
      /\ kept[r] \in Decisions
  BY DEF IInv, TypeOK
<1>1. ASSUME NEW s \in Snapshots, Replay(r, s) PROVE IInv'
  <2>0. pc[r] = "replay" /\ holder = r
    BY <1>1 DEF Replay, IInv, Building
  <2>1. \A q \in Rebuilds \ {r} : pc[q] \notin Building
    BY <2>0, Alone
  <2>2. staging' \in Database /\ Whole(staging')
    BY <1>0, <1>1, IngestKeeps DEF Replay
  <2>3. TypeOK'
    BY <1>1, <2>2 DEF Replay, IInv, TypeOK
  <2>4. NothingDangles'
    BY <1>0, <1>1, <2>2 DEF Replay, Whole
  <2> QED
    BY <1>1, <2>0, <2>1, <2>3, <2>4 DEF Replay, IInv, Building
<1>2. ASSUME ApplyPersons(r) PROVE IInv'
  <2>0. pc[r] = "replay" /\ holder = r
    BY <1>2 DEF ApplyPersons, IInv, Building
  <2>1. \A q \in Rebuilds \ {r} : pc[q] \notin Building
    BY <2>0, Alone
  <2> DEFINE verdicts == [p \in Pairs |-> IF p \subseteq staging.entities THEN kept[r].verdict[p] ELSE "open"]
  <2>2. staging' = [entities |-> staging.entities, verdict |-> verdicts,
                    mention |-> staging.mention, works |-> staging.works]
    BY <1>0, <1>2, Updated DEF ApplyPersons
  <2>3. verdicts \in [Pairs -> Verdicts]
    BY <1>0 DEF Decisions, Verdicts
  <2>4. staging' \in Database /\ Whole(staging')
    BY <1>0, <2>2, <2>3 DEF Database, Whole
  <2>5. KeepsPairs(staging', kept[r])
    BY <2>2 DEF KeepsPairs
  <2>6. TypeOK'
    BY <1>2, <2>4 DEF ApplyPersons, Goto, IInv, TypeOK, Locations, Building
  <2>7. NothingDangles'
    BY <1>0, <1>2, <2>4 DEF ApplyPersons, Whole
  <2>8. pc' = [pc EXCEPT ![r] = "works"] /\ UNCHANGED <<holder, kept>>
    BY <1>2 DEF ApplyPersons, Goto
  <2> HIDE DEF verdicts
  <2> QED
    BY <2>0, <2>1, <2>5, <2>6, <2>7, <2>8 DEF IInv, TypeOK, Building, KeepsPairs
<1>3. ASSUME ApplyWorks(r) PROVE IInv'
  <2>0. pc[r] = "works" /\ holder = r /\ KeepsPairs(staging, kept[r])
    BY <1>3 DEF ApplyWorks, IInv, Building
  <2>1. \A q \in Rebuilds \ {r} : pc[q] \notin Building
    BY <2>0, Alone
  <2> DEFINE works == staging.works \union Remade(r)
             row(work, m) == [content |-> staging.mention[m].content, work |-> work[m], manual |-> TRUE]
             mentions(work) == [m \in Mentions |->
                IF m \in Carried(r) THEN row(work, m) ELSE staging.mention[m]]
  <2>2. PICK work \in [Carried(r) -> works] :
            /\ \A m \in Carried(r) : SameKey(work[m], kept[r].work[m])
            /\ staging' = [entities |-> staging.entities, verdict |-> staging.verdict,
                           mention |-> mentions(work), works |-> works]
    BY <1>3 DEF ApplyWorks
  <2>3. \A m \in Carried(r) :
            /\ m \in Mentions /\ staging.mention[m] \in Row /\ staging.mention[m] # Absent
            /\ kept[r].work[m] \in Works
            /\ kept[r].work[m].composer \in staging.entities \union {Nobody}
    BY <1>0 DEF Carried, Database, Decisions
  <2>4. \A w \in Remade(r) : w \in Works /\ w.composer \in staging.entities \union {Nobody}
    BY <2>3 DEF Remade, Works
  <2>5. works \subseteq Works /\ \A w \in works : w.composer \in staging.entities \union {Nobody}
    BY <1>0, <2>4 DEF Database, Whole
  <2>6. \A m \in Carried(r) :
            /\ work[m] \in works
            /\ row(work, m) \in Row /\ row(work, m).work = work[m] /\ row(work, m).manual = TRUE
            /\ row(work, m).content = staging.mention[m].content
    BY <2>2, <2>3, <2>5 DEF Row
  <2>7. \A m \in Carried(r) : row(work, m) # Absent
    BY <2>6, AbsentAssumption
  <2> HIDE DEF works, row
  <2>8. staging' \in Database
    <3>1. mentions(work) \in [Mentions -> Row \union {Absent}]
      BY <1>0, <2>6 DEF Database
    <3> QED
      BY <1>0, <2>2, <2>5, <3>1 DEF Database
  <2>9. Whole(staging')
    BY <1>0, <2>2, <2>3, <2>5, <2>6 DEF Whole, works
  <2>10. KeepsWorks(staging', kept[r], sighted[r])
    <3> SUFFICES ASSUME NEW m \in Mentions, kept[r].work[m] # Absent, staging'.mention[m] # Absent,
                        kept[r].work[m].composer \in staging'.entities \union {Nobody}
                 PROVE  staging'.mention[m].manual /\ SameKey(staging'.mention[m].work, kept[r].work[m])
      BY DEF KeepsWorks
    <3>1. m \in Carried(r)
      BY <2>2 DEF Carried
    <3>2. staging'.mention[m] = row(work, m)
      BY <2>2, <3>1
    <3>3. row(work, m).manual /\ row(work, m).work = work[m]
      BY <2>6, <3>1
    <3> QED
      BY <2>2, <3>1, <3>2, <3>3
  <2>11. KeepsPairs(staging', kept[r])
    BY <2>0, <2>2 DEF KeepsPairs
  <2>12. pc' = [pc EXCEPT ![r] = "swap"] /\ UNCHANGED <<bucket, silver, holder, kept, todo, listed, sighted, late>>
    BY <1>3 DEF ApplyWorks, Goto
  <2>13. TypeOK'
    BY <2>8, <2>12 DEF IInv, TypeOK, Locations, Building
  <2>14. NothingDangles'
    BY <1>0, <2>9, <2>12 DEF Whole
  <2> QED
    BY <2>0, <2>1, <2>10, <2>11, <2>12, <2>13, <2>14 DEF IInv, TypeOK, Building
<1> QED
  BY <1>1, <1>2, <1>3

\* One step per action.
LEMMA StepPreserves == IInv /\ [Next]_vars => IInv'
<1> SUFFICES ASSUME IInv, [Next]_vars PROVE IInv'
  OBVIOUS
<1>1. ASSUME NEW s \in Snapshots, Finish(s) \/ Delete(s) PROVE IInv'
  <2>1. bucket' \subseteq Snapshots /\ UNCHANGED <<silver, staging, holder, pc, kept, todo, listed, sighted, late>>
    BY <1>1 DEF Finish, Delete, IInv, TypeOK, job
  <2> QED
    BY <2>1 DEF IInv, TypeOK, NothingDangles, Whole, HolderBuilds, PairsCarried, WorksCarried,
                KeepsPairs, KeepsWorks
<1>2. CASE UNCHANGED vars
  BY <1>2 DEF vars, job, IInv, TypeOK, NothingDangles, Whole, HolderBuilds, PairsCarried,
              WorksCarried, KeepsPairs, KeepsWorks
<1> QED
  BY ONLY IInv, [Next]_vars, <1>1, <1>2, SilverPreserves, JobPreserves, StagingPreserves DEF Next

\* Only Swap takes a rebuild from its last step to its end.
LEMMA SwappedBySwap ==
  ASSUME TypeOK, Next, NEW r \in Rebuilds, Swapped(r)
  PROVE  Swap(r)
<1> SUFFICES ASSUME ~Swap(r) PROVE FALSE
  OBVIOUS
<1> USE DEF Swapped, TypeOK
<1>1. ASSUME NEW s \in Snapshots, Finish(s) \/ Delete(s) \/ Load(s) PROVE FALSE
  BY <1>1 DEF Finish, Delete, Load, job
<1>2. ASSUME NEW p \in Pairs, NEW verdict \in Human, DecidePair(p, verdict) PROVE FALSE
  BY <1>2 DEF DecidePair, job
<1>3. ASSUME NEW m \in Mentions, NewWork(m) \/ \E w \in Works : AcceptWork(m, w) PROVE FALSE
  BY <1>3 DEF NewWork, AcceptWork, job
<1>4. ASSUME NEW q \in Rebuilds, Collect(q) \/ Refuse(q) \/ Begin(q) PROVE FALSE
  BY <1>4 DEF Collect, Refuse, Begin, End, Goto
<1>5. ASSUME NEW q \in Rebuilds, NEW s \in Snapshots, Replay(q, s) PROVE FALSE
  BY <1>5 DEF Replay
<1>6. ASSUME NEW q \in Rebuilds, ApplyPersons(q) \/ ApplyWorks(q) PROVE FALSE
  BY <1>6 DEF ApplyPersons, ApplyWorks, Goto
<1>7. ASSUME NEW q \in Rebuilds, Swap(q) \/ Fail(q) PROVE FALSE
  BY <1>7 DEF Swap, Fail, End, Goto
<1> QED
  BY ONLY Next, <1>1, <1>2, <1>3, <1>4, <1>5, <1>6, <1>7 DEF Next

-----------------------------------------------------------------------------
(* The theorems.                                                           *)

\* The inductive invariant of the rebuild.
THEOREM Invariant == Spec => []IInv
  BY InitEstablishes, StepPreserves, PTL DEF Spec

\* Databases, decisions and jobs are what they should be.
THEOREM Typed == Spec => []TypeOK
  BY Invariant, PTL DEF IInv

\* Replaying, dropping, remaking and matching by hand leave no mention at a
\* missing work, and no work at a missing composer.
THEOREM ReferencesHold == Spec => []NothingDangles
  BY Invariant, PTL DEF IInv

-----------------------------------------------------------------------------
(* What has been replayed.                                                 *)

\* The entities and the contents of some snapshots are in a database, the
\* newest content where they differ.
Holds(db, snaps) ==
    \A s \in snaps :
        /\ Brings[s] \subseteq db.entities
        /\ \A m \in Mentions :
            Says[s][m] # Absent /\ (\A t \in snaps : t > s => Says[t][m] = Absent) =>
                db.mention[m] # Absent /\ db.mention[m].content = Says[s][m]

\* What a rebuild has replayed is older than what it has yet to, and is in the
\* staging database.
Replayed ==
    \A r \in Rebuilds : pc[r] \in Building =>
        /\ todo[r] \subseteq listed[r]
        /\ pc[r] \in {"works", "swap"} => todo[r] = {}
        /\ \A s \in listed[r] \ todo[r], t \in todo[r] : s < t
        /\ Holds(staging, listed[r] \ todo[r])

\* A mention of the snapshot has its content, any other is as it was.
LEMMA IngestReads ==
  ASSUME NEW db \in Database, NEW s \in Snapshots
  PROVE  /\ db.entities \union Brings[s] \subseteq Ingest(db, s).entities
         /\ \A m \in Mentions :
             /\ Says[s][m] = Absent => Ingest(db, s).mention[m] = db.mention[m]
             /\ Says[s][m] # Absent => /\ Ingest(db, s).mention[m] # Absent
                                       /\ Ingest(db, s).mention[m].content = Says[s][m]
<1>1. db.entities \union Brings[s] \subseteq Ingest(db, s).entities
  BY DEF Ingest
<1>2. \A m \in Mentions : Ingest(db, s).mention[m] =
        IF m \in Changed(db, s) THEN Sighting(Says[s][m]) ELSE db.mention[m]
  BY DEF Ingest
<1>3. ASSUME NEW m \in Mentions, Says[s][m] = Absent
      PROVE  Ingest(db, s).mention[m] = db.mention[m]
  BY <1>2, <1>3 DEF Changed
<1>4. ASSUME NEW m \in Mentions, Says[s][m] # Absent
      PROVE  /\ Ingest(db, s).mention[m] # Absent
             /\ Ingest(db, s).mention[m].content = Says[s][m]
  <2>1. CASE m \in Changed(db, s)
    <3>1. Says[s][m] \in Contents /\ Meant[Says[s][m]] \in Works
      BY <1>4, SaysAssumption, MeantAssumption
    <3>2. Sighting(Says[s][m]) = [content |-> Says[s][m], work |-> Meant[Says[s][m]], manual |-> FALSE]
      BY DEF Sighting
    <3> HIDE DEF Works
    <3>3. Sighting(Says[s][m]) \in Row /\ Sighting(Says[s][m]).content = Says[s][m]
      BY <3>1, <3>2 DEF Row
    <3> QED
      BY <1>2, <2>1, <3>3, AbsentAssumption
  <2>2. CASE m \notin Changed(db, s)
    BY <1>2, <1>4, <2>2 DEF Changed
  <2> QED
    BY <2>1, <2>2
<1> QED
  BY <1>1, <1>3, <1>4

\* One more snapshot, newer than the ones replayed.
LEMMA IngestHolds ==
  ASSUME NEW db \in Database, NEW snaps \in SUBSET Snapshots, NEW s \in Snapshots,
         Holds(db, snaps), \A t \in snaps : t < s
  PROVE  Holds(Ingest(db, s), snaps \union {s})
<1> SUFFICES ASSUME NEW t \in snaps \union {s}
             PROVE  /\ Brings[t] \subseteq Ingest(db, s).entities
                    /\ \A m \in Mentions :
                        Says[t][m] # Absent /\ (\A u \in snaps \union {s} : u > t => Says[u][m] = Absent) =>
                            /\ Ingest(db, s).mention[m] # Absent
                            /\ Ingest(db, s).mention[m].content = Says[t][m]
  BY DEF Holds
<1>1. CASE t = s
  BY <1>1, IngestReads
<1>2. CASE t \in snaps
  <2>1. Brings[t] \subseteq Ingest(db, s).entities
    BY <1>2, IngestReads DEF Holds
  <2>2. ASSUME NEW m \in Mentions, Says[t][m] # Absent,
               \A u \in snaps \union {s} : u > t => Says[u][m] = Absent
        PROVE  /\ Ingest(db, s).mention[m] # Absent
               /\ Ingest(db, s).mention[m].content = Says[t][m]
    <3>1. s > t
      BY <1>2, SnapshotsAssumption
    <3>2. Ingest(db, s).mention[m] = db.mention[m]
      BY <2>2, <3>1, IngestReads
    <3>3. db.mention[m] # Absent /\ db.mention[m].content = Says[t][m]
      BY <1>2, <2>2 DEF Holds
    <3> QED
      BY <3>2, <3>3
  <2> QED
    BY <2>1, <2>2
<1> QED
  BY <1>1, <1>2

\* What is replayed does not depend on anything else in a database.
LEMMA HoldsAlike ==
  ASSUME NEW db, NEW new, NEW snaps, Holds(db, snaps), new.entities = db.entities,
         \A m \in Mentions : db.mention[m] # Absent =>
             new.mention[m] # Absent /\ new.mention[m].content = db.mention[m].content
  PROVE  Holds(new, snaps)
  BY DEF Holds

\* The steps of the rebuild that has the staging database.
LEMMA BuildReplayed ==
  ASSUME IInv, Replayed, NEW r \in Rebuilds,
         \/ Begin(r) \/ (\E s \in Snapshots : Replay(r, s)) \/ ApplyPersons(r) \/ ApplyWorks(r)
  PROVE  Replayed'
<1>0. /\ staging \in Database /\ bucket \subseteq Snapshots
      /\ pc \in [Rebuilds -> Locations] /\ todo \in [Rebuilds -> SUBSET Snapshots]
      /\ listed \in [Rebuilds -> SUBSET Snapshots]
  BY DEF IInv, TypeOK
<1>1. holder = r \/ holder = Free
  BY DEF IInv, HolderBuilds, Begin, Replay, ApplyPersons, ApplyWorks, Building
<1>2. \A q \in Rebuilds \ {r} : pc'[q] = pc[q] /\ pc[q] \notin Building
  BY <1>0, <1>1, Alone DEF Begin, Replay, ApplyPersons, ApplyWorks, Goto
<1>3. SUFFICES ASSUME pc'[r] \in Building
      PROVE  /\ todo'[r] \subseteq listed'[r]
             /\ pc'[r] \in {"works", "swap"} => todo'[r] = {}
             /\ \A s \in listed'[r] \ todo'[r], t \in todo'[r] : s < t
             /\ Holds(staging', listed'[r] \ todo'[r])
  BY <1>2 DEF Replayed
<1>4. CASE Begin(r)
  <2>1. todo'[r] = bucket /\ listed'[r] = bucket /\ pc'[r] = "replay"
    BY <1>0, <1>4 DEF Begin, Goto
  <2>2. Holds(staging', {})
    BY DEF Holds
  <2>3. listed'[r] \ todo'[r] = {}
    BY <2>1
  <2> QED
    BY <2>1, <2>2, <2>3
<1>5. ASSUME NEW s \in Snapshots, Replay(r, s)
      PROVE  /\ todo'[r] \subseteq listed'[r]
             /\ pc'[r] \in {"works", "swap"} => todo'[r] = {}
             /\ \A u \in listed'[r] \ todo'[r], t \in todo'[r] : u < t
             /\ Holds(staging', listed'[r] \ todo'[r])
  <2>1. /\ pc[r] = "replay" /\ pc'[r] = "replay" /\ s \in todo[r] /\ \A t \in todo[r] : s <= t
        /\ staging' = Ingest(staging, s) /\ todo'[r] = todo[r] \ {s} /\ listed'[r] = listed[r]
    BY <1>0, <1>5 DEF Replay
  <2>2. /\ todo[r] \subseteq listed[r] /\ Holds(staging, listed[r] \ todo[r])
        /\ \A u \in listed[r] \ todo[r], t \in todo[r] : u < t
    BY <2>1 DEF Replayed, Building
  <2>3. listed'[r] \ todo'[r] = (listed[r] \ todo[r]) \union {s}
    BY <2>1, <2>2
  <2>4. listed[r] \ todo[r] \in SUBSET Snapshots
    BY <1>0
  <2>5. Holds(Ingest(staging, s), (listed[r] \ todo[r]) \union {s})
    BY <1>0, <2>1, <2>2, <2>4, IngestHolds
  <2>6. \A u \in listed'[r] \ todo'[r], t \in todo'[r] : u < t
    <3>1. \A t \in todo[r] \ {s} : s < t
      BY <1>0, <2>1, SnapshotsAssumption
    <3> QED
      BY <2>1, <2>2, <2>3, <3>1
  <2> QED
    BY <2>1, <2>2, <2>3, <2>5, <2>6
<1>6. CASE ApplyPersons(r)
  <2>1. /\ pc[r] = "replay" /\ todo[r] = {} /\ todo' = todo /\ listed' = listed
        /\ staging'.entities = staging.entities /\ staging'.mention = staging.mention
    <3>1. \A v : [staging EXCEPT !.verdict = v].entities = staging.entities
      BY <1>0, Updated
    <3>2. \A v : [staging EXCEPT !.verdict = v].mention = staging.mention
      BY <1>0, Updated
    <3> QED
      BY <1>6, <3>1, <3>2 DEF ApplyPersons
  <2>2. Holds(staging', listed[r] \ todo[r])
    BY <2>1, HoldsAlike DEF Replayed, Building
  <2> QED
    BY <2>1, <2>2
<1>7. CASE ApplyWorks(r)
  <2> DEFINE row(work, m) == [content |-> staging.mention[m].content, work |-> work[m], manual |-> TRUE]
             made == staging.works \union Remade(r)
  <2>1. pc[r] = "works" /\ todo' = todo /\ listed' = listed
    BY <1>7 DEF ApplyWorks
  <2>2. PICK work \in [Carried(r) -> made] :
          staging' = [entities |-> staging.entities, verdict |-> staging.verdict,
                      mention |-> [m \in Mentions |->
                         IF m \in Carried(r) THEN row(work, m) ELSE staging.mention[m]],
                      works |-> made]
    BY <1>7 DEF ApplyWorks
  <2>3. /\ staging'.entities = staging.entities /\ staging'.works = made
        /\ \A m \in Mentions :
            staging'.mention[m] = IF m \in Carried(r) THEN row(work, m) ELSE staging.mention[m]
    BY <2>2
  <2>4. ASSUME NEW m \in Mentions, staging.mention[m] # Absent
        PROVE  staging'.mention[m] # Absent /\ staging'.mention[m].content = staging.mention[m].content
    <3>1. CASE m \notin Carried(r)
      BY <2>3, <2>4, <3>1
    <3>2. CASE m \in Carried(r)
      <4>1. staging'.mention[m] = row(work, m) /\ work[m] \in made
        BY <2>2, <2>3, <3>2
      <4>2. staging' \in Database
        BY <1>7, StagingPreserves DEF IInv, TypeOK
      <4>3. staging.mention[m] \in Row /\ work[m] \in Works
        BY <1>0, <2>3, <2>4, <4>1, <4>2 DEF Database
      <4>4. row(work, m) \in Row
        BY <4>3 DEF Row
      <4>5. row(work, m).content = staging.mention[m].content
        OBVIOUS
      <4> QED
        BY <4>1, <4>4, <4>5, AbsentAssumption
    <3> QED
      BY <3>1, <3>2
  <2>5. Holds(staging, listed[r] \ todo[r]) /\ todo[r] = {} /\ todo[r] \subseteq listed[r]
    BY <2>1 DEF Replayed, Building
  <2>6. Holds(staging', listed[r] \ todo[r])
    BY <2>3, <2>4, <2>5, HoldsAlike
  <2> QED
    BY <2>1, <2>5, <2>6
<1> QED
  BY <1>4, <1>5, <1>6, <1>7

\* Every other step leaves the staging database alone or ends its rebuild.
LEMMA StepReplayed ==
  ASSUME IInv, Replayed, [Next]_vars
  PROVE  Replayed'
<1>1. CASE UNCHANGED <<staging, pc, todo, listed>>
  BY <1>1 DEF Replayed, Holds
<1>2. ASSUME NEW r \in Rebuilds, Collect(r) \/ Refuse(r)
      PROVE  Replayed'
  <2>1. /\ UNCHANGED staging /\ pc'[r] \notin Building
        /\ \A q \in Rebuilds \ {r} : pc'[q] = pc[q] /\ todo'[q] = todo[q] /\ listed'[q] = listed[q]
    BY <1>2 DEF Collect, Refuse, End, Goto, IInv, TypeOK, Building
  <2> QED
    BY <2>1 DEF Replayed, Holds
<1>3. ASSUME NEW r \in Rebuilds, Swap(r) \/ Fail(r)
      PROVE  Replayed'
  <2>1. holder = r
    BY <1>3 DEF Swap, Fail, IInv, HolderBuilds, Building
  <2>2. \A q \in Rebuilds : pc'[q] \notin Building
    BY <1>3, <2>1, Alone DEF Swap, Fail, End, Goto, IInv, TypeOK, Building
  <2> QED
    BY <2>2 DEF Replayed
<1>4. \/ UNCHANGED <<staging, pc, todo, listed>>
      \/ \E r \in Rebuilds :
            \/ Collect(r) \/ Refuse(r) \/ Swap(r) \/ Fail(r)
            \/ Begin(r) \/ (\E s \in Snapshots : Replay(r, s)) \/ ApplyPersons(r) \/ ApplyWorks(r)
  BY DEF Next, vars, job, Finish, Delete, Load, DecidePair, NewWork, AcceptWork
<1> QED
  BY <1>1, <1>2, <1>3, <1>4, BuildReplayed

\* A rebuild loads every snapshot there was when it began, and where they
\* differ the newest wins, in whatever order silver had loaded them and
\* whatever is fetched, deleted, loaded or reviewed meanwhile.
THEOREM NewestContentsWin == Spec => NewestWins
<1> DEFINE Good == \A r \in Rebuilds : Swapped(r) =>
                      \A s \in listed[r] :
                          /\ Brings[s] \subseteq silver'.entities
                          /\ \A m \in Mentions :
                              Says[s][m] # Absent /\ (\A t \in listed[r] : t > s => Says[t][m] = Absent) =>
                                  silver'.mention[m] # Absent /\ silver'.mention[m].content = Says[s][m]
<1>1. Init => Replayed
  BY DEF Init, Replayed, Building
<1>2. ASSUME IInv, Replayed, [Next]_vars PROVE [Good]_vars
  <2> SUFFICES ASSUME Next, NEW r \in Rebuilds, Swapped(r) PROVE Holds(silver', listed[r])
    BY <1>2 DEF Holds
  <2>1. Swap(r) /\ pc[r] = "swap" /\ silver' = staging
    BY <1>2, SwappedBySwap DEF IInv, Swap
  <2>2. todo[r] = {} /\ Holds(staging, listed[r] \ todo[r])
    BY <1>2, <2>1 DEF Replayed, Building
  <2>3. listed[r] \ todo[r] = listed[r]
    BY <2>2
  <2> QED
    BY <2>1, <2>2, <2>3
<1>3. Spec => []Replayed
  BY <1>1, StepReplayed, Invariant, PTL DEF Spec
<1> HIDE DEF Good
<1>4. Spec => [][Good]_vars
  BY <1>2, <1>3, Invariant, PTL DEF Spec
<1> QED
  BY <1>4 DEF NewestWins, Good

-----------------------------------------------------------------------------
(* What a rebuild knows of the decisions in silver.                        *)

\* All that is decided in silver the rebuild has collected, on the same contents.
KnowsOf(silverNow, decided, seen) ==
    /\ silverNow.verdict = decided.verdict
    /\ \A m \in Mentions : Collected(silverNow).work[m] # Absent =>
        /\ Collected(silverNow).work[m] = decided.work[m]
        /\ Sights(silverNow)[m] = seen[m]
Knows(r) == UnderWay(r) /\ ~late[r] => KnowsOf(silver, kept[r], sighted[r])

\* A load only takes decisions away: a mention with a new content is no
\* longer matched by hand, and every other is as it was.
LEMMA LoadTellsNothingNew ==
  ASSUME NEW db \in Database, NEW s \in Snapshots, Whole(db), NEW decided, NEW seen,
         KnowsOf(db, decided, seen)
  PROVE  KnowsOf(Ingest(db, s), decided, seen)
<1> DEFINE new == Ingest(db, s)
<1>1. new.verdict = db.verdict
  BY IngestKeeps
<1>2. ASSUME NEW m \in Mentions, Collected(new).work[m] # Absent
      PROVE  Collected(new).work[m] = decided.work[m] /\ Sights(new)[m] = seen[m]
  <2>1. \/ new.mention[m] = db.mention[m]
        \/ new.mention[m] # Absent /\ ~new.mention[m].manual
    BY IngestKeeps
  <2>2. new.mention[m] # Absent /\ new.mention[m].manual
    BY <1>2 DEF Collected
  <2>3. new.mention[m] = db.mention[m]
    BY <2>1, <2>2
  <2> HIDE DEF new
  <2>4. Collected(new).work[m] = Collected(db).work[m] /\ Sights(new)[m] = Sights(db)[m]
    BY <2>3 DEF Collected, Sights
  <2> QED
    BY <1>2, <2>4 DEF KnowsOf
<1> QED
  BY <1>1, <1>2 DEF KnowsOf

\* What is decided, or published by another rebuild, makes a rebuild late; and
\* the collection is exact: silver holds no decision a rebuild that is not
\* late does not know.
LEMMA KnowsPreserved ==
  ASSUME IInv, Next, NEW r \in Rebuilds, Knows(r)
  PROVE  Knows(r)'
<1>0. /\ silver \in Database /\ Whole(silver)
      /\ kept \in [Rebuilds -> Decisions] /\ pc \in [Rebuilds -> Locations]
      /\ sighted \in [Rebuilds -> [Mentions -> Contents \union {Absent}]]
      /\ late \in [Rebuilds -> BOOLEAN]
  BY DEF IInv, TypeOK, NothingDangles
<1>1. ASSUME silver' = silver, pc'[r] = pc[r], kept'[r] = kept[r], sighted'[r] = sighted[r],
             late'[r] = late[r]
      PROVE  Knows(r)'
  BY <1>1 DEF Knows, KnowsOf, UnderWay, Collected, Sights
<1>2. ASSUME ~UnderWay(r)' PROVE Knows(r)'
  BY <1>2 DEF Knows
<1>3. ASSUME NEW s \in Snapshots, Finish(s) \/ Delete(s) PROVE Knows(r)'
  BY <1>1, <1>3 DEF Finish, Delete, job
<1>4. ASSUME NEW s \in Snapshots, Load(s) PROVE Knows(r)'
  <2>1. silver' = Ingest(silver, s) /\ UNCHANGED <<pc, kept, sighted, late>>
    BY <1>4 DEF Load, job
  <2>2. ASSUME UnderWay(r), ~late[r] PROVE KnowsOf(silver', kept[r], sighted[r])
    BY <1>0, <2>1, <2>2, LoadTellsNothingNew DEF Knows
  <2>3. UnderWay(r)' = UnderWay(r) /\ late'[r] = late[r] /\ kept'[r] = kept[r] /\ sighted'[r] = sighted[r]
    BY <2>1 DEF UnderWay
  <2> QED
    BY <2>2, <2>3 DEF Knows, KnowsOf, Collected, Sights
<1>5. ASSUME Overtaken, UNCHANGED job PROVE Knows(r)'
  <2>1. UnderWay(r)' = UnderWay(r) /\ late'[r] = UnderWay(r)
    BY <1>5 DEF Overtaken, UnderWay, job
  <2> QED
    BY <2>1 DEF Knows
<1>6. ASSUME NEW q \in Rebuilds, Collect(q) PROVE Knows(r)'
  <2>1. CASE q = r
    <3>1. kept'[r] = Collected(silver) /\ sighted'[r] = Sights(silver) /\ silver' = silver
      BY <1>0, <1>6, <2>1 DEF Collect
    <3> QED
      BY <3>1 DEF Knows, KnowsOf, Collected, Sights
  <2>2. CASE q # r
    BY <1>0, <1>1, <1>6, <2>2 DEF Collect, Goto
  <2> QED
    BY <2>1, <2>2
<1>7. ASSUME NEW q \in Rebuilds, Refuse(q) \/ Fail(q) PROVE Knows(r)'
  <2>1. CASE q = r
    <3>1. pc'[r] \in {"refused", "failed"}
      BY <1>0, <1>7, <2>1 DEF Refuse, Fail, End, Goto
    <3> QED
      BY <1>2, <3>1 DEF UnderWay, Building
  <2>2. CASE q # r
    BY <1>0, <1>1, <1>7, <2>2 DEF Refuse, Fail, End, Goto
  <2> QED
    BY <2>1, <2>2
<1>8. ASSUME NEW q \in Rebuilds, Swap(q) PROVE Knows(r)'
  <2>1. CASE q = r
    <3>1. pc'[r] = "done"
      BY <1>0, <1>8, <2>1 DEF Swap, End, Goto
    <3> QED
      BY <1>2, <3>1 DEF UnderWay, Building
  <2>2. CASE q # r
    <3>1. pc'[r] = pc[r]
      BY <1>0, <1>8, <2>2 DEF Swap, End, Goto
    <3>2. UnderWay(r)' = UnderWay(r)
      BY <3>1 DEF UnderWay
    <3>3. UnderWay(r) => late'[r]
      BY <1>8, <2>2 DEF Swap
    <3> QED
      BY <3>2, <3>3 DEF Knows
  <2> QED
    BY <2>1, <2>2
<1>9. ASSUME NEW q \in Rebuilds,
             Begin(q) \/ (\E s \in Snapshots : Replay(q, s)) \/ ApplyPersons(q) \/ ApplyWorks(q)
      PROVE  Knows(r)'
  <2>1. UNCHANGED <<silver, kept, sighted, late>> /\ (UnderWay(r)' => UnderWay(r))
    BY <1>0, <1>9 DEF Begin, Replay, ApplyPersons, ApplyWorks, Goto, UnderWay, Building
  <2> QED
    BY <2>1 DEF Knows, KnowsOf, Collected, Sights
<1>10. ASSUME NEW p \in Pairs, NEW verdict \in Human, DecidePair(p, verdict) PROVE Knows(r)'
  BY <1>5, <1>10 DEF DecidePair
<1>11. ASSUME NEW m \in Mentions, NewWork(m) \/ \E w \in Works : AcceptWork(m, w) PROVE Knows(r)'
  BY <1>5, <1>11 DEF NewWork, AcceptWork
<1> QED
  BY ONLY Next, <1>3, <1>4, <1>6, <1>7, <1>8, <1>9, <1>10, <1>11 DEF Next

\* "Human review decisions survive the rebuild", as far as the rebuild could
\* know of them, however many rebuilds, loads and reviews there are: what it
\* collected is in what it publishes, and of a rebuild that nothing decided or
\* published has overtaken, no decision silver holds at the swap is lost.
THEOREM CollectedDecisionsSurvive == Spec => DecisionsCarried
<1> DEFINE KInv == IInv /\ \A r \in Rebuilds : Knows(r)
           Good == \A r \in Rebuilds : Swapped(r) =>
                      /\ Keeps(silver', kept[r], sighted[r])
                      /\ ~late[r] => Keeps(silver', Collected(silver), Sights(silver))
<1>1. Init => KInv
  BY InitEstablishes DEF Init, Knows, UnderWay, Building
<1>2. KInv /\ [Next]_vars => KInv'
  <2> SUFFICES ASSUME KInv, [Next]_vars PROVE KInv'
    OBVIOUS
  <2>1. CASE Next
    BY <2>1, KnowsPreserved, StepPreserves
  <2>2. CASE UNCHANGED vars
    BY <2>2, StepPreserves DEF vars, job, Knows, KnowsOf, UnderWay, Collected, Sights
  <2> QED
    BY <2>1, <2>2
<1>3. ASSUME KInv, [Next]_vars PROVE [Good]_vars
  <2> SUFFICES ASSUME Next, NEW r \in Rebuilds, Swapped(r)
               PROVE  /\ Keeps(silver', kept[r], sighted[r])
                      /\ ~late[r] => Keeps(silver', Collected(silver), Sights(silver))
    BY <1>3
  <2>1. Swap(r) /\ Keeps(staging, kept[r], sighted[r]) /\ silver' = staging /\ pc[r] = "swap"
    BY <1>3, SwappedBySwap DEF IInv, Swapped, Swap, Keeps, PairsCarried, WorksCarried
  <2>2. Keeps(silver', kept[r], sighted[r])
    BY <2>1 DEF Keeps, KeepsPairs, KeepsWorks
  <2>3. ASSUME ~late[r] PROVE Keeps(silver', Collected(silver), Sights(silver))
    <3>1. KnowsOf(silver, kept[r], sighted[r])
      BY <1>3, <2>1, <2>3 DEF Knows, UnderWay, Building
    <3>2. Collected(silver).verdict = kept[r].verdict
      BY <3>1 DEF KnowsOf, Collected
    <3>3. \A m \in Mentions : Collected(silver).work[m] # Absent =>
            Collected(silver).work[m] = kept[r].work[m] /\ Sights(silver)[m] = sighted[r][m]
      BY <3>1 DEF KnowsOf
    <3> QED
      BY <2>2, <3>2, <3>3 DEF Keeps, KeepsPairs, KeepsWorks
  <2> QED
    BY <2>2, <2>3
<1> HIDE DEF KInv, Good
<1>4. Spec => [][Good]_vars
  BY <1>1, <1>2, <1>3, PTL DEF Spec
<1> QED
  BY <1>4 DEF DecisionsCarried, Good

-----------------------------------------------------------------------------
(* Induction, without an operator as its parameter.                        *)

\* Of some subsets of a finite set one contains no other.
SubsetsOf(bad, S) == bad \in SUBSET SUBSET S /\ bad # {} /\ IsFiniteSet(S)
LEMMA LeastSubset ==
    ASSUME NEW S, NEW bad, SubsetsOf(bad, S)
    PROVE  \E T \in bad : \A U \in bad : U \subseteq T => U = T
<1>1. bad \subseteq FiniteSubsetsOf(S) /\ bad # {} /\ IsFiniteSet(S)
  BY FS_Subset DEF FiniteSubsetsOf, SubsetsOf
<1>2. PICK T \in bad : \A U \in bad : <<U, T>> \notin StrictSubsetOrdering(S)
  BY <1>1, FS_StrictSubsetOrderingWellFounded, WFMin
<1> QED
  BY <1>1, <1>2 DEF StrictSubsetOrdering, SubsetsOf

\* What holds at 0 and goes from each number to the next holds up to N.
LEMMA UpTo ==
    ASSUME NEW N \in Nat, NEW good \in SUBSET (0 .. N), 0 \in good,
           \A i \in 0 .. N - 1 : i \in good => i + 1 \in good
    PROVE  good = 0 .. N
<1> SUFFICES ASSUME NEW n \in 0 .. N, n \notin good PROVE FALSE
  OBVIOUS
<1> DEFINE bad == {{j \in 0 .. N : j <= i} : i \in (0 .. N) \ good}
<1> DEFINE All == 0 .. N
<1>1. bad \in SUBSET SUBSET All /\ bad # {}
  OBVIOUS
<1>2. IsFiniteSet(All)
  BY FS_Interval
<1> HIDE DEF bad, All
<1>3. PICK T \in bad : \A U \in bad : U \subseteq T => U = T
  BY <1>1, <1>2, LeastSubset DEF SubsetsOf
<1>4. PICK i \in (0 .. N) \ good : T = {j \in 0 .. N : j <= i}
  BY <1>1, <1>3 DEF bad
<1>5. i # 0 /\ i - 1 \in 0 .. N - 1 /\ i \in Int
  BY <1>4
<1>6. i - 1 \notin good
  BY <1>4, <1>5
<1>7. {j \in 0 .. N : j <= i - 1} \in bad
  BY <1>5, <1>6 DEF bad
<1>8. {j \in 0 .. N : j <= i - 1} \subseteq T
  BY <1>4, <1>5
<1>9. i \in T /\ i \notin {j \in 0 .. N : j <= i - 1}
  BY <1>4, <1>5
<1> QED
  BY <1>3, <1>7, <1>8, <1>9

\* Of some numbers there is a greatest.
LEMMA GreatestOf ==
    ASSUME NEW S \in SUBSET Nat, S # {}, IsFiniteSet(S)
    PROVE  Max(S) \in S /\ \A y \in S : y <= Max(S)
<1> DEFINE From(i) == {j \in S : i <= j}
           bad == {From(i) : i \in S}
<1>1. SubsetsOf(bad, S)
  BY DEF SubsetsOf
<1> HIDE DEF bad
<1>2. PICK T \in bad : \A U \in bad : U \subseteq T => U = T
  BY <1>1, LeastSubset
<1>3. PICK i \in S : T = From(i)
  BY <1>2 DEF bad
<1>4. \A y \in S : y <= i
  <2> SUFFICES ASSUME NEW y \in S, ~(y <= i) PROVE FALSE
    OBVIOUS
  <2>1. From(y) \in bad
    BY DEF bad
  <2>2. From(y) \subseteq T /\ i \in T /\ i \notin From(y)
    <3>1. i \in Nat /\ y \in Nat /\ S \subseteq Nat
      OBVIOUS
    <3>2. i <= i /\ ~(y <= i) /\ \A j \in Nat : y <= j => i <= j
      BY <3>1
    <3>3. i \in From(i) /\ i \notin From(y) /\ From(y) \subseteq From(i)
      BY <3>1, <3>2
    <3> QED
      BY <1>3, <3>3
  <2> HIDE DEF From
  <2> QED
    BY <1>2, <2>1, <2>2
<1> HIDE DEF From
<1>5. \E x \in S : \A y \in S : x >= y
  BY <1>4
<1>6. Max(S) \in S /\ \A y \in S : Max(S) >= y
  BY <1>5 DEF Max
<1>7. Max(S) \in Nat
  BY <1>6
<1> QED
  BY <1>6, <1>7

\* What takes N steps has a result.
Runs(f, k, S, start, next) == f \in [0 .. k -> S] /\ f[0] = start /\ \A n \in 1 .. k : f[n] = next[n][f[n - 1]]
LEMMA StepsRun ==
    ASSUME NEW N \in Nat, NEW S, NEW start \in S, NEW next \in [1 .. N -> [S -> S]]
    PROVE  \E f : Runs(f, N, S, start, next)
<1> DEFINE good == {k \in 0 .. N : \E f : Runs(f, k, S, start, next)}
<1>1. 0 \in good
  <2>1. Runs([i \in 0 .. 0 |-> start], 0, S, start, next)
    BY DEF Runs
  <2> QED
    BY <2>1
<1>2. ASSUME NEW k \in 0 .. N - 1, k \in good PROVE k + 1 \in good
  <2>1. PICK f : Runs(f, k, S, start, next)
    BY <1>2
  <2>2. k \in 0 .. k /\ k + 1 \in 1 .. N /\ k + 1 \in 0 .. N /\ k + 1 \notin 0 .. k
    OBVIOUS
  <2>3. PICK end : end = next[k + 1][f[k]] /\ end \in S
    BY <2>1, <2>2 DEF Runs
  <2> DEFINE g == [i \in 0 .. k + 1 |-> IF i \in 0 .. k THEN f[i] ELSE end]
  <2>4. g \in [0 .. k + 1 -> S]
    BY <2>1, <2>3 DEF Runs
  <2>5. g[0] = start
    BY <2>1 DEF Runs
  <2>6. ASSUME NEW n \in 1 .. k + 1 PROVE g[n] = next[n][g[n - 1]]
    <3>1. CASE n = k + 1
      BY <2>2, <2>3, <3>1
    <3>2. CASE n # k + 1
      <4>1. n \in 1 .. k /\ n \in 0 .. k /\ n - 1 \in 0 .. k /\ n \in 0 .. k + 1 /\ n - 1 \in 0 .. k + 1
        BY <3>2
      <4> QED
        BY <2>1, <4>1 DEF Runs
    <3> QED
      BY <3>1, <3>2
  <2> HIDE DEF g
  <2>7. Runs(g, k + 1, S, start, next)
    BY <2>4, <2>5, <2>6 DEF Runs
  <2> QED
    BY <2>2, <2>7
<1> HIDE DEF good
<1>3. good \in SUBSET (0 .. N)
  BY DEF good
<1>4. N \in good
  BY <1>1, <1>2, <1>3, UpTo
<1> QED
  BY <1>4 DEF good

\* What the definition of a function step by step chooses is what the steps come to.
IsRun(f, N, start, next) == f = [n \in 0 .. N |-> IF n = 0 THEN start ELSE next[n][f[n - 1]]]
LEMMA RunEnds ==
    ASSUME NEW N \in Nat, NEW S, NEW start \in S, NEW next \in [1 .. N -> [S -> S]]
    PROVE  /\ \E f : IsRun(f, N, start, next)
           /\ \A f : IsRun(f, N, start, next) => \A n \in 0 .. N : f[n] \in S
<1>1. \E f : IsRun(f, N, start, next)
  <2>1. PICK f : Runs(f, N, S, start, next)
    BY StepsRun
  <2>2. \A n \in 0 .. N : f[n] = IF n = 0 THEN start ELSE next[n][f[n - 1]]
    BY <2>1 DEF Runs
  <2> QED
    BY <2>1, <2>2 DEF IsRun, Runs
<1>2. ASSUME NEW f, IsRun(f, N, start, next) PROVE \A n \in 0 .. N : f[n] \in S
  <2> DEFINE good == {n \in 0 .. N : f[n] \in S}
  <2>1. \A n \in 0 .. N : f[n] = IF n = 0 THEN start ELSE next[n][f[n - 1]]
    BY <1>2 DEF IsRun
  <2>2. 0 \in good
    BY <2>1
  <2>3. ASSUME NEW n \in 0 .. N - 1, n \in good PROVE n + 1 \in good
    <3>1. n + 1 \in 1 .. N /\ n + 1 \in 0 .. N /\ n + 1 # 0 /\ n + 1 - 1 = n
      OBVIOUS
    <3>2. f[n + 1] = next[n + 1][f[n]]
      BY <2>1, <3>1
    <3> QED
      BY <2>3, <3>1, <3>2
  <2> HIDE DEF good
  <2>4. good \in SUBSET (0 .. N)
    BY DEF good
  <2>5. good = 0 .. N
    BY <2>2, <2>3, <2>4, UpTo
  <2> QED
    BY <2>5 DEF good
<1> QED
  BY <1>1, <1>2

-----------------------------------------------------------------------------
(* The time a page takes.                                                  *)

\* What an attempt has come to after some of its waits.
Got == [came : BOOLEAN, took : 0 .. Timeout]

\* A wait takes no attempt beyond its deadline.
LEMMA WaitInTime ==
    ASSUME NEW r \in Got, NEW gap \in Nat
    PROVE  Wait(r, gap) \in Got
<1>1. r.came \in BOOLEAN /\ r.took \in 0 .. Timeout /\ Timeout \in Nat
  BY HttpAssumption DEF Got
<1>2. Clamp(r.took) \in Nat /\ r.took + Clamp(r.took) = Timeout
  BY <1>1 DEF Clamp
<1>3. CASE r.came /\ Clamp(r.took) > 0 /\ gap <= Clamp(r.took)
  <2>1. r.took + gap \in 0 .. Timeout
    BY <1>1, <1>2, <1>3
  <2> QED
    BY <1>3, <2>1 DEF Wait, Got
<1>4. CASE ~r.came
  BY <1>4 DEF Wait
<1>5. CASE r.came /\ ~(Clamp(r.took) > 0 /\ gap <= Clamp(r.took))
  BY <1>1, <1>2, <1>5 DEF Wait, Got
<1> QED
  BY <1>3, <1>4, <1>5

\* However a server deals out its answer, an attempt ends by its deadline.
LEMMA ReceivedInTime ==
    ASSUME NEW gaps \in Seq(Nat)
    PROVE  Receive(gaps) \in Got
<1> DEFINE N == Len(gaps)
           start == [came |-> TRUE, took |-> 0]
           next == [n \in 1 .. N |-> [r \in Got |-> Wait(r, gaps[n])]]
           Waits(f) == f = [n \in 0 .. N |-> IF n = 0 THEN start ELSE Wait(f[n - 1], gaps[n])]
<1>1. N \in Nat /\ start \in Got
  BY HttpAssumption DEF Got
<1>2. next \in [1 .. N -> [Got -> Got]]
  BY WaitInTime
<1>3. \E f : Waits(f)
  <2> HIDE DEF N, start, next, Got
  <2>1. PICK f : IsRun(f, N, start, next)
    BY <1>1, <1>2, RunEnds
  <2>2. \A n \in 0 .. N : f[n] \in Got
    BY <1>1, <1>2, <2>1, RunEnds
  <2>3. ASSUME NEW n \in 0 .. N, n # 0 PROVE next[n][f[n - 1]] = Wait(f[n - 1], gaps[n])
    <3>1. n \in 1 .. N /\ f[n - 1] \in Got
      BY <1>1, <2>2, <2>3
    <3> QED
      BY <3>1 DEF next
  <2>4. f = [n \in 0 .. N |-> IF n = 0 THEN start ELSE Wait(f[n - 1], gaps[n])]
    BY <2>1, <2>3 DEF IsRun
  <2> QED
    BY <2>4
<1>4. ASSUME NEW f, Waits(f) PROVE f[N] \in Got
  <2> DEFINE good == {n \in 0 .. N : f[n] \in Got}
  <2> HIDE DEF N, start, next
  <2>1. \A n \in 0 .. N : f[n] = IF n = 0 THEN start ELSE Wait(f[n - 1], gaps[n])
    BY <1>4
  <2>2. 0 \in good
    BY <1>1, <2>1
  <2>3. ASSUME NEW n \in 0 .. N - 1, n \in good PROVE n + 1 \in good
    <3>1. n + 1 \in 1 .. N /\ n + 1 \in 0 .. N /\ n + 1 # 0 /\ n + 1 - 1 = n
      BY <1>1
    <3>2. f[n + 1] = Wait(f[n], gaps[n + 1]) /\ gaps[n + 1] \in Nat
      BY <2>1, <3>1 DEF N
    <3> QED
      BY <2>3, <3>1, <3>2, WaitInTime
  <2>4. good \in SUBSET (0 .. N)
    OBVIOUS
  <2> HIDE DEF good
  <2>5. N \in good
    BY <1>1, <2>2, <2>3, <2>4, UpTo
  <2> QED
    BY <2>5 DEF good
<1>5. Receive(gaps) = (CHOOSE f : Waits(f))[N]
  BY DEF Receive
<1> HIDE DEF Waits, N
<1>6. Waits(CHOOSE f : Waits(f))
  BY <1>3
<1> QED
  BY <1>4, <1>5, <1>6

\* The longer of two waits.
LEMMA LongerOf ==
    ASSUME NEW a \in Nat, NEW b \in Nat
    PROVE  Max({a, b}) \in Nat /\ a <= Max({a, b}) /\ b <= Max({a, b})
<1>1. \E x \in {a, b} : \A y \in {a, b} : x >= y
  OBVIOUS
<1> QED
  BY <1>1 DEF Max

\* The back-off is a number.
LEMMA BackOff ==
    ASSUME NEW n \in Nat
    PROVE  2 ^ n \in Nat
<1> DEFINE S == 1 .. n
<1>1. IsFiniteSet(S) /\ Cardinality(S) = n
  BY FS_Interval
<1> HIDE DEF S
<1>2. IsFiniteSet(SUBSET S) /\ Cardinality(SUBSET S) = 2 ^ Cardinality(S)
  BY <1>1, FS_SUBSET
<1> QED
  BY <1>1, <1>2, FS_CardinalityType

\* What a server makes of the attempts at a page, if it asks for no more
\* patience than longest.
Fair(reaction, longest) ==
    /\ reaction.gaps \in Seq(Nat)
    /\ reaction.accepted \in BOOLEAN
    /\ reaction.retryAfter \in Nat /\ reaction.retryAfter <= longest
Calls == [now : Nat, ended : Nat, requests : Nat, came : BOOLEAN]

\* The pause before a request, its deadline and the wait after it are all
\* an attempt takes.
LEMMA AttemptInTime ==
    ASSUME NEW longest \in Nat, NEW c \in Calls, c.ended <= c.now,
           NEW n \in 1 .. Retries, NEW reaction, Fair(reaction, longest)
    PROVE  /\ Attempt(c, n, reaction) \in Calls
           /\ Attempt(c, n, reaction).ended <= Attempt(c, n, reaction).now
           /\ n < Retries => Attempt(c, n, reaction).now <= c.now + (Delay + Timeout) + Max({2 ^ n, longest})
           /\ n = Retries => Attempt(c, n, reaction).now <= c.now + (Delay + Timeout)
<1>1. c.now \in Nat /\ c.ended \in Nat /\ c.requests \in Nat /\ c.came \in BOOLEAN /\ Delay \in Nat /\ Timeout \in Nat
      /\ n \in Nat /\ Retries \in Nat
  BY HttpAssumption DEF Calls
<1>2. Pause(c) \in Nat /\ Pause(c) <= Delay
  BY <1>1 DEF Pause
<1>3. Receive(reaction.gaps).came \in BOOLEAN /\ Receive(reaction.gaps).took \in 0 .. Timeout
  BY ReceivedInTime DEF Got, Fair
<1>4. PICK got : got = Receive(reaction.gaps)
  OBVIOUS
<1>5. PICK tried : tried = SendOnce(c, reaction)
  OBVIOUS
<1>6. PICK end : end = c.now + Pause(c) + got.took
  OBVIOUS
<1>7. tried = [now |-> end, ended |-> end, requests |-> c.requests + 1, came |-> got.came /\ reaction.accepted]
  BY <1>4, <1>5, <1>6 DEF SendOnce
<1>8. end \in Nat /\ end <= c.now + (Delay + Timeout)
  BY <1>1, <1>2, <1>3, <1>4, <1>6
<1>9. tried \in Calls /\ tried.now = end /\ tried.ended = end
  BY <1>1, <1>3, <1>4, <1>7, <1>8 DEF Calls, Fair
<1>10. PICK backoff : backoff = 2 ^ n /\ backoff \in Nat
  BY <1>1, BackOff
<1>11. RetryWait(n, reaction) \in Nat /\ RetryWait(n, reaction) <= Max({backoff, longest}) /\ Max({backoff, longest}) \in Nat
  <2>1. reaction.retryAfter \in Nat /\ reaction.retryAfter <= longest
    BY DEF Fair
  <2>2. Max({backoff, longest}) \in Nat /\ backoff <= Max({backoff, longest}) /\ longest <= Max({backoff, longest})
    BY <1>10, LongerOf
  <2>3. Max({backoff, reaction.retryAfter}) \in {backoff, reaction.retryAfter}
    <3>1. \E x \in {backoff, reaction.retryAfter} : \A y \in {backoff, reaction.retryAfter} : x >= y
      BY <1>10, <2>1
    <3> QED
      BY <3>1 DEF Max
  <2>4. RetryWait(n, reaction) \in {backoff, reaction.retryAfter}
    BY <1>10, <2>3 DEF RetryWait
  <2> QED
    BY <1>10, <2>1, <2>2, <2>4
<1>12. PICK wait : wait = RetryWait(n, reaction)
  OBVIOUS
<1>13. CASE c.came
  BY <1>1, <1>10, <1>11, <1>13 DEF Attempt
<1>14. CASE ~c.came /\ (tried.came \/ n = Retries)
  <2>1. Attempt(c, n, reaction) = tried
    BY <1>5, <1>14 DEF Attempt
  <2> QED
    BY <1>1, <1>8, <1>9, <1>10, <1>11, <2>1
<1>15. CASE ~c.came /\ ~tried.came /\ n # Retries
  <2>1. Attempt(c, n, reaction) = [tried EXCEPT !.now = @ + wait]
    BY <1>5, <1>12, <1>15 DEF Attempt
  <2>2. [tried EXCEPT !.now = @ + wait].now = end + wait /\ [tried EXCEPT !.now = @ + wait].ended = end
        /\ [tried EXCEPT !.now = @ + wait] \in Calls
    BY <1>8, <1>9, <1>11, <1>12 DEF Calls
  <2> QED
    BY <1>1, <1>8, <1>10, <1>11, <1>12, <1>15, <2>1, <2>2
<1> QED
  BY <1>13, <1>14, <1>15

LEMMA OneMore ==
    ASSUME NEW n \in Nat, NEW b \in Nat
    PROVE  n * b \in Nat /\ (n + 1) * b \in Nat /\ (n + 1) * b = n * b + b /\ 0 * b = 0
  OBVIOUS

\* The waits between the attempts at a page, added up.
Adds(w, longest) == w = [n \in 0 .. Retries - 1 |-> IF n = 0 THEN 0 ELSE w[n - 1] + Max({2 ^ n, longest})]
LEMMA WaitsAddUp ==
    ASSUME NEW longest \in Nat
    PROVE  \E w : /\ \A n \in 0 .. Retries - 1 : w[n] \in Nat
                  /\ w[0] = 0
                  /\ \A n \in 1 .. Retries - 1 : w[n] = w[n - 1] + Max({2 ^ n, longest}) /\ Max({2 ^ n, longest}) \in Nat
                  /\ PageBudget(longest) = Retries * (Delay + Timeout) + w[Retries - 1]
<1> DEFINE N == Retries - 1
           next == [n \in 1 .. N |-> [sum \in Nat |-> sum + Max({2 ^ n, longest})]]
<1>1. N \in Nat
  BY HttpAssumption
<1>2. ASSUME NEW n \in 1 .. N PROVE Max({2 ^ n, longest}) \in Nat
  <2>1. n \in Nat
    BY <1>1
  <2>2. 2 ^ n \in Nat
    BY <2>1, BackOff
  <2> QED
    BY <2>2, LongerOf
<1>3. next \in [1 .. N -> [Nat -> Nat]]
  BY <1>2
<1>4. \E w : Adds(w, longest)
  <2> HIDE DEF N, next
  <2>1. PICK w : IsRun(w, N, 0, next)
    BY <1>1, <1>3, RunEnds
  <2>2. \A n \in 0 .. N : w[n] \in Nat
    BY <1>1, <1>3, <2>1, RunEnds
  <2>3. ASSUME NEW n \in 0 .. N, n # 0 PROVE next[n][w[n - 1]] = w[n - 1] + Max({2 ^ n, longest})
    <3>1. n \in 1 .. N /\ w[n - 1] \in Nat
      BY <1>1, <2>2, <2>3
    <3> QED
      BY <3>1 DEF next
  <2>4. w = [n \in 0 .. N |-> IF n = 0 THEN 0 ELSE w[n - 1] + Max({2 ^ n, longest})]
    BY <2>1, <2>3 DEF IsRun
  <2> QED
    BY <2>4 DEF Adds, N
<1>5. PICK w : w = CHOOSE v : Adds(v, longest)
  OBVIOUS
<1>6. Adds(w, longest)
  BY <1>4, <1>5
<1>7. PageBudget(longest) = Retries * (Delay + Timeout) + w[Retries - 1]
  BY <1>5 DEF PageBudget, Adds
<1>8. w[0] = 0 /\ \A n \in 1 .. N : w[n] = w[n - 1] + Max({2 ^ n, longest})
  <2>1. w = [n \in 0 .. N |-> IF n = 0 THEN 0 ELSE w[n - 1] + Max({2 ^ n, longest})]
    BY <1>6 DEF Adds
  <2> HIDE DEF N
  <2>2. 0 \in 0 .. N /\ \A n \in 1 .. N : n \in 0 .. N /\ n # 0
    BY <1>1
  <2> QED
    BY <2>1, <2>2
<1> DEFINE good == {n \in 0 .. N : w[n] \in Nat}
<1> HIDE DEF N
<1>9. 0 \in good
  BY <1>1, <1>8
<1>10. ASSUME NEW n \in 0 .. N - 1, n \in good PROVE n + 1 \in good
  <2>1. n + 1 \in 1 .. N /\ n + 1 \in 0 .. N /\ n + 1 # 0 /\ n + 1 - 1 = n
    BY <1>1
  <2>2. w[n + 1] = w[n] + Max({2 ^ (n + 1), longest})
    BY <1>8, <2>1
  <2> QED
    BY <1>2, <1>10, <2>1, <2>2
<1>11. good \in SUBSET (0 .. N)
  OBVIOUS
<1> HIDE DEF good
<1>12. good = 0 .. N
  BY <1>1, <1>9, <1>10, <1>11, UpTo
<1>13. \A n \in 0 .. N : w[n] \in Nat
  BY <1>12 DEF good
<1> QED
  BY <1>2, <1>7, <1>8, <1>13 DEF N

\* A page takes no longer than its budget, whatever becomes of it.
Timed == {c \in Calls : c.ended <= c.now}
AllFair(reactions, longest) == \A n \in 1 .. Retries : Fair(reactions[n], longest)
LEMMA PageInTime ==
    ASSUME NEW longest \in Nat, NEW reactions, AllFair(reactions, longest),
           NEW call \in Calls, call.now = 0, call.ended = 0
    PROVE  /\ CallWithRetries(call, reactions).now \in Nat
           /\ CallWithRetries(call, reactions).now <= PageBudget(longest)
<1> DEFINE start == [call EXCEPT !.came = FALSE]
           next == [n \in 1 .. Retries |-> [c \in Timed |-> Attempt(c, n, reactions[n])]]
           Calling(f) == f = [n \in 0 .. Retries |-> IF n = 0 THEN start ELSE Attempt(f[n - 1], n, reactions[n])]
<1>1. Retries \in Nat /\ Retries >= 1 /\ Delay \in Nat /\ Timeout \in Nat
  BY HttpAssumption
<1>2. start \in Timed /\ start.now = 0
  <2>1. call.now = 0 /\ call.ended = 0 /\ call.requests \in Nat /\ call.came \in BOOLEAN
    BY DEF Calls
  <2>2. start \in Calls
    BY DEF Calls
  <2>3. start.now = 0 /\ start.ended = 0
    BY DEF Calls
  <2> HIDE DEF start
  <2> QED
    BY <2>2, <2>3 DEF Timed
<1>3. ASSUME NEW n \in 1 .. Retries, NEW c \in Timed
      PROVE  /\ Attempt(c, n, reactions[n]) \in Timed
             /\ n < Retries => Attempt(c, n, reactions[n]).now <= c.now + (Delay + Timeout) + Max({2 ^ n, longest})
             /\ n = Retries => Attempt(c, n, reactions[n]).now <= c.now + (Delay + Timeout)
  <2>1. c \in Calls /\ c.ended <= c.now /\ Fair(reactions[n], longest)
    BY <1>3 DEF Timed, AllFair
  <2> QED
    BY <2>1, AttemptInTime DEF Timed
<1>4. next \in [1 .. Retries -> [Timed -> Timed]]
  BY <1>3
<1> HIDE DEF start, next
<1>5. \E f : Calling(f)
  <2>1. PICK f : IsRun(f, Retries, start, next)
    BY <1>1, <1>2, <1>4, RunEnds
  <2>2. \A n \in 0 .. Retries : f[n] \in Timed
    BY <1>1, <1>2, <1>4, <2>1, RunEnds
  <2>3. ASSUME NEW n \in 0 .. Retries, n # 0 PROVE next[n][f[n - 1]] = Attempt(f[n - 1], n, reactions[n])
    <3>1. n \in 1 .. Retries /\ f[n - 1] \in Timed
      BY <1>1, <2>2, <2>3
    <3> QED
      BY <3>1 DEF next
  <2>4. f = [n \in 0 .. Retries |-> IF n = 0 THEN start ELSE Attempt(f[n - 1], n, reactions[n])]
    BY <2>1, <2>3 DEF IsRun
  <2> QED
    BY <2>4
<1>6. PICK w : /\ \A n \in 0 .. Retries - 1 : w[n] \in Nat
               /\ w[0] = 0
               /\ \A n \in 1 .. Retries - 1 : w[n] = w[n - 1] + Max({2 ^ n, longest}) /\ Max({2 ^ n, longest}) \in Nat
               /\ PageBudget(longest) = Retries * (Delay + Timeout) + w[Retries - 1]
  BY WaitsAddUp
<1>7. PICK B : B = Delay + Timeout /\ B \in Nat
  BY <1>1
<1> DEFINE Sofar(n) == n * B + w[IF n < Retries THEN n ELSE Retries - 1]
<1>8. ASSUME NEW f, Calling(f) PROVE f[Retries] \in Timed /\ f[Retries].now <= Sofar(Retries)
  <2> DEFINE good == {n \in 0 .. Retries : f[n] \in Timed /\ f[n].now <= Sofar(n)}
  <2>1. f[0] = start /\ \A n \in 1 .. Retries : f[n] = Attempt(f[n - 1], n, reactions[n])
    <3>1. 0 \in 0 .. Retries /\ \A n \in 1 .. Retries : n \in 0 .. Retries /\ n # 0
      BY <1>1
    <3> QED
      BY <1>8, <3>1
  <2>2. 0 \in good
    <3>1. Sofar(0) = 0
      BY <1>1, <1>6, <1>7
    <3> QED
      BY <1>1, <1>2, <2>1, <3>1
  <2>3. ASSUME NEW n \in 0 .. Retries - 1, n \in good PROVE n + 1 \in good
    <3>1. n + 1 \in 1 .. Retries /\ n + 1 \in 0 .. Retries /\ n + 1 - 1 = n /\ n < Retries /\ n \in Nat /\ n \in 0 .. Retries - 1
      BY <1>1
    <3>2. f[n] \in Timed /\ f[n].now <= n * B + w[n]
      BY <2>3, <3>1
    <3>3. PICK made : made = f[n + 1]
      OBVIOUS
    <3>4. made = Attempt(f[n], n + 1, reactions[n + 1])
      BY <2>1, <3>1, <3>3
    <3>5. /\ made \in Timed
          /\ n + 1 < Retries => made.now <= f[n].now + B + Max({2 ^ (n + 1), longest})
          /\ n + 1 = Retries => made.now <= f[n].now + B
      BY <1>3, <1>7, <3>1, <3>2, <3>4
    <3>6. f[n].now \in Nat /\ made.now \in Nat /\ w[n] \in Nat
      BY <1>6, <3>1, <3>2, <3>5 DEF Timed, Calls
    <3>7. n * B \in Nat /\ (n + 1) * B \in Nat /\ (n + 1) * B = n * B + B
      BY <1>7, <3>1, OneMore
    <3>8. made.now <= Sofar(n + 1)
      <4>1. CASE n + 1 < Retries
        <5>1. n + 1 \in 1 .. Retries - 1
          BY <1>1, <3>1, <4>1
        <5>2. PICK m : m = Max({2 ^ (n + 1), longest}) /\ m \in Nat /\ w[n + 1] = w[n] + m
          BY <1>6, <3>1, <5>1
        <5>3. made.now <= f[n].now + B + m
          BY <3>5, <4>1, <5>2
        <5>4. Sofar(n + 1) = (n + 1) * B + w[n + 1]
          BY <4>1
        <5> HIDE DEF Sofar
        <5> QED
          BY <1>7, <3>2, <3>6, <3>7, <5>2, <5>3, <5>4
      <4>2. CASE n + 1 = Retries
        <5>1. Sofar(n + 1) = (n + 1) * B + w[n]
          BY <1>1, <3>1, <4>2
        <5>2. made.now <= f[n].now + B
          BY <3>5, <4>2
        <5> HIDE DEF Sofar
        <5> QED
          BY <1>7, <3>2, <3>6, <3>7, <5>1, <5>2
      <4> QED
        BY <1>1, <3>1, <4>1, <4>2
    <3> HIDE DEF Sofar
    <3> QED
      BY <3>1, <3>3, <3>5, <3>8
  <2>4. good \in SUBSET (0 .. Retries)
    OBVIOUS
  <2> HIDE DEF good
  <2>5. good = 0 .. Retries
    BY <1>1, <2>2, <2>3, <2>4, UpTo
  <2>6. Retries \in good
    BY <1>1, <2>5
  <2> QED
    BY <2>6 DEF good
<1>9. Sofar(Retries) = PageBudget(longest)
  BY <1>1, <1>6, <1>7
<1>10. CallWithRetries(call, reactions) = (CHOOSE f : Calling(f))[Retries]
  BY DEF CallWithRetries, start
<1> HIDE DEF Calling, Sofar
<1>11. Calling(CHOOSE f : Calling(f))
  BY <1>5
<1>12. CallWithRetries(call, reactions) \in Timed /\ CallWithRetries(call, reactions).now <= Sofar(Retries)
  BY <1>8, <1>10, <1>11
<1> QED
  BY <1>9, <1>12 DEF Timed, Calls

\* A table of numbers with finitely many entries has a greatest one.
Entries(S, f, At) == S = {f[at] : at \in At}
LEMMA GreatestEntry ==
    ASSUME NEW At, IsFiniteSet(At), At # {}, NEW f \in [At -> Nat], NEW S, Entries(S, f, At)
    PROVE  Max(S) \in Nat /\ \A at \in At : f[at] <= Max(S)
<1>1. S \in SUBSET Nat /\ S # {} /\ f \in [At -> S] /\ \A s \in S : \E at \in At : f[at] = s
  BY DEF Entries
<1>2. \A at \in At : f[at] \in S
  BY DEF Entries
<1>3. f \in Surjection(At, S)
  BY <1>1 DEF Surjection
<1>4. IsFiniteSet(S)
  BY <1>3, FS_Surjection
<1>5. Max(S) \in S /\ \A y \in S : y <= Max(S)
  BY <1>1, <1>4, GreatestOf
<1> QED
  BY <1>1, <1>2, <1>5

\* The pairs of two finite sets.
PairsOf(P, S, T) == P = S \X T
LEMMA FinitelyManyPairs ==
    ASSUME NEW S, NEW T, NEW P, PairsOf(P, S, T), IsFiniteSet(S), IsFiniteSet(T)
    PROVE  /\ IsFiniteSet(P)
           /\ \A p \in P : p[1] \in S /\ p[2] \in T
           /\ \A s \in S, t \in T : \E p \in P : p[1] = s /\ p[2] = t
<1>1. IsFiniteSet(S \X T)
  BY FS_Product
<1>2. P = S \X T
  BY DEF PairsOf
<1>3. \A p \in P : p[1] \in S /\ p[2] \in T
  BY <1>2
<1>4. ASSUME NEW s \in S, NEW t \in T PROVE \E p \in P : p[1] = s /\ p[2] = t
  <2>1. PICK p : p = <<s, t>>
    OBVIOUS
  <2>2. p \in P /\ p[1] = s /\ p[2] = t
    BY <1>2, <2>1
  <2> QED
    BY <2>2
<1> QED
  BY <1>1, <1>2, <1>3, <1>4

\* The greatest patience some server asks for.
LEMMA SomebodyAsksLongest ==
    /\ LongestAsked \in Nat
    /\ \A k \in DOMAIN Reactions, n \in 1 .. Retries : Reactions[k][n].retryAfter <= LongestAsked
<1>1. IsFiniteSet(DOMAIN Reactions) /\ "calm" \in DOMAIN Reactions /\ IsFiniteSet(1 .. Retries) /\ 1 \in 1 .. Retries
  <2>1. Retries \in Int /\ 1 \in Int /\ 1 \in 1 .. Retries
    BY HttpAssumption
  <2> QED
    BY <2>1, ReactionsAssumption, FS_Interval
<1>2. PICK At : At = (DOMAIN Reactions) \X (1 .. Retries)
  OBVIOUS
<1>3. PICK D, N : D = DOMAIN Reactions /\ N = 1 .. Retries
  OBVIOUS
<1>4. /\ IsFiniteSet(At)
      /\ \A at \in At : at[1] \in D /\ at[2] \in N
      /\ \A k \in D, n \in N : \E at \in At : at[1] = k /\ at[2] = n
  <2>1. PairsOf(At, D, N)
    BY <1>2, <1>3 DEF PairsOf
  <2>2. IsFiniteSet(D) /\ IsFiniteSet(N)
    BY <1>1, <1>3
  <2> QED
    BY <2>1, <2>2, FinitelyManyPairs
<1>5. PICK f : f = [at \in At |-> Reactions[at[1]][at[2]].retryAfter]
  OBVIOUS
<1>6. f \in [At -> Nat]
  <2>1. \A at \in At : Reactions[at[1]][at[2]].retryAfter \in Nat
    BY <1>3, <1>4, ReactionsAssumption
  <2> QED
    BY <1>5, <2>1
<1>7. PICK S : S = {Reactions[at[1]][at[2]].retryAfter : at \in At} /\ LongestAsked = Max(S)
  BY <1>2, Zenon DEF LongestAsked
<1>8. At # {}
  BY <1>1, <1>3, <1>4
<1>9. LongestAsked \in Nat /\ \A at \in At : f[at] <= LongestAsked
  <2>1. Entries(S, f, At)
    BY <1>5, <1>7 DEF Entries
  <2> QED
    BY <1>4, <1>6, <1>7, <1>8, <2>1, GreatestEntry
<1>10. ASSUME NEW k \in DOMAIN Reactions, NEW n \in 1 .. Retries PROVE Reactions[k][n].retryAfter <= LongestAsked
  <2>1. PICK at \in At : at[1] = k /\ at[2] = n
    BY <1>3, <1>4
  <2>2. f[at] = Reactions[k][n].retryAfter
    BY <1>5, <2>1
  <2> QED
    BY <1>9, <2>1, <2>2
<1> QED
  BY <1>9, <1>10

\* A page of any run, whatever its misfortune.
LEMMA CallInTime ==
    ASSUME NEW event, NEW url
    PROVE  Call(event, url).now \in Nat /\ Call(event, url).now <= PageBudget(LongestAsked)
<1> DEFINE begun == [now |-> 0, ended |-> 0, requests |-> 0, came |-> FALSE]
<1>1. PICK k \in DOMAIN Reactions : ReactionsTo(event, url) = Reactions[k]
  BY ReactionsAssumption DEF ReactionsTo
<1>2. AllFair(Reactions[k], LongestAsked)
  BY ReactionsAssumption, SomebodyAsksLongest DEF AllFair, Fair
<1>3. begun \in Calls /\ begun.now = 0 /\ begun.ended = 0
  BY DEF Calls
<1>4. Call(event, url) = CallWithRetries(begun, Reactions[k])
  BY <1>1 DEF Call
<1> HIDE DEF begun
<1> QED
  BY <1>2, <1>3, <1>4, SomebodyAsksLongest, PageInTime

\* The budget of a page is a number of seconds.
LEMMA BudgetIsANumber == PageBudget(LongestAsked) \in Nat
<1>1. PICK w : /\ \A n \in 0 .. Retries - 1 : w[n] \in Nat
               /\ PageBudget(LongestAsked) = Retries * (Delay + Timeout) + w[Retries - 1]
  BY WaitsAddUp, SomebodyAsksLongest
<1>2. Retries \in Nat /\ Retries - 1 \in 0 .. Retries - 1 /\ Delay + Timeout \in Nat
  BY HttpAssumption
<1>3. Retries * (Delay + Timeout) \in Nat
  BY <1>2, OneMore
<1> QED
  BY <1>1, <1>2, <1>3

\* The pages of a run, however many it asked for, one budget each.
LEMMA RunInTime ==
    ASSUME NEW event, NEW asked, Len(asked) \in Nat
    PROVE  Spent(event, asked) <= Len(asked) * PageBudget(LongestAsked)
<1> DEFINE next == [n \in 1 .. Len(asked) |-> [sum \in Nat |-> sum + Call(event, asked[n]).now]]
           Sums(f) == f = [n \in 0 .. Len(asked) |-> IF n = 0 THEN 0 ELSE f[n - 1] + Call(event, asked[n]).now]
<1>1. PICK N : N = Len(asked) /\ N \in Nat
  OBVIOUS
<1>2. PICK B : B = PageBudget(LongestAsked)
  OBVIOUS
<1>3. B \in Nat
  BY <1>2, BudgetIsANumber
<1>4. ASSUME NEW n \in 1 .. N PROVE Call(event, asked[n]).now \in Nat /\ Call(event, asked[n]).now <= B
  BY <1>2, CallInTime
<1>5. next \in [1 .. N -> [Nat -> Nat]]
  BY <1>1, <1>4
<1> HIDE DEF next
<1>6. \E f : Sums(f)
  <2>1. PICK f : IsRun(f, N, 0, next)
    BY <1>1, <1>5, RunEnds
  <2>2. \A n \in 0 .. N : f[n] \in Nat
    BY <1>1, <1>5, <2>1, RunEnds
  <2>3. ASSUME NEW n \in 0 .. N, n # 0 PROVE next[n][f[n - 1]] = f[n - 1] + Call(event, asked[n]).now
    <3>1. n \in 1 .. N /\ f[n - 1] \in Nat
      BY <1>1, <2>2, <2>3
    <3> QED
      BY <1>1, <3>1 DEF next
  <2>4. f = [n \in 0 .. N |-> IF n = 0 THEN 0 ELSE f[n - 1] + Call(event, asked[n]).now]
    BY <2>1, <2>3 DEF IsRun
  <2> QED
    BY <1>1, <2>4
<1>7. ASSUME NEW f, Sums(f) PROVE f[N] <= N * B
  <2> DEFINE good == {n \in 0 .. N : f[n] \in Nat /\ f[n] <= n * B}
  <2>1. f[0] = 0 /\ \A n \in 1 .. N : f[n] = f[n - 1] + Call(event, asked[n]).now
    <3>1. 0 \in 0 .. N /\ \A n \in 1 .. N : n \in 0 .. N /\ n # 0
      BY <1>1
    <3>2. f = [n \in 0 .. N |-> IF n = 0 THEN 0 ELSE f[n - 1] + Call(event, asked[n]).now]
      BY <1>1, <1>7
    <3> HIDE DEF Sums
    <3> QED
      BY <3>1, <3>2
  <2> HIDE DEF Sums
  <2>2. 0 \in good
    BY <1>1, <1>3, <2>1, OneMore
  <2>3. ASSUME NEW n \in 0 .. N - 1, n \in good PROVE n + 1 \in good
    <3>1. n + 1 \in 1 .. N /\ n + 1 \in 0 .. N /\ n + 1 - 1 = n /\ n \in Nat
      BY <1>1
    <3>2. PICK page : page = Call(event, asked[n + 1]).now /\ page \in Nat /\ page <= B
      BY <1>4, <3>1
    <3>3. f[n + 1] = f[n] + page /\ f[n] \in Nat /\ f[n] <= n * B
      BY <2>1, <2>3, <3>1, <3>2
    <3>4. n * B \in Nat /\ (n + 1) * B = n * B + B /\ (n + 1) * B \in Nat
      BY <1>3, <3>1, OneMore
    <3>5. f[n + 1] \in Nat /\ f[n + 1] <= (n + 1) * B
      BY <1>3, <3>2, <3>3, <3>4
    <3> QED
      BY <3>1, <3>5
  <2>4. good \in SUBSET (0 .. N)
    OBVIOUS
  <2> HIDE DEF good
  <2>5. good = 0 .. N
    BY <1>1, <2>2, <2>3, <2>4, UpTo
  <2>6. N \in good
    BY <1>1, <2>5
  <2> QED
    BY <2>6 DEF good
<1>8. Spent(event, asked) = (CHOOSE f : Sums(f))[N]
  BY <1>1 DEF Spent
<1> HIDE DEF Sums
<1>9. Sums(CHOOSE f : Sums(f))
  BY <1>6
<1> QED
  BY <1>1, <1>2, <1>7, <1>8, <1>9

\* No run yet, or one that came to an end: what it asked for can be counted.
CrawlEnded == last.asked \in Nat

\* Whatever the sites, their answers and the mirror, a crawl that asks for
\* some number of pages takes no longer than that many page budgets. The
\* deadline of each attempt carries it; how long a server draws out its
\* answer does not matter.
THEOREM PagesAreBounded == FetchesSpec => [](CrawlEnded => NoPageHoldsTheCrawl)
<1> DEFINE Good == CrawlEnded => NoPageHoldsTheCrawl
<1>1. FetchesInit => Good
  <2> SUFFICES ASSUME FetchesInit PROVE NoPageHoldsTheCrawl
    OBVIOUS
  <2>1. last.asked = 0 /\ last.spent = 0
    BY DEF FetchesInit, NoRun
  <2>2. PICK B : B = PageBudget(LongestAsked)
    OBVIOUS
  <2>3. 0 * B = 0
    BY <2>2, BudgetIsANumber, OneMore
  <2> QED
    BY <2>1, <2>2, <2>3 DEF NoPageHoldsTheCrawl
<1>2. Good /\ [FetchesNext]_crawls => Good'
  <2>1. ASSUME Run PROVE Good'
    <3>1. PICK source, event, whole, c :
            last' = [source |-> source, event |-> event, told |-> Told(c), count |-> Len(c.docs), whole |-> Told(whole),
                     state |-> c.state, asked |-> Len(c.asked), spent |-> Spent(event, c.asked), runs |-> last.runs + 1]
      BY <2>1, Zenon DEF Run
    <3>2. ASSUME Len(c.asked) \in Nat PROVE last'.spent <= last'.asked * PageBudget(LongestAsked)
      BY <3>1, <3>2, RunInTime
    <3> QED
      BY <3>1, <3>2 DEF CrawlEnded, NoPageHoldsTheCrawl
  <2>2. ASSUME Good, UNCHANGED last PROVE Good'
    BY <2>2 DEF CrawlEnded, NoPageHoldsTheCrawl
  <2> QED
    BY <2>1, <2>2 DEF FetchesNext, Grow, Age, EditRequest, Damage, crawls
<1> QED
  BY <1>1, <1>2, PTL DEF FetchesSpec

=============================================================================
