------------------------- MODULE SqliteBuildProofs -------------------------
(***************************************************************************)
(* Proofs about SqliteBuild when no two builds overlap: for any number of  *)
(* builders, builds, passes, files and readers, with builders killed and   *)
(* started again at any moment.                                            *)
(*                                                                         *)
(* A file is the builder's from the connection that creates it to the      *)
(* swap: what is open is <path>.tmp, no reader has it, and it holds the    *)
(* passes finished so far and nothing else.  What a killed builder leaves  *)
(* at <path>.tmp is unlinked before the next one opens anything.           *)
(***************************************************************************)
EXTENDS SqliteBuild, TLAPS

\* No two callers are inside run_build.  It is what the API's look at the
\* manifest is for; a command line beside the API does not look, and nothing
\* but the operator keeps the two apart.
OneAtATime ==
    \A a, b \in Builders : {pc[a], pc[b]} \intersect {"idle", "queued"} = {} => a = b

\* A builder has a file open only while it builds, and it is <path>.tmp.
HandleIsTmp ==
    \A b \in Builders :
        /\ handle[b] # NoFile => pc[b] \in {"build", "abort"} /\ handle[b] = tmp
        /\ pc[b] = "build" /\ handle[b] = NoFile => tmp = NoFile

\* The staged file holds the passes of its build, from the first to the last
\* finished; before it is opened none is.
StagedSoFar ==
    \A b \in Builders :
        /\ pc[b] = "begin" \/ (pc[b] = "build" /\ handle[b] = NoFile) => done[b] = 0
        /\ pc[b] = "build" /\ handle[b] # NoFile => data[tmp] = {job[b]} \X (1..done[b])

\* A build is published once, and named as completed only after that.
PublishedOnce ==
    /\ published \subseteq used
    /\ \A b \in Builders :
        /\ pc[b] \in {"begin", "build"} => job[b] \in Builds /\ job[b] \in used \ published
        /\ pc[b] = "replaced" => job[b] \in published
    /\ manifest.status = "completed" => manifest.build \in published

Seen == ({live} \union {view[r] : r \in Readers}) \ {NoFile}

\* No reader has the staging file.
StagingIsUnseen == tmp \notin Seen

\* The inductive invariant.
IInv ==
    /\ TypeOK
    /\ HandleIsTmp
    /\ StagedSoFar
    /\ PublishedOnce
    /\ StagingIsUnseen
    /\ NothingHalfBuilt

LEMMA Begins == Init => IInv
<1> SUFFICES ASSUME Init PROVE IInv
  OBVIOUS
<1>1. TypeOK
  BY NoBuildAssumption, NoFileAssumption, PassesAssumption DEF Init, TypeOK, Content, Status, Locations
<1>2. Seen = {}
  BY DEF Init, Seen
<1>3. NothingHalfBuilt
  BY <1>2 DEF NothingHalfBuilt, Seen
<1> QED
  BY <1>1, <1>2, <1>3 DEF Init, IInv, HandleIsTmp, StagedSoFar, PublishedOnce, StagingIsUnseen

LEMMA StepTyped == TypeOK /\ PublishedOnce /\ [Next]_vars => TypeOK'
<1> SUFFICES ASSUME TypeOK, PublishedOnce, [Next]_vars PROVE TypeOK'
  OBVIOUS
<1> USE PassesAssumption DEF TypeOK, Content, Status, Locations, Goto, Close, WriteManifest, paths
<1>1. ASSUME NEW b \in Builders, Accept(b) PROVE TypeOK'
  BY <1>1 DEF Accept
<1>2. ASSUME NEW b \in Builders, Start(b) PROVE TypeOK'
  BY <1>2 DEF Start
<1>3. ASSUME NEW b \in Builders, Begin(b) PROVE TypeOK'
  BY <1>3 DEF Begin
<1>4. ASSUME NEW b \in Builders, OpenStaging(b) PROVE TypeOK'
  <2>1. /\ data' \in [Files -> Content] /\ tmp' \in Files \union {NoFile}
        /\ handle' \in [Builders -> Files \union {NoFile}]
    BY <1>4 DEF OpenStaging
  <2> QED
    BY <1>4, <2>1 DEF OpenStaging
<1>5. ASSUME NEW b \in Builders, BuildPass(b) PROVE TypeOK'
  <2>1. job[b] \in Builds /\ handle[b] \in Files /\ done[b] + 1 \in 1..Passes
    BY <1>5 DEF BuildPass, PublishedOnce
  <2>2. data' \in [Files -> Content] /\ done' \in [Builders -> 0..Passes]
    BY <1>5, <2>1 DEF BuildPass
  <2> QED
    BY <1>5, <2>2 DEF BuildPass
<1>6. ASSUME NEW b \in Builders, Commit(b) PROVE TypeOK'
  BY <1>6 DEF Commit, PublishedOnce
<1>7. ASSUME NEW b \in Builders, WriteCompleted(b) \/ WriteFailed(b) PROVE TypeOK'
  BY <1>7 DEF WriteCompleted, WriteFailed
<1>8. ASSUME NEW b \in Builders, Abort(b) \/ Raises(b) \/ Kill(b) PROVE TypeOK'
  BY <1>8 DEF Abort, Raises, Kill
<1>9. ASSUME NEW r \in Readers, OpenLive(r) \/ CloseLive(r) PROVE TypeOK'
  BY <1>9 DEF OpenLive, CloseLive
<1>10. CASE UNCHANGED vars
  BY <1>10 DEF vars
<1> QED
  BY <1>1, <1>2, <1>3, <1>4, <1>5, <1>6, <1>7, <1>8, <1>9, <1>10 DEF Next, Run

\* What a reader has open is no file that a step writes to, and is what it was.
LEMMA SeenIsFrozen ==
  ASSUME IInv, [Next]_vars
  PROVE  \A f \in Seen : data'[f] = data[f] /\ f \in Files
<1> SUFFICES ASSUME NEW f \in Seen PROVE data'[f] = data[f] /\ f \in Files
  OBVIOUS
<1> USE DEF IInv
<1>1. f \in Files /\ f # tmp /\ (f = live \/ \E r \in Readers : f = view[r])
  BY DEF Seen, StagingIsUnseen, TypeOK
<1>2. ASSUME NEW b \in Builders, OpenStaging(b) PROVE data'[f] = data[f]
  BY <1>1, <1>2 DEF OpenStaging, Unlinked, TypeOK
<1>3. ASSUME NEW b \in Builders, BuildPass(b) PROVE data'[f] = data[f]
  <2>1. handle[b] # f
    BY <1>1, <1>3 DEF BuildPass, HandleIsTmp
  <2> QED
    BY <1>1, <1>3, <2>1 DEF BuildPass, TypeOK
<1> QED
  BY <1>1, <1>2, <1>3
     DEF Next, Run, vars, Accept, Start, Begin, Commit, WriteCompleted, Raises, Abort, WriteFailed, Kill,
         OpenLive, CloseLive

\* A commit publishes a build that is whole and was never published.
LEMMA CommitPublishes ==
  ASSUME IInv, NEW b \in Builders, Commit(b)
  PROVE  /\ live' = tmp /\ tmp \in Files /\ Seen' \subseteq Seen \union {tmp}
         /\ job[b] \in Builds \ published
         /\ WholeBuild(tmp, job[b]) /\ UNCHANGED <<data, manifest>>
<1> USE DEF IInv
<1>1. /\ live' = tmp /\ tmp \in Files /\ Seen' \subseteq Seen \union {tmp}
      /\ UNCHANGED <<data, manifest>>
  BY DEF Commit, Seen, TypeOK
<1>2. pc[b] = "build" /\ done[b] = Passes /\ handle[b] # NoFile
  BY PassesAssumption DEF Commit, StagedSoFar
<1>3. data[tmp] = {job[b]} \X (1..Passes) /\ job[b] \in Builds \ published
  BY <1>2 DEF StagedSoFar, PublishedOnce
<1> QED
  BY <1>1, <1>3 DEF WholeBuild

\* No other step shows anybody another file.
LEMMA SeenGrows ==
  ASSUME IInv, [Next]_vars, ~ \E b \in Builders : Commit(b)
  PROVE  Seen' \subseteq Seen /\ live' = live
<1>1. CASE \E r \in Readers : OpenLive(r) \/ CloseLive(r)
  BY <1>1 DEF OpenLive, CloseLive, Seen, TypeOK, paths, IInv
<1>2. CASE UNCHANGED <<live, view>>
  BY <1>2 DEF Seen
<1> QED
  BY <1>1, <1>2
     DEF Next, Run, vars, Accept, Start, Begin, OpenStaging, BuildPass, WriteCompleted, Raises, Abort,
         WriteFailed, Kill, paths

LEMMA StepWhole ==
  ASSUME IInv, [Next]_vars
  PROVE  NothingHalfBuilt'
<1>1. NothingHalfBuilt = \A f \in Seen : \E id \in Builds : WholeBuild(f, id)
  BY DEF NothingHalfBuilt, Seen
<1>2. NothingHalfBuilt' = \A f \in Seen' : \E id \in Builds : data'[f] = {id} \X (1..Passes)
  BY DEF NothingHalfBuilt, Seen, WholeBuild
<1>3. \A f \in Seen : \E id \in Builds : data'[f] = {id} \X (1..Passes)
  BY <1>1, SeenIsFrozen DEF IInv, WholeBuild
<1>4. CASE Seen' \subseteq Seen
  BY <1>2, <1>3, <1>4
<1>5. CASE \E b \in Builders : Commit(b)
  BY <1>2, <1>3, <1>5, CommitPublishes DEF WholeBuild
<1> QED
  BY <1>4, <1>5, SeenGrows

\* What a builder has open is its own file, with the passes finished so far.
LEMMA StepStaging ==
  ASSUME IInv, OneAtATime, OneAtATime', [Next]_vars
  PROVE  HandleIsTmp' /\ StagedSoFar'
<1> USE DEF IInv
<1> USE PassesAssumption, NoFileAssumption DEF TypeOK, HandleIsTmp, StagedSoFar, Goto, Close, paths
<1> DEFINE Goal == HandleIsTmp' /\ StagedSoFar'
<1>1. ASSUME NEW b \in Builders, Accept(b) PROVE Goal
  BY <1>1 DEF Accept
<1>2. ASSUME NEW b \in Builders, Start(b) PROVE Goal
  BY <1>2 DEF Start, OneAtATime
<1>3. ASSUME NEW b \in Builders, Begin(b) PROVE Goal
  BY <1>3 DEF Begin, OneAtATime
<1>4. ASSUME NEW b \in Builders, OpenStaging(b) PROVE Goal
  BY <1>4 DEF OpenStaging, OneAtATime
<1>5. ASSUME NEW b \in Builders, BuildPass(b) PROVE Goal
  BY <1>5 DEF BuildPass, OneAtATime
<1>6. ASSUME NEW b \in Builders, Commit(b) PROVE Goal
  BY <1>6 DEF Commit, OneAtATime
<1>7. ASSUME NEW b \in Builders, WriteCompleted(b) \/ WriteFailed(b) PROVE Goal
  BY <1>7 DEF WriteCompleted, WriteFailed, OneAtATime
<1>8. ASSUME NEW b \in Builders, Abort(b) PROVE Goal
  BY <1>8 DEF Abort, OneAtATime
<1>9. ASSUME NEW b \in Builders, Raises(b) \/ Kill(b) PROVE Goal
  BY <1>9 DEF Raises, Kill
<1>10. ASSUME NEW r \in Readers, OpenLive(r) \/ CloseLive(r) PROVE Goal
  BY <1>10 DEF OpenLive, CloseLive
<1>11. CASE UNCHANGED vars
  BY <1>11 DEF vars
<1> QED
  BY <1>1, <1>2, <1>3, <1>4, <1>5, <1>6, <1>7, <1>8, <1>9, <1>10, <1>11 DEF Next, Run

\* A build has a name of its own until it is published.
LEMMA StepPublished ==
  ASSUME IInv, OneAtATime', [Next]_vars
  PROVE  PublishedOnce'
<1> USE DEF IInv
<1> USE DEF TypeOK, PublishedOnce, Goto, Close, WriteManifest, paths
<1>1. ASSUME NEW b \in Builders, Accept(b) \/ Begin(b) \/ OpenStaging(b) \/ BuildPass(b) PROVE PublishedOnce'
  BY <1>1 DEF Accept, Begin, OpenStaging, BuildPass
<1>2. ASSUME NEW b \in Builders, Start(b) PROVE PublishedOnce'
  BY <1>2 DEF Start
<1>3. ASSUME NEW b \in Builders, Commit(b) PROVE PublishedOnce'
  BY <1>3 DEF Commit, OneAtATime
<1>4. ASSUME NEW b \in Builders, WriteCompleted(b) \/ WriteFailed(b) PROVE PublishedOnce'
  BY <1>4 DEF WriteCompleted, WriteFailed
<1>5. ASSUME NEW b \in Builders, Abort(b) \/ Raises(b) \/ Kill(b) PROVE PublishedOnce'
  BY <1>5 DEF Abort, Raises, Kill
<1>6. ASSUME NEW r \in Readers, OpenLive(r) \/ CloseLive(r) PROVE PublishedOnce'
  BY <1>6 DEF OpenLive, CloseLive
<1>7. CASE UNCHANGED vars
  BY <1>7 DEF vars
<1> QED
  BY <1>1, <1>2, <1>3, <1>4, <1>5, <1>6, <1>7 DEF Next, Run

\* <path>.tmp is a new file or nothing, and a swap leaves it nothing.
LEMMA StepUnseen ==
  ASSUME IInv, [Next]_vars
  PROVE  StagingIsUnseen'
<1> USE DEF IInv
<1>1. NoFile \notin Seen /\ NoFile \notin Seen'
  BY DEF Seen
<1>2. CASE tmp' = NoFile
  BY <1>1, <1>2 DEF StagingIsUnseen
<1>3. CASE tmp' = tmp /\ tmp' # NoFile
  <2>1. ~ \E b \in Builders : Commit(b)
    BY <1>3 DEF Commit
  <2> QED
    BY <1>3, <2>1, SeenGrows DEF StagingIsUnseen
<1>4. ASSUME NEW b \in Builders, OpenStaging(b), tmp' # tmp PROVE StagingIsUnseen'
  BY <1>4 DEF OpenStaging, Unlinked, StagingIsUnseen, Seen
<1>5. CASE tmp' # tmp /\ tmp' # NoFile
  BY <1>4, <1>5
     DEF Next, Run, vars, Accept, Start, Begin, BuildPass, Commit, WriteCompleted, Raises, Abort, WriteFailed,
         Kill, OpenLive, CloseLive, paths
<1> QED
  BY <1>2, <1>3, <1>5

\* Builders that never overlap, killed and restarted at will: the state of the
\* files is that of a single build under way, or of none.
THEOREM Invariant == Spec /\ []OneAtATime => []IInv
<1>1. Init => IInv
  BY Begins
<1>2. IInv /\ OneAtATime /\ OneAtATime' /\ [Next]_vars => IInv'
  BY StepTyped, StepStaging, StepPublished, StepUnseen, StepWhole DEF IInv
<1> QED
  BY <1>1, <1>2, PTL DEF Spec

\* What a reader has open, or could open now, is the whole work of a single
\* build: os.replace moves a file that is finished, and nothing writes to it
\* afterwards.
THEOREM WholeBuilds == Spec /\ []OneAtATime => []NothingHalfBuilt
<1>1. IInv => NothingHalfBuilt
  BY DEF IInv
<1> QED
  BY <1>1, Invariant, PTL

-----------------------------------------------------------------------------
(* The promise.                                                            *)

\* A file that is the whole work of a build is that of no other.
LEMMA VisibleIsWhole == \A id \in Builds : live # NoFile /\ WholeBuild(live, id) => Visible = id
<1> SUFFICES ASSUME NEW id \in Builds, live # NoFile, WholeBuild(live, id) PROVE Visible = id
  OBVIOUS
<1>1. ASSUME NEW other \in Builds, WholeBuild(live, other) PROVE other = id
  <2>1. <<id, 1>> \in {other} \X (1..Passes)
    BY <1>1, PassesAssumption DEF WholeBuild
  <2> QED
    BY <2>1
<1> QED
  BY <1>1 DEF Visible

LEMMA BeginsPromise == Init => Promise!Init
  BY DEF Init, Promise!Init, Visible, Claimed

\* A commit publishes, a write of the manifest reports, and nothing else is
\* to be seen.
LEMMA StepPromise ==
  ASSUME IInv, PublishedOnce', [Next]_vars
  PROVE  [Promise!Next]_(Promise!vars)
<1> USE DEF IInv
<1>1. ASSUME NEW b \in Builders, Commit(b) PROVE Promise!Publish(job[b]) /\ job[b] \in Builds
  <2>1. job[b] \in Builds \ published /\ Claimed' = Claimed
    BY <1>1, CommitPublishes DEF Claimed
  <2>2. live' # NoFile /\ WholeBuild(live, job[b])'
    <3>1. live' = tmp /\ tmp \in Files /\ data' = data /\ job'[b] = job[b] /\ WholeBuild(tmp, job[b])
      BY <1>1, CommitPublishes DEF Commit
    <3> QED
      BY <3>1, NoFileAssumption DEF WholeBuild
  <2>3. Visible' = job[b]
    <3>1. (\A id \in Builds : live # NoFile /\ WholeBuild(live, id) => Visible = id)'
      BY VisibleIsWhole, PTL
    <3>2. job'[b] = job[b] /\ job[b] \in Builds
      BY <1>1, <2>1 DEF Commit
    <3> QED
      BY <2>2, <3>1, <3>2
  <2>4. published' = published \union {job[b]}
    BY <1>1 DEF Commit
  <2> QED
    BY <2>1, <2>3, <2>4 DEF Promise!Publish
<1>2. ASSUME ~ \E b \in Builders : Commit(b) PROVE Promise!Report
  <2>1. live' = live /\ published' = published
    BY <1>2, SeenGrows DEF Next, Run, vars, Accept, Start, Begin, OpenStaging, BuildPass, WriteCompleted, Raises,
                           Abort, WriteFailed, Kill, OpenLive, CloseLive
  <2>2. live # NoFile => data'[live] = data[live]
    BY SeenIsFrozen DEF Seen
  <2>3. Visible' = Visible
    BY <2>1, <2>2 DEF Visible, WholeBuild
  <2>4. Claimed' \in published \union {NoBuild}
    BY <2>1 DEF Claimed, PublishedOnce
  <2> QED
    BY <2>1, <2>3, <2>4 DEF Promise!Report
<1> QED
  BY <1>1, <1>2 DEF Promise!Next

\* Builders that never overlap keep the promise of build.py's docstring: from
\* nothing to a whole build, from whole build to whole build, and only what has
\* been swapped in is called completed.
THEOREM Refinement == Spec /\ []OneAtATime => ImplementsPromise
<1>1. IInv => PublishedOnce
  BY DEF IInv
<1>2. Spec /\ []OneAtATime => Promise!Init /\ [][Promise!Next]_(Promise!vars)
  BY <1>1, Invariant, BeginsPromise, StepPromise, PTL DEF Spec
<1> QED
  BY <1>2, PTL DEF ImplementsPromise, Promise!Spec

\* A lone builder overlaps nobody.
COROLLARY LoneBuilder ==
  ASSUME \A a, b \in Builders : a = b
  PROVE  Spec => []NothingHalfBuilt /\ ImplementsPromise
<1>1. OneAtATime
  BY DEF OneAtATime
<1> QED
  BY <1>1, WholeBuilds, Refinement, PTL
=============================================================================
