------------------------ MODULE PostgresBuildProofs ------------------------
(***************************************************************************)
(* Proofs about PostgresBuild, for any number of builders, promotes,       *)
(* sessions, builds and passes.  The inductive invariant IInv is shown to  *)
(* hold initially and to survive each action; the safety properties are    *)
(* conjuncts of it, and the step simulation of AtomicSwap follows from it. *)
(***************************************************************************)
EXTENDS PostgresBuild, TLAPS

\* Nothing is built, locked or read yet: every conjunct of IInv holds.
LEMMA InitEstablishes == Init => IInv
  BY PassesAssumption, NoBuildAssumption, FreeAssumption
  DEF Init, IInv, TypeOK, OneBuildAtATime, PromoteReadsOneBuild, SwapNeverCollides,
      PinnedTablesSurvive, NamesAreOwned, PublishedIsWhole, Begun, Holding,
      Locations, Status, BeforeSwap, AfterSwap

\* No step of a builder or a reader breaks IInv.  Swap is the one action that
\* every conjunct has a say in, so its proof names them one by one.
LEMMA StepPreserves == IInv /\ [Next]_vars => IInv'
<1> SUFFICES ASSUME IInv, [Next]_vars PROVE IInv'
  OBVIOUS
<1> USE PassesAssumption, NoBuildAssumption, FreeAssumption
    DEF IInv, TypeOK, OneBuildAtATime, PromoteReadsOneBuild, SwapNeverCollides,
        PinnedTablesSurvive, NamesAreOwned, PublishedIsWhole, Begun, Holding,
        Locations, Status, BeforeSwap, AfterSwap, Goto, Pinned, WriteManifest,
        schemas, locks, readers, builder
<1>1. ASSUME NEW b \in Builders, Accept(b) PROVE IInv'
  BY <1>1 DEF Accept
<1>2. ASSUME NEW b \in Builders, Start(b) PROVE IInv'
  BY <1>2 DEF Start
<1>3. ASSUME NEW b \in Builders, TakeLock(b) PROVE IInv'
  BY <1>3 DEF TakeLock
<1>4. ASSUME NEW b \in Builders, Refused(b) PROVE IInv'
  BY <1>4 DEF Refused
<1>5. ASSUME NEW b \in Builders, Forget(b) PROVE IInv'
  BY <1>5 DEF Forget
<1>6. ASSUME NEW b \in Builders, Prepare(b) PROVE IInv'
  BY <1>6 DEF Prepare
<1>7. ASSUME NEW b \in Builders, PrepareTimesOut(b) PROVE IInv'
  BY <1>7 DEF PrepareTimesOut
<1>8. ASSUME NEW b \in Builders, Collect(b) PROVE IInv'
  BY <1>8 DEF Collect
<1>9. ASSUME NEW b \in Builders, BuildPass(b) PROVE IInv'
  BY <1>9 DEF BuildPass
<1>10. ASSUME NEW b \in Builders, DropDemoted(b) PROVE IInv'
  BY <1>10 DEF DropDemoted
<1>11. ASSUME NEW b \in Builders, Release(b) PROVE IInv'
  BY <1>11 DEF Release
<1>12. ASSUME NEW b \in Builders, WriteCompleted(b) PROVE IInv'
  BY <1>12 DEF WriteCompleted
<1>13. ASSUME NEW b \in Builders, Raises(b) PROVE IInv'
  BY <1>13 DEF Raises
<1>14. ASSUME NEW b \in Builders, Abort(b) PROVE IInv'
  BY <1>14 DEF Abort
<1>15. ASSUME NEW b \in Builders, AbortRelease(b) PROVE IInv'
  BY <1>15 DEF AbortRelease
<1>16. ASSUME NEW b \in Builders, WriteFailed(b) PROVE IInv'
  BY <1>16 DEF WriteFailed
<1>17. ASSUME NEW b \in Builders, Kill(b) PROVE IInv'
  BY <1>17 DEF Kill
<1>18. ASSUME NEW b \in Builders, Swap(b) PROVE IInv'
  <2> USE <1>18 DEF Swap
  <2>1. lock = b /\ sharing = {} /\ old = NoBuild /\ job[b] \in used \ published
    OBVIOUS
  <2>2. TypeOK' /\ OneBuildAtATime' /\ PromoteReadsOneBuild'
    BY <2>1
  <2>3. SwapNeverCollides'
    BY <2>1
  <2>4. PinnedTablesSurvive'
    BY <2>1
  <2>5. NamesAreOwned'
    BY <2>1
  <2>6. PublishedIsWhole'
    BY <2>1
  <2> QED
    BY <2>2, <2>3, <2>4, <2>5, <2>6
<1>19. ASSUME NEW p \in Promoters, ReadLock(p) PROVE IInv'
  BY <1>19 DEF ReadLock
<1>20. ASSUME NEW p \in Promoters, ReadStatement(p) PROVE IInv'
  BY <1>20 DEF ReadStatement
<1>21. ASSUME NEW p \in Promoters, ReadUnlock(p) PROVE IInv'
  BY <1>21 DEF ReadUnlock
<1>22. ASSUME NEW s \in Sessions, OpenSession(s) PROVE IInv'
  BY <1>22 DEF OpenSession
<1>23. ASSUME NEW s \in Sessions, CloseSession(s) PROVE IInv'
  BY <1>23 DEF CloseSession
<1>24. CASE UNCHANGED vars
  BY <1>24 DEF vars
<1> QED
  BY ONLY [Next]_vars, <1>1, <1>2, <1>3, <1>4, <1>5, <1>6, <1>7, <1>8, <1>9, <1>10, <1>11, <1>12, <1>13, <1>14, <1>15, <1>16, <1>17, <1>18, <1>19, <1>20, <1>21, <1>22, <1>23, <1>24 DEF Next, Run, Read

\* The invariant of every behaviour, whatever is killed, refused or interrupted.
THEOREM Invariant == Spec => []IInv
  BY InitEstablishes, StepPreserves, PTL DEF Spec

\* At most one builder works on the schema, and never under a promote's
\* shared lock.
THEOREM MutualExclusion == Spec => []OneBuildAtATime
<1>1. IInv => OneBuildAtATime
  BY DEF IInv
<1> QED
  BY Invariant, <1>1, PTL

\* No promote ever mixes two silvers.
THEOREM PromoteIsConsistent == Spec => []PromoteReadsOneBuild
<1>1. IInv => PromoteReadsOneBuild
  BY DEF IInv
<1> QED
  BY Invariant, <1>1, PTL

\* The swap never trips over a schema left by an earlier build.
THEOREM SwapIsClear == Spec => []SwapNeverCollides
<1>1. IInv => SwapNeverCollides
  BY DEF IInv
<1> QED
  BY Invariant, <1>1, PTL

\* Tables in use are never dropped.
THEOREM ReadersKeepTheirTables == Spec => []PinnedTablesSurvive
<1>1. IInv => PinnedTablesSurvive
  BY DEF IInv
<1> QED
  BY Invariant, <1>1, PTL

\* Refinement, initially: nothing is visible and nothing is claimed.
LEMMA InitRefines == Init => Promise!Init
  BY DEF Init, Promise!Init, Visible, Claimed

\* Refinement, step by step: Swap publishes, writing the manifest reports, and
\* every other action is invisible to a reader of the live schema.
LEMMA StepRefines == IInv /\ [Next]_vars => [Promise!Next]_(Promise!vars)
<1> SUFFICES ASSUME IInv, [Next]_vars PROVE [Promise!Next]_(Promise!vars)
  OBVIOUS
<1> USE DEF IInv, TypeOK, PublishedIsWhole, NamesAreOwned, SwapNeverCollides,
        schemas, locks, readers, builder, Goto, WriteManifest,
        Promise!Next, Promise!vars, Promise!Report, Promise!Publish, Visible, Claimed
<1>1. ASSUME NEW b \in Builders, Swap(b) PROVE Promise!Publish(job[b]) /\ job[b] \in Builds
  BY <1>1, NoBuildAssumption DEF Swap, Begun, BeforeSwap
<1>2. ASSUME NEW b \in Builders, BuildPass(b) PROVE UNCHANGED Promise!vars
  <2>1. live # job[b]
    BY <1>2, NoBuildAssumption DEF BuildPass, Begun, BeforeSwap
  <2>2. passes'[live] = passes[live] \/ live = NoBuild
    BY <1>2, <2>1 DEF BuildPass
  <2> QED
    BY <1>2, <2>2 DEF BuildPass
<1>3. ASSUME NEW b \in Builders, Start(b) PROVE Promise!Report
  BY <1>3 DEF Start
<1>4. ASSUME NEW b \in Builders, WriteCompleted(b) PROVE Promise!Report
  BY <1>4 DEF WriteCompleted, AfterSwap, Begun
<1>5. ASSUME NEW b \in Builders, WriteFailed(b) PROVE Promise!Report
  BY <1>5 DEF WriteFailed
<1>6. ASSUME NEW b \in Builders,
          \/ Accept(b) \/ TakeLock(b) \/ Refused(b) \/ Forget(b) \/ Prepare(b)
          \/ PrepareTimesOut(b) \/ Collect(b) \/ DropDemoted(b) \/ Release(b) \/ Raises(b)
          \/ Abort(b) \/ AbortRelease(b) \/ Kill(b)
     PROVE UNCHANGED Promise!vars
  BY <1>6 DEF Accept, TakeLock, Refused, Forget, Prepare, PrepareTimesOut, Collect, DropDemoted, Release, Raises, Abort, AbortRelease, Kill
<1>7. CASE Read
  BY <1>7 DEF Read, ReadLock, ReadStatement, ReadUnlock, OpenSession, CloseSession
<1>8. CASE UNCHANGED vars
  BY <1>8 DEF vars
<1> QED
  BY <1>1, <1>2, <1>3, <1>4, <1>5, <1>6, <1>7, <1>8 DEF Next, Run

\* The schema swap is an atomic swap: the whole of build.py's promise to its
\* readers, for every interleaving of any number of builders.
THEOREM Refinement == Spec => ImplementsPromise
<1>1. Spec => Promise!Init /\ [][Promise!Next]_(Promise!vars)
  BY InitRefines, StepRefines, Invariant, PTL DEF Spec
<1> QED
  BY <1>1 DEF ImplementsPromise, Promise!Spec

-----------------------------------------------------------------------------
(* What there is to LockComesBack besides fairness.                        *)

\* The steps a builder has left, at most, before it releases the lock.
StepsLeft(b) ==
    CASE pc[b] = "prepare" -> Passes + 5
      [] pc[b] = "build" -> Passes - passes[job[b]] + 4
      [] pc[b] = "swapped" -> 3
      [] pc[b] = "abort" -> 2
      [] pc[b] \in {"release", "abort_release", "adrift"} -> 1
      [] OTHER -> 0

\* The holder of the lock either gives it back or comes closer to doing so,
\* by every step of its own; a step of anybody else changes nothing of it.
HolderAdvances(b) ==
    lock = b /\ lock' = b =>
        IF pc'[b] # pc[b] \/ passes'[job[b]] # passes[job[b]]
        THEN StepsLeft(b)' < StepsLeft(b) ELSE StepsLeft(b)' = StepsLeft(b)

\* One of its steps has its guard: a rename in particular finds its name free.
HolderMayGoOn(b) ==
    lock = b =>
        /\ StepsLeft(b) \in 1 .. Passes + 5
        /\ pc[b] = "build" => passes[job[b]] < Passes \/ (passes[job[b]] = Passes /\ (live = NoBuild \/ old = NoBuild))

LEMMA HolderInStep == IInv => \A b \in Builders : HolderMayGoOn(b)
<1> SUFFICES ASSUME IInv, NEW b \in Builders, lock = b PROVE HolderMayGoOn(b)
  BY DEF HolderMayGoOn
<1>1. pc[b] \in Holding
  BY DEF IInv, OneBuildAtATime
<1>2. Passes \in Nat
  BY PassesAssumption
<1>3. CASE pc[b] = "build"
  <2>1. old = NoBuild /\ job[b] \in Builds
    BY <1>3, NoBuildAssumption DEF IInv, SwapNeverCollides, TypeOK
  <2>2. passes[job[b]] \in 0 .. Passes
    BY <2>1 DEF IInv, TypeOK
  <2> QED
    BY <1>2, <1>3, <2>1, <2>2 DEF HolderMayGoOn, StepsLeft
<1>4. CASE pc[b] # "build"
  BY <1>1, <1>2, <1>4 DEF HolderMayGoOn, StepsLeft, Holding
<1> QED
  BY <1>3, <1>4

LEMMA HolderStep == IInv /\ [Next]_vars => \A b \in Builders : HolderAdvances(b)
<1> SUFFICES ASSUME IInv, [Next]_vars, NEW b \in Builders, lock = b, lock' = b PROVE HolderAdvances(b)
  BY DEF HolderAdvances
<1>1. pc[b] \in Holding /\ Passes \in Nat /\ Begun(b)
  BY PassesAssumption DEF IInv, OneBuildAtATime, Begun, Holding
<1>2. IInv'
  BY StepPreserves
<1>3. pc \in [Builders -> Locations] /\ job \in [Builders -> Builds \union {NoBuild}] /\ passes \in [Builds -> 0 .. Passes]
  BY DEF IInv, TypeOK
<1>4. CASE pc'[b] = pc[b] /\ job'[b] = job[b] /\ passes'[job[b]] = passes[job[b]]
  BY <1>4 DEF HolderAdvances, StepsLeft
<1>5. ASSUME NEW c \in Builders, c # b, Accept(c) \/ Run(c) \/ Raises(c) \/ Kill(c)
      PROVE  pc'[b] = pc[b] /\ job'[b] = job[b] /\ passes'[job[b]] = passes[job[b]]
  <2>1. pc'[b] = pc[b] /\ job'[b] = job[b]
    BY <1>3, <1>5 DEF Accept, Run, Start, TakeLock, Refused, Forget, Prepare, PrepareTimesOut, Collect, BuildPass, Swap,
       DropDemoted, Release, WriteCompleted, Abort, AbortRelease, WriteFailed, Raises, Kill, Goto, builder
  <2>2. CASE BuildPass(c)
    <3>1. Begun(c) /\ job[c] # job[b]
      BY <1>1, <1>5, <2>2 DEF IInv, NamesAreOwned, BuildPass, Begun
    <3> QED
      BY <1>3, <2>1, <2>2, <3>1 DEF BuildPass
  <2>3. CASE ~BuildPass(c)
    BY <1>5, <2>1, <2>3 DEF Accept, Run, Start, TakeLock, Refused, Forget, Prepare, PrepareTimesOut, Collect, Swap,
       DropDemoted, Release, WriteCompleted, Abort, AbortRelease, WriteFailed, Raises, Kill, schemas
  <2> QED
    BY <2>1, <2>2, <2>3
<1>6. ASSUME Accept(b) \/ Run(b) \/ Raises(b) \/ Kill(b) PROVE HolderAdvances(b)
  <2> USE <1>1, <1>3 DEF HolderAdvances, StepsLeft, Holding, Goto
  <2>1. CASE BuildPass(b)
    <3>1. job[b] \in Builds /\ passes[job[b]] \in 0 .. Passes
      BY <2>1, NoBuildAssumption DEF IInv, SwapNeverCollides, TypeOK, BuildPass
    <3>2. passes'[job[b]] = passes[job[b]] + 1 /\ pc'[b] = "build" /\ pc[b] = "build" /\ job'[b] = job[b]
      BY <2>1, <3>1 DEF BuildPass, builder
    <3> QED
      BY <3>1, <3>2
  <2>2. CASE Prepare(b)
    <3>1. pc'[b] = "build" /\ job'[b] = job[b] /\ pc[b] = "prepare" /\ passes' = passes
      BY <2>2 DEF Prepare
    <3>2. job[b] \in Builds /\ passes[job[b]] \in 0 .. Passes
      BY <1>2, <3>1, NoBuildAssumption DEF IInv, SwapNeverCollides, TypeOK
    <3> QED
      BY <3>1, <3>2
  <2>3. CASE PrepareTimesOut(b) \/ DropDemoted(b) \/ Abort(b)
    BY <2>3 DEF PrepareTimesOut, DropDemoted, Abort
  <2>4. CASE Swap(b) \/ Raises(b)
    <3>1. pc[b] \in {"build", "swapped"} /\ pc'[b] \in {"swapped", "abort"} /\ pc'[b] # pc[b]
      BY <2>4 DEF Swap, Raises
    <3>2. pc[b] = "build" => passes[job[b]] \in 0 .. Passes
      <4>1. pc[b] = "build" => job[b] \in Builds
        BY NoBuildAssumption DEF IInv, SwapNeverCollides, TypeOK
      <4> QED
        BY <4>1
    <3>3. pc[b] = "swapped" => pc'[b] = "abort"
      BY <2>4 DEF Swap, Raises
    <3> QED
      BY <3>1, <3>2, <3>3
  <2>5. CASE Collect(b) \/ Release(b) \/ AbortRelease(b) \/ Kill(b)
    <3>1. lock' = Free
      BY <2>5 DEF Collect, Release, AbortRelease, Kill
    <3> QED
      BY <3>1, FreeAssumption
  <2>6. CASE Accept(b) \/ Start(b) \/ TakeLock(b) \/ Refused(b) \/ Forget(b) \/ WriteCompleted(b) \/ WriteFailed(b)
    BY <2>6 DEF Accept, Start, TakeLock, Refused, Forget, WriteCompleted, WriteFailed
  <2> QED
    BY <1>6, <2>1, <2>2, <2>3, <2>4, <2>5, <2>6 DEF Run
<1>7. ASSUME Read \/ UNCHANGED vars PROVE HolderAdvances(b)
  BY <1>4, <1>7 DEF Read, ReadLock, ReadStatement, ReadUnlock, OpenSession, CloseSession, schemas, builder, vars
<1> QED
  BY <1>4, <1>5, <1>6, <1>7 DEF Next

\* "The lock is released" on every path out of a build: whoever holds it has
\* a bounded number of steps left before it lets go, loses one with each step
\* and always has a next one, whatever passes fail, sessions stay open or
\* builders are killed. Fairness is all LockComesBack needs besides.
THEOREM LockIsOnItsWayBack ==
  Spec => [](\A b \in Builders : HolderMayGoOn(b)) /\ [][\A b \in Builders : HolderAdvances(b)]_vars
<1>1. IInv /\ [Next]_vars => [\A b \in Builders : HolderAdvances(b)]_vars
  BY HolderStep
<1> QED
  BY Invariant, HolderInStep, <1>1, PTL DEF Spec
=============================================================================
