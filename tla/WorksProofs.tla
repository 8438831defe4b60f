---------------------------- MODULE WorksProofs -----------------------------
(***************************************************************************)
(* Proofs about Works, for any titles, scores, feeds and numbers of works, *)
(* loads and commands, where the database enforces its foreign keys.       *)
(*                                                                         *)
(* No row refers to a work that is gone because a fold moves what refers   *)
(* to one to where its merges end, and they do end: a work folds only into *)
(* one that has not folded itself, so that merges close no cycle.  What is *)
(* derived stays apart because two works that are derived differently      *)
(* score 5, whatever they have in common; that holds of every merge too,   *)
(* and so of where it ends.  A load may hold works that are gone, and the  *)
(* invariant says of it that it takes none of those that are still there   *)
(* for another.  Which premiere stands does not depend on the order, as    *)
(* the rule by which one supersedes another, read part by part with what a *)
(* date lacks after all it could say, is an order (SupersedesOrders).      *)
(***************************************************************************)
EXTENDS Works, FiniteSetTheorems, WellFoundedInduction, TLAPS

-----------------------------------------------------------------------------
(* Induction, without an operator as its parameter.                        *)

\* Of some subsets of a finite set one contains no other.
LEMMA LeastSubset ==
    ASSUME NEW S, IsFiniteSet(S), NEW bad \in SUBSET SUBSET S, bad # {}
    PROVE  \E T \in bad : \A U \in bad : U \subseteq T => U = T
<1>1. bad \subseteq FiniteSubsetsOf(S)
  BY FS_Subset DEF FiniteSubsetsOf
<1>2. PICK T \in bad : \A U \in bad : <<U, T>> \notin StrictSubsetOrdering(S)
  BY <1>1, FS_StrictSubsetOrderingWellFounded, WFMin
<1> QED
  BY <1>1, <1>2 DEF StrictSubsetOrdering

\* What holds at 0 and goes from each number to the next holds up to N.
LEMMA UpTo ==
    ASSUME NEW N \in Nat, NEW good \in SUBSET (0 .. N), 0 \in good,
           \A i \in 0 .. N - 1 : i \in good => i + 1 \in good
    PROVE  good = 0 .. N
<1> SUFFICES ASSUME NEW n \in 0 .. N, n \notin good PROVE FALSE
  OBVIOUS
<1> DEFINE bad == {{j \in 0 .. N : j <= i} : i \in (0 .. N) \ good}
<1> DEFINE All == 0 .. N
<1>1. bad \in SUBSET SUBSET All /\ bad # {}
  OBVIOUS
<1>2. IsFiniteSet(All)
  BY FS_Interval
<1> HIDE DEF bad, All
<1>3. PICK T \in bad : \A U \in bad : U \subseteq T => U = T
  BY <1>1, <1>2, LeastSubset
<1>4. PICK i \in (0 .. N) \ good : T = {j \in 0 .. N : j <= i}
  BY <1>1, <1>3 DEF bad
<1>5. i # 0 /\ i - 1 \in 0 .. N - 1 /\ i \in Int
  BY <1>4
<1>6. i - 1 \notin good
  BY <1>4, <1>5
<1>7. {j \in 0 .. N : j <= i - 1} \in bad
  BY <1>5, <1>6 DEF bad
<1>8. {j \in 0 .. N : j <= i - 1} \subseteq T
  BY <1>4, <1>5
<1>9. i \in T /\ i \notin {j \in 0 .. N : j <= i - 1}
  BY <1>4, <1>5
<1> QED
  BY <1>3, <1>7, <1>8, <1>9

\* The function that FoldRound chooses exists.
LEMMA RoundRuns ==
    ASSUME NEW rows, NEW canonical, NEW start, NEW N \in Nat
    PROVE  \E f : f = [n \in 0 .. N |-> IF n = 0 THEN start ELSE FoldNext(rows, canonical, f[n - 1])]
<1> DEFINE Runs(f, n) == f = [i \in 0 .. n |-> IF i = 0 THEN start ELSE FoldNext(rows, canonical, f[i - 1])]
           good == {n \in 0 .. N : \E f : Runs(f, n)}
<1>1. 0 \in good
  <2>1. Runs([i \in 0 .. 0 |-> start], 0)
    OBVIOUS
  <2>2. 0 \in 0 .. N
    OBVIOUS
  <2> HIDE DEF Runs
  <2> QED
    BY <2>1, <2>2
<1>2. ASSUME NEW n \in 0 .. N - 1, n \in good PROVE n + 1 \in good
  <2>1. PICK f : Runs(f, n)
    BY <1>2
  <2> DEFINE g == [i \in 0 .. n + 1 |-> IF i <= n THEN f[i] ELSE FoldNext(rows, canonical, f[n])]
  <2>2. ASSUME NEW i \in 0 .. n + 1
        PROVE  g[i] = IF i = 0 THEN start ELSE FoldNext(rows, canonical, g[i - 1])
    <3>1. CASE i = 0
      BY <2>1, <3>1
    <3>2. CASE i # 0 /\ i <= n
      <4>1. g[i] = f[i] /\ g[i - 1] = f[i - 1] /\ i \in 0 .. n
        BY <3>2
      <4>2. f[i] = FoldNext(rows, canonical, f[i - 1])
        BY <2>1, <3>2, <4>1
      <4> HIDE DEF g
      <4> QED
        BY <3>2, <4>1, <4>2
    <3>3. CASE i = n + 1
      <4>1. g[i] = FoldNext(rows, canonical, f[n]) /\ g[i - 1] = f[n] /\ i # 0
        BY <3>3
      <4> HIDE DEF g
      <4> QED
        BY <4>1
    <3> QED
      BY <3>1, <3>2, <3>3
  <2>3. g = [i \in 0 .. n + 1 |-> g[i]]
    OBVIOUS
  <2>4. Runs(g, n + 1)
    <3> HIDE DEF g
    <3> QED
      BY <2>2, <2>3
  <2> HIDE DEF g
  <2> QED
    BY <2>4
<1> HIDE DEF good
<1>3. good \in SUBSET (0 .. N)
  BY DEF good
<1>4. N \in good
  BY <1>1, <1>2, <1>3, UpTo
<1> QED
  BY <1>4 DEF good

-----------------------------------------------------------------------------
(* Matching.                                                               *)

\* A candidate of the lists.
Listed(row) == DOMAIN row = {"composer", "features", "at"} /\ row.features \in Features
Catalogue(rows) == \A w \in DOMAIN rows : Listed(rows[w])

\* Two works of which one is a part, arrangement or version and the other is not, or is
\* something else, score 5 whatever their numbers.
LEMMA DerivedScoresLow ==
    ASSUME NEW f \in Features, NEW g \in Features, f.derivation # g.derivation
    PROVE  Score(f, g) = 5
<1>1. DerivationScore(f, g) = 5
  BY DEF DerivationScore
<1>2. IdentifierScore(f, g) = 5
  BY <1>1 DEF IdentifierScore
<1> QED
  BY <1>2 DEF Score, Settles, Undecided

\* Whatever two works have in common, their score is a number.
LEMMA ScoresAreNumbers ==
    ASSUME NEW f \in Features, NEW g \in Features
    PROVE  Score(f, g) \in Int
<1>1. DerivationScore(f, g) \in Int
  BY DEF DerivationScore, Undecided
<1>2. StrongScore(f, g) \in Int
  <2> DEFINE shared == SchemesOf(f.ids \intersect g.ids)
  <2>1. StrongScore(f, g) =
            CASE shared \intersect ExternalSchemes # {} -> 99
              [] shared # {} /\ shared \intersect ExternalSchemes = {} -> 97
              [] shared = {} /\ Conflict(f.ids, g.ids) -> 5
              [] OTHER -> Undecided
    BY DEF StrongScore
  <2> HIDE DEF shared
  <2> QED
    BY <2>1 DEF Undecided
<1>3. OpusScore(f, g) \in Int
  BY DEF OpusScore, Undecided
<1>4. IdentifierScore(f, g) \in Int
  BY <1>1, <1>2, <1>3 DEF IdentifierScore, Settles
<1>5. TitleScore(f, g) \in Int
  <2>1. Ratio[<<f.title, g.title>>] \in 0 .. 100
    BY RatioAssumption DEF Features
  <2>2. PICK ratio \in 0 .. 100 : ratio = Ratio[<<f.title, g.title>>]
    BY <2>1
  <2>3. ratio \div 2 \in Int /\ ratio + 5 \in Int /\ ratio \in Int
    OBVIOUS
  <2> QED
    BY <2>2, <2>3 DEF TitleScore
<1> QED
  BY <1>4, <1>5 DEF Score, Settles

\* Nothing to compare with, or only what is derived otherwise: a new work.
LEMMA ClassesAre ==
    Classify(0) = "created" /\ Classify(5) = "created"
  BY DEF Classify, AutoThreshold, ReviewThreshold

\* What is not new is one of the candidates, and derived as the mention is.
LEMMA MatchIsListed ==
    ASSUME NEW f \in Features, NEW rows, Catalogue(rows),
           Classify(BestMatch(f, rows).score) # "created"
    PROVE  /\ BestMatch(f, rows).work \in DOMAIN rows
           /\ rows[BestMatch(f, rows).work].features.derivation = f.derivation
<1> DEFINE score == [w \in DOMAIN rows |-> Score(f, rows[w].features)]
           first == {w \in DOMAIN rows :
            /\ score[w] > 0
            /\ \A v \in DOMAIN rows \ {w} :
                score[v] < score[w] \/ (score[v] = score[w] /\ rows[w].at < rows[v].at)}
           best == CHOOSE w \in first : TRUE
<1>1. first \subseteq DOMAIN rows
  OBVIOUS
<1>2. BestMatch(f, rows) = IF first = {} THEN NoMatch ELSE [score |-> score[best], work |-> best]
  BY DEF BestMatch
<1>3. \A w \in DOMAIN rows : score[w] = Score(f, rows[w].features)
  OBVIOUS
<1> HIDE DEF score, first
<1>4. first # {} /\ best \in first
  BY <1>2, ClassesAre DEF NoMatch
<1> HIDE DEF best
<1>5. BestMatch(f, rows).score = Score(f, rows[best].features) /\ BestMatch(f, rows).work = best
  BY <1>1, <1>2, <1>3, <1>4
<1>6. rows[best].features \in Features /\ best \in DOMAIN rows
  BY <1>1, <1>4 DEF Catalogue, Listed
<1>7. Score(f, rows[best].features) # 5
  BY <1>5, ClassesAre
<1> QED
  BY <1>5, <1>6, <1>7, DerivedScoresLow

\* Learning a number changes nobody's derivation.
LEMMA LearningKeeps ==
    ASSUME NEW f \in Features, NEW ids \in SUBSET Identifiers
    PROVE  /\ WithIdentifiers(f, ids) \in Features
           /\ WithIdentifiers(f, ids).derivation = f.derivation
           /\ WithIdentifiers(f, ids).ids = f.ids \union ids
  BY DEF WithIdentifiers, Features

\* A candidate that learns a number stays where it is, and derived as it was.
LEMMA RefreshKeeps ==
    ASSUME NEW rows, Catalogue(rows), NEW work, NEW ids \in SUBSET Identifiers
    PROVE  /\ DOMAIN RefreshCandidate(rows, work, ids) = DOMAIN rows
           /\ Catalogue(RefreshCandidate(rows, work, ids))
           /\ \A w \in DOMAIN rows :
                /\ RefreshCandidate(rows, work, ids)[w].features.derivation = rows[w].features.derivation
                /\ RefreshCandidate(rows, work, ids)[w].composer = rows[w].composer
<1> DEFINE refreshed == RefreshCandidate(rows, work, ids)
<1>1. DOMAIN refreshed = DOMAIN rows
  BY DEF RefreshCandidate
<1>2. ASSUME NEW w \in DOMAIN rows
      PROVE  /\ Listed(refreshed[w]) /\ refreshed[w].composer = rows[w].composer
             /\ refreshed[w].features.derivation = rows[w].features.derivation
  <2>1. Listed(rows[w])
    BY DEF Catalogue
  <2>2. CASE w = work
    <3>1. refreshed[w] = [rows[w] EXCEPT !.features = WithIdentifiers(rows[w].features, ids)]
      BY <2>2 DEF RefreshCandidate
    <3>2. refreshed[w].features = WithIdentifiers(rows[w].features, ids)
          /\ DOMAIN refreshed[w] = DOMAIN rows[w] /\ refreshed[w].composer = rows[w].composer
      BY <2>1, <3>1 DEF Listed
    <3> QED
      BY <2>1, <3>2, LearningKeeps DEF Listed
  <2>3. CASE w # work
    <3>1. refreshed[w] = rows[w]
      BY <2>3 DEF RefreshCandidate
    <3> QED
      BY <2>1, <3>1
  <2> QED
    BY <2>2, <2>3
<1> QED
  BY <1>1, <1>2 DEF Catalogue

\* A work that is made goes on the list as what it was made of.
LEMMA EnlistPuts ==
    ASSUME NEW rows, NEW work, NEW composer, NEW f \in Features
    PROVE  \E row : /\ Listed(row) /\ row.features = f /\ row.composer = composer
                    /\ Enlist(rows, work, composer, f) = Put(rows, work, row)
<1>1. PICK row : row = [composer |-> composer, features |-> f,
                        at |-> 1 + Max({0} \union {rows[w].at : w \in DOMAIN rows})]
  OBVIOUS
<1>2. Listed(row) /\ row.features = f /\ row.composer = composer
  BY <1>1 DEF Listed
<1>3. Enlist(rows, work, composer, f) = Put(rows, work, row)
  BY <1>1 DEF Enlist
<1> QED
  BY <1>2, <1>3

-----------------------------------------------------------------------------
(* Folding.                                                                *)

\* No work folds into itself by way of others: of any works that fold, one folds into none of them.
Acyclic(merges) ==
    \A S \in SUBSET DOMAIN merges : S # {} => \E w \in S : merges[w] \notin S

\* A work folds into one that is derived as it is.
AlikeMerges(rows, merges) ==
    \A w \in DOMAIN merges :
        /\ w \in DOMAIN rows /\ merges[w] \in DOMAIN rows
        /\ rows[merges[w]].features.derivation = rows[w].features.derivation

\* Of the works of a list, some are in it still, as they are derived.
Among(rows, some) ==
    /\ Catalogue(some)
    /\ \A w \in DOMAIN some :
        w \in DOMAIN rows /\ some[w].features.derivation = rows[w].features.derivation

\* A work waits, is in the pool, or has folded.
Folds(rows, state) ==
    /\ Among(rows, state.pool) /\ Among(rows, state.waiting)
    /\ DOMAIN state.pool \intersect DOMAIN state.waiting = {}
    /\ DOMAIN state.merges \intersect (DOMAIN state.pool \union DOMAIN state.waiting) = {}
    /\ AlikeMerges(rows, state.merges)
    /\ Acyclic(state.merges)

\* Fewer works are still works of the list.
LEMMA SomeAreAmong ==
    ASSUME NEW rows, NEW some, Among(rows, some), NEW S
    PROVE  /\ Among(rows, Restrict(some, S \intersect DOMAIN some))
           /\ DOMAIN Restrict(some, S \intersect DOMAIN some) = S \intersect DOMAIN some
  BY DEF Among, Catalogue, Restrict

\* So are those that remain when one is dropped.
LEMMA DropKeeps ==
    ASSUME NEW rows, NEW some, Among(rows, some), NEW w
    PROVE  Among(rows, Drop(some, w)) /\ DOMAIN Drop(some, w) = DOMAIN some \ {w}
  BY DEF Among, Catalogue, Restrict, Drop

\* One more merge, into a work that has not folded itself, makes no cycle.
LEMMA MergeIsAcyclic ==
    ASSUME NEW merges, Acyclic(merges), NEW w, NEW t,
           w \notin DOMAIN merges, t \notin DOMAIN merges, t # w
    PROVE  Acyclic(Put(merges, w, t))
<1> DEFINE more == Put(merges, w, t)
<1>1. DOMAIN more = DOMAIN merges \union {w} /\ more[w] = t /\ \A x \in DOMAIN merges : more[x] = merges[x]
  BY DEF Put
<1> HIDE DEF more
<1> SUFFICES ASSUME NEW S \in SUBSET DOMAIN more, S # {} PROVE \E v \in S : more[v] \notin S
  BY DEF Acyclic, more
<1>2. CASE w \in S
  BY <1>1, <1>2
<1>3. CASE w \notin S
  <2>1. S \in SUBSET DOMAIN merges
    BY <1>1, <1>3
  <2>2. PICK v \in S : merges[v] \notin S
    BY <2>1 DEF Acyclic
  <2> QED
    BY <1>1, <2>1, <2>2
<1> QED
  BY <1>2, <1>3

\* A step of the fold: the work that waited has folded or is in the pool.
LEMMA FoldOneKeeps ==
    ASSUME NEW rows, NEW state, Folds(rows, state), NEW w \in DOMAIN state.waiting
    PROVE  Folds(rows, FoldOne(state, w))
<1> DEFINE f == state.waiting[w].features
           ids == f.ids
           best == BestMatch(f, state.pool)
           t == best.work
<1>1. f \in Features /\ ids \in SUBSET Identifiers
  BY DEF Folds, Among, Catalogue, Listed, Features
<1>2. w \in DOMAIN rows /\ f.derivation = rows[w].features.derivation
  BY DEF Folds, Among
<1>3. Among(rows, Drop(state.waiting, w)) /\ DOMAIN Drop(state.waiting, w) = DOMAIN state.waiting \ {w}
  BY DropKeeps DEF Folds
<1>4. Catalogue(state.pool)
  BY DEF Folds, Among
<1>5. w \notin DOMAIN state.pool /\ w \notin DOMAIN state.merges
  BY DEF Folds
<1>6. CASE Classify(best.score) = "auto_matched"
  <2>1. FoldOne(state, w) =
            [merges |-> Put(state.merges, w, t), pool |-> RefreshCandidate(state.pool, t, ids),
             waiting |-> Drop(state.waiting, w)]
    BY <1>6 DEF FoldOne, FoldInto
  <2>2. t \in DOMAIN state.pool /\ state.pool[t].features.derivation = f.derivation
    BY <1>1, <1>4, <1>6, MatchIsListed
  <2>3. /\ DOMAIN RefreshCandidate(state.pool, t, ids) = DOMAIN state.pool
        /\ Among(rows, RefreshCandidate(state.pool, t, ids))
    BY <1>1, <1>4, RefreshKeeps DEF Folds, Among
  <2>4. t \in DOMAIN rows /\ rows[t].features.derivation = rows[w].features.derivation
    BY <1>2, <2>2 DEF Folds, Among
  <2>5. t \notin DOMAIN state.merges /\ t # w
    BY <1>5, <2>2 DEF Folds
  <2>6. Acyclic(Put(state.merges, w, t))
    BY <1>5, <2>5, MergeIsAcyclic DEF Folds
  <2> DEFINE more == Put(state.merges, w, t)
  <2>7. /\ DOMAIN more = DOMAIN state.merges \union {w} /\ more[w] = t
        /\ \A x \in DOMAIN state.merges : more[x] = state.merges[x]
    BY <1>5 DEF Put
  <2> HIDE DEF more, t
  <2>8. AlikeMerges(rows, more)
    BY <1>2, <2>4, <2>7 DEF Folds, AlikeMerges
  <2>9. Acyclic(more) /\ FoldOne(state, w) =
            [merges |-> more, pool |-> RefreshCandidate(state.pool, t, ids), waiting |-> Drop(state.waiting, w)]
    BY <2>1, <2>6 DEF more
  <2> HIDE DEF ids
  <2> QED
    BY <1>3, <1>5, <2>3, <2>7, <2>8, <2>9 DEF Folds
<1>7. CASE Classify(best.score) # "auto_matched"
  <2>1. PICK c, old : c = state.waiting[w].composer /\ old = state.pool
    OBVIOUS
  <2> DEFINE pool == Enlist(old, w, c, f)
  <2>2. FoldOne(state, w) =
            [merges |-> state.merges, pool |-> pool, waiting |-> Drop(state.waiting, w)]
    BY <1>7, <2>1 DEF FoldOne, FoldInto
  <2> HIDE DEF f
  <2>3. Catalogue(old)
    BY <1>4, <2>1
  <2>4. /\ DOMAIN pool = DOMAIN old \union {w} /\ Catalogue(pool)
        /\ pool[w].features = f /\ \A v \in DOMAIN old \ {w} : pool[v] = old[v]
    <3>1. PICK row : Listed(row) /\ row.features = f /\ pool = Put(old, w, row)
      BY <1>1, EnlistPuts
    <3> HIDE DEF pool
    <3> QED
      BY <2>3, <3>1 DEF Put, Catalogue
  <2> HIDE DEF pool
  <2>5. Among(rows, pool)
    BY <1>2, <2>1, <2>4 DEF Folds, Among
  <2> QED
    BY <1>3, <1>5, <2>1, <2>2, <2>4, <2>5 DEF Folds
<1> QED
  BY <1>6, <1>7

\* Whose turn it is makes no difference to that.
LEMMA FoldNextKeeps ==
    ASSUME NEW rows, NEW canonical, NEW group, NEW state, Folds(rows, state)
    PROVE  Folds(rows, FoldNext(group, canonical, state))
<1> DEFINE next == {w \in DOMAIN state.waiting :
                    \A v \in DOMAIN state.waiting \ {w} : Turn(group, canonical, w, v)}
<1>1. FoldNext(group, canonical, state) = IF next = {} THEN state ELSE FoldOne(state, CHOOSE w \in next : TRUE)
  BY DEF FoldNext
<1>2. next \subseteq DOMAIN state.waiting
  OBVIOUS
<1> HIDE DEF next
<1> QED
  BY <1>1, <1>2, FoldOneKeeps

\* A round starts from what the last one left in the pool.
LEMMA FoldRoundKeeps ==
    ASSUME NEW rows, NEW canonical, NEW group, NEW state, Folds(rows, state),
           IsFiniteSet(DOMAIN state.pool)
    PROVE  Folds(rows, FoldRound(group, canonical, state))
<1> DEFINE base == {w \in DOMAIN state.pool :
            \A c \in ComposersOf(group) \ {group[w].composer} :
                ComposerOrder(group, canonical, group[w].composer, c)}
           others == DOMAIN state.pool \ base
           start == [merges |-> state.merges, pool |-> Restrict(state.pool, base),
                     waiting |-> Restrict(state.pool, others)]
           N == Cardinality(others)
           after == CHOOSE f : f = [n \in 0 .. N |-> IF n = 0 THEN start ELSE FoldNext(group, canonical, f[n - 1])]
<1>1. FoldRound(group, canonical, state) = after[N]
  BY DEF FoldRound
<1>2. N \in Nat
  BY FS_Subset, FS_CardinalityType
<1>3. base \subseteq DOMAIN state.pool /\ others \subseteq DOMAIN state.pool /\ base \intersect others = {}
  OBVIOUS
<1> HIDE DEF base, others
<1>4. /\ Among(rows, Restrict(state.pool, base)) /\ DOMAIN Restrict(state.pool, base) = base
      /\ Among(rows, Restrict(state.pool, others)) /\ DOMAIN Restrict(state.pool, others) = others
  <2>1. base \intersect DOMAIN state.pool = base /\ others \intersect DOMAIN state.pool = others
    BY <1>3
  <2> QED
    BY <2>1, SomeAreAmong DEF Folds
<1>5. Folds(rows, start)
  BY <1>3, <1>4 DEF Folds
<1> HIDE DEF start, N
<1>6. after = [n \in 0 .. N |-> IF n = 0 THEN start ELSE FoldNext(group, canonical, after[n - 1])]
  BY <1>2, RoundRuns
<1> HIDE DEF after
<1> DEFINE good == {n \in 0 .. N : Folds(rows, after[n])}
<1>7. 0 \in good
  BY <1>2, <1>5, <1>6
<1>8. ASSUME NEW n \in 0 .. N - 1, n \in good PROVE n + 1 \in good
  <2>1. n + 1 \in 0 .. N /\ n + 1 # 0 /\ (n + 1) - 1 = n
    BY <1>2
  <2>2. after[n + 1] = FoldNext(group, canonical, after[n])
    BY <1>6, <2>1
  <2> QED
    BY <1>8, <2>1, <2>2, FoldNextKeeps
<1>9. good \in SUBSET (0 .. N)
  OBVIOUS
<1> HIDE DEF good
<1>10. N \in good
  BY <1>2, <1>7, <1>8, <1>9, UpTo
<1> QED
  BY <1>1, <1>10 DEF good

\* The rounds of a group.
AreRounds(f, rows, canonical, start, N) ==
    f = [n \in 0 .. N |-> IF n = 0 THEN start ELSE FoldRound(rows, canonical, f[n - 1])]

\* The function that FoldGroup chooses exists.
LEMMA GroupRuns ==
    ASSUME NEW rows, NEW canonical, NEW start, NEW N \in Nat
    PROVE  \E f : AreRounds(f, rows, canonical, start, N)
<1> DEFINE Runs(f, n) == f = [i \in 0 .. n |-> IF i = 0 THEN start ELSE FoldRound(rows, canonical, f[i - 1])]
           good == {n \in 0 .. N : \E f : Runs(f, n)}
<1>1. 0 \in good
  <2>1. Runs([i \in 0 .. 0 |-> start], 0)
    OBVIOUS
  <2>2. 0 \in 0 .. N
    OBVIOUS
  <2> HIDE DEF Runs
  <2> QED
    BY <2>1, <2>2
<1>2. ASSUME NEW n \in 0 .. N - 1, n \in good PROVE n + 1 \in good
  <2>1. PICK f : Runs(f, n)
    BY <1>2
  <2> DEFINE g == [i \in 0 .. n + 1 |-> IF i <= n THEN f[i] ELSE FoldRound(rows, canonical, f[n])]
  <2>2. ASSUME NEW i \in 0 .. n + 1
        PROVE  g[i] = IF i = 0 THEN start ELSE FoldRound(rows, canonical, g[i - 1])
    <3>1. CASE i = 0
      BY <2>1, <3>1
    <3>2. CASE i # 0 /\ i <= n
      <4>1. g[i] = f[i] /\ g[i - 1] = f[i - 1] /\ i \in 0 .. n
        BY <3>2
      <4>2. f[i] = FoldRound(rows, canonical, f[i - 1])
        BY <2>1, <3>2, <4>1
      <4> HIDE DEF g
      <4> QED
        BY <3>2, <4>1, <4>2
    <3>3. CASE i = n + 1
      <4>1. g[i] = FoldRound(rows, canonical, f[n]) /\ g[i - 1] = f[n] /\ i # 0
        BY <3>3
      <4> HIDE DEF g
      <4> QED
        BY <4>1
    <3> QED
      BY <3>1, <3>2, <3>3
  <2>3. g = [i \in 0 .. n + 1 |-> g[i]]
    OBVIOUS
  <2>4. Runs(g, n + 1)
    <3> HIDE DEF g
    <3> QED
      BY <2>2, <2>3
  <2> HIDE DEF g
  <2> QED
    BY <2>4
<1> HIDE DEF good
<1>3. good \in SUBSET (0 .. N)
  BY DEF good
<1>4. N \in good
  BY <1>1, <1>2, <1>3, UpTo
<1> QED
  BY <1>4 DEF good, AreRounds

\* The works of one composer's duplicate entities fold without a cycle and each into its like.
LEMMA FoldGroupKeeps ==
    ASSUME NEW group, Catalogue(group), IsFiniteSet(DOMAIN group), NEW k
    PROVE  Folds(group, FoldGroup(group, k))
<1> DEFINE start == [merges |-> NoMerges, pool |-> group, waiting |-> NoMerges]
           N == Cardinality(DOMAIN group)
<1>2. N \in Nat
  BY FS_CardinalityType
<1>3. Folds(group, start)
  <2>1. DOMAIN NoMerges = {}
    BY DEF NoMerges
  <2>2. Among(group, group) /\ Among(group, NoMerges)
    BY <2>1 DEF Among, Catalogue
  <2> QED
    BY <2>1, <2>2 DEF Folds, AlikeMerges, Acyclic
<1>4. \E f : AreRounds(f, group, k, start, N)
  <2> HIDE DEF start, N
  <2> QED
    BY <1>2, GroupRuns
<1> DEFINE round == CHOOSE f : AreRounds(f, group, k, start, N)
<1>1. FoldGroup(group, k) = round[N]
  BY DEF FoldGroup, AreRounds
<1> HIDE DEF start, N
<1>9. round = [n \in 0 .. N |-> IF n = 0 THEN start ELSE FoldRound(group, k, round[n - 1])]
  <2>1. AreRounds(round, group, k, start, N)
    BY <1>4, Zenon
  <2> HIDE DEF round
  <2> QED
    BY <2>1 DEF AreRounds
<1> HIDE DEF round
<1> DEFINE good == {n \in 0 .. N : Folds(group, round[n])}
<1>5. 0 \in good
  BY <1>2, <1>3, <1>9
<1>6. ASSUME NEW n \in 0 .. N - 1, n \in good PROVE n + 1 \in good
  <2>1. n + 1 \in 0 .. N /\ n + 1 # 0 /\ (n + 1) - 1 = n
    BY <1>2
  <2>2. round[n + 1] = FoldRound(group, k, round[n])
    BY <1>9, <2>1
  <2>3. IsFiniteSet(DOMAIN round[n].pool)
    BY <1>6, FS_Subset DEF Folds, Among
  <2> QED
    BY <1>6, <2>1, <2>2, <2>3, FoldRoundKeeps
<1>7. good \in SUBSET (0 .. N)
  OBVIOUS
<1> HIDE DEF good
<1>8. N \in good
  BY <1>2, <1>5, <1>6, <1>7, UpTo
<1> QED
  BY <1>1, <1>8 DEF good

\* What a fold leaves: works that folded into their like without a cycle, and pools of those that did not.
Left(rows, merges, pools) ==
    /\ AlikeMerges(rows, merges) /\ Acyclic(merges)
    /\ \A k \in DOMAIN pools : Among(rows, pools[k]) /\ DOMAIN pools[k] \intersect DOMAIN merges = {}

\* Groups have no work in common, so that what folds in one meets nothing that folds in another.
LEMMA WithinKeeps ==
    ASSUME NEW rows, NEW folded, NEW groups,
           \A k \in DOMAIN folded : Folds(groups[k], folded[k]) /\ Among(rows, groups[k]),
           \A j, k \in DOMAIN folded : j # k => DOMAIN groups[j] \intersect DOMAIN groups[k] = {}
    PROVE  Left(rows, Within(folded), [k \in DOMAIN folded |-> folded[k].pool])
<1> DEFINE within == Within(folded)
           group(w) == CHOOSE k \in DOMAIN folded : w \in DOMAIN folded[k].merges
<1>1. DOMAIN within = UNION {DOMAIN folded[k].merges : k \in DOMAIN folded}
  BY DEF Within
<1>2. \A k \in DOMAIN folded : /\ DOMAIN folded[k].merges \subseteq DOMAIN groups[k]
                              /\ DOMAIN folded[k].pool \subseteq DOMAIN groups[k]
                              /\ \A w \in DOMAIN folded[k].merges : folded[k].merges[w] \in DOMAIN groups[k]
  BY DEF Folds, AlikeMerges, Among
<1>3. ASSUME NEW k \in DOMAIN folded, NEW w \in DOMAIN folded[k].merges
      PROVE  within[w] = folded[k].merges[w]
  <2>1. w \in DOMAIN within
    BY <1>1
  <2>2. within[w] = folded[group(w)].merges[w]
    BY <2>1 DEF Within
  <2>3. group(w) \in DOMAIN folded /\ w \in DOMAIN folded[group(w)].merges
    OBVIOUS
  <2> HIDE DEF group
  <2>4. group(w) = k
    BY <1>2, <2>3
  <2> QED
    BY <2>2, <2>4
<1> HIDE DEF within
<1>4. AlikeMerges(rows, within)
  <2> SUFFICES ASSUME NEW w \in DOMAIN within
               PROVE  /\ w \in DOMAIN rows /\ within[w] \in DOMAIN rows
                      /\ rows[within[w]].features.derivation = rows[w].features.derivation
    BY DEF AlikeMerges
  <2>1. PICK k \in DOMAIN folded : w \in DOMAIN folded[k].merges
    BY <1>1
  <2>2. within[w] = folded[k].merges[w]
    BY <1>3, <2>1
  <2>3. /\ w \in DOMAIN groups[k] /\ within[w] \in DOMAIN groups[k]
        /\ groups[k][within[w]].features.derivation = groups[k][w].features.derivation
    BY <2>1, <2>2 DEF Folds, AlikeMerges
  <2> QED
    BY <2>3 DEF Among
<1>5. Acyclic(within)
  <2> SUFFICES ASSUME NEW S \in SUBSET DOMAIN within, S # {}
               PROVE  \E w \in S : within[w] \notin S
    BY DEF Acyclic
  <2>1. PICK k \in DOMAIN folded : S \intersect DOMAIN folded[k].merges # {}
    BY <1>1
  <2> DEFINE T == S \intersect DOMAIN folded[k].merges
  <2>2. Acyclic(folded[k].merges) /\ T \in SUBSET DOMAIN folded[k].merges
    BY DEF Folds
  <2>3. PICK w \in T : folded[k].merges[w] \notin T
    BY <2>1, <2>2 DEF Acyclic
  <2>4. within[w] = folded[k].merges[w] /\ within[w] \in DOMAIN groups[k]
    BY <1>2, <1>3, <2>3
  <2>5. ASSUME within[w] \in S PROVE FALSE
    <3>1. PICK j \in DOMAIN folded : within[w] \in DOMAIN folded[j].merges
      BY <1>1, <2>5
    <3>2. j = k
      BY <1>2, <2>4, <3>1
    <3> QED
      BY <2>3, <2>4, <2>5, <3>1, <3>2
  <2> QED
    BY <2>3, <2>5
<1>6. ASSUME NEW k \in DOMAIN folded
      PROVE  Among(rows, folded[k].pool) /\ DOMAIN folded[k].pool \intersect DOMAIN within = {}
  <2>1. Among(rows, folded[k].pool)
    BY DEF Folds, Among
  <2>2. ASSUME NEW w \in DOMAIN folded[k].pool, w \in DOMAIN within PROVE FALSE
    <3>1. PICK j \in DOMAIN folded : w \in DOMAIN folded[j].merges
      BY <1>1, <2>2
    <3>2. j = k
      BY <1>2, <3>1
    <3> QED
      BY <3>1, <3>2 DEF Folds
  <2> QED
    BY <2>1, <2>2
<1> DEFINE pools == [k \in DOMAIN folded |-> folded[k].pool]
<1>7. DOMAIN pools = DOMAIN folded /\ \A k \in DOMAIN folded : pools[k] = folded[k].pool
  OBVIOUS
<1> HIDE DEF pools
<1>8. Left(rows, within, pools)
  BY <1>4, <1>5, <1>6, <1>7 DEF Left
<1> QED
  BY <1>8 DEF within, pools

-----------------------------------------------------------------------------
(* Works without a composer.                                               *)

\* The composerless works, one after the other.
AreOrphanSteps(f, orphans, pools, start, N) ==
    f = [n \in 0 .. N |-> IF n = 0 THEN start ELSE FoldNextOrphan(orphans, pools, f[n - 1])]

\* The function that FoldComposerless chooses exists.
LEMMA OrphansRun ==
    ASSUME NEW orphans, NEW pools, NEW start, NEW N \in Nat
    PROVE  \E f : AreOrphanSteps(f, orphans, pools, start, N)
<1> DEFINE Runs(f, n) == f = [i \in 0 .. n |-> IF i = 0 THEN start ELSE FoldNextOrphan(orphans, pools, f[i - 1])]
           good == {n \in 0 .. N : \E f : Runs(f, n)}
<1>1. 0 \in good
  <2>1. Runs([i \in 0 .. 0 |-> start], 0)
    OBVIOUS
  <2>2. 0 \in 0 .. N
    OBVIOUS
  <2> HIDE DEF Runs
  <2> QED
    BY <2>1, <2>2
<1>2. ASSUME NEW n \in 0 .. N - 1, n \in good PROVE n + 1 \in good
  <2>1. PICK f : Runs(f, n)
    BY <1>2
  <2> DEFINE g == [i \in 0 .. n + 1 |-> IF i <= n THEN f[i] ELSE FoldNextOrphan(orphans, pools, f[n])]
  <2>2. ASSUME NEW i \in 0 .. n + 1
        PROVE  g[i] = IF i = 0 THEN start ELSE FoldNextOrphan(orphans, pools, g[i - 1])
    <3>1. CASE i = 0
      BY <2>1, <3>1
    <3>2. CASE i # 0 /\ i <= n
      <4>1. g[i] = f[i] /\ g[i - 1] = f[i - 1] /\ i \in 0 .. n
        BY <3>2
      <4>2. f[i] = FoldNextOrphan(orphans, pools, f[i - 1])
        BY <2>1, <3>2, <4>1
      <4> HIDE DEF g
      <4> QED
        BY <3>2, <4>1, <4>2
    <3>3. CASE i = n + 1
      <4>1. g[i] = FoldNextOrphan(orphans, pools, f[n]) /\ g[i - 1] = f[n] /\ i # 0
        BY <3>3
      <4> HIDE DEF g
      <4> QED
        BY <3>3, <4>1
    <3> QED
      BY <3>1, <3>2, <3>3
  <2>3. g = [i \in 0 .. n + 1 |-> g[i]]
    OBVIOUS
  <2>4. Runs(g, n + 1)
    <3> HIDE DEF g
    <3> QED
      BY <2>2, <2>3
  <2> HIDE DEF g
  <2> QED
    BY <2>4
<1> HIDE DEF good
<1>3. good \in SUBSET (0 .. N)
  BY DEF good
<1>4. N \in good
  BY <1>1, <1>2, <1>3, UpTo
<1> QED
  BY <1>4 DEF good, AreOrphanSteps

\* A composerless work waits, has folded into a pool, or stays as it is.
OrphanFolds(rows, orphans, pools, state) ==
    /\ state = [merges |-> state.merges, pools |-> state.pools, waiting |-> state.waiting]
    /\ Left(rows, state.merges, state.pools) /\ DOMAIN state.pools = DOMAIN pools
    /\ \A k \in DOMAIN pools : DOMAIN state.pools[k] \intersect DOMAIN orphans = {}
    /\ DOMAIN state.waiting \subseteq DOMAIN orphans \ DOMAIN state.merges
    /\ \A w \in DOMAIN state.waiting : state.waiting[w] = orphans[w]

\* A work that has had its turn waits no longer; the others are as they were.
LEMMA WaitingDrops ==
    ASSUME NEW waiting, NEW w
    PROVE  /\ DOMAIN Drop(waiting, w) = DOMAIN waiting \ {w}
           /\ \A v \in DOMAIN waiting \ {w} : Drop(waiting, w)[v] = waiting[v]
  BY DEF Drop, Restrict

\* A composerless work that nobody owns stays as it is.
LEMMA OrphanStays ==
    ASSUME NEW rows, NEW orphans, NEW pools, NEW state, OrphanFolds(rows, orphans, pools, state), NEW w
    PROVE  OrphanFolds(rows, orphans, pools, [state EXCEPT !.waiting = Drop(state.waiting, w)])
<1> DEFINE rest == Drop(state.waiting, w)
           next == [state EXCEPT !.waiting = rest]
<1>1. PICK waiting : waiting = state.waiting
  OBVIOUS
<1>2. DOMAIN rest = DOMAIN waiting \ {w} /\ \A v \in DOMAIN waiting \ {w} : rest[v] = waiting[v]
  <2>1. DOMAIN Drop(waiting, w) = DOMAIN waiting \ {w} /\ \A v \in DOMAIN waiting \ {w} : Drop(waiting, w)[v] = waiting[v]
    BY WaitingDrops
  <2> QED
    BY <1>1, <2>1
<1> HIDE DEF rest
<1>3. next = [merges |-> state.merges, pools |-> state.pools, waiting |-> rest]
  BY DEF OrphanFolds
<1>4. OrphanFolds(rows, orphans, pools, [merges |-> state.merges, pools |-> state.pools, waiting |-> rest])
  BY <1>1, <1>2 DEF OrphanFolds
<1> QED
  BY <1>3, <1>4 DEF rest

\* One that has an owner is matched against the works of that composer only.
LEMMA FoldOrphanKeeps ==
    ASSUME NEW rows, NEW orphans, Among(rows, orphans), NEW pools,
           NEW merges, NEW current, NEW waiting,
           OrphanFolds(rows, orphans, pools, [merges |-> merges, pools |-> current, waiting |-> waiting]),
           NEW w \in DOMAIN waiting, NEW c \in DOMAIN pools
    PROVE  OrphanFolds(rows, orphans, pools,
                       FoldOrphan([merges |-> merges, pools |-> current, waiting |-> waiting], w, c,
                                  BestMatch(orphans[w].features, current[c])))
<1> DEFINE state == [merges |-> merges, pools |-> current, waiting |-> waiting]
           f == orphans[w].features
           best == BestMatch(f, current[c])
           t == best.work
           refreshed == RefreshCandidate(current[c], t, f.ids)
           more == Put(merges, w, t)
           grown == [current EXCEPT ![c] = refreshed]
<1>1. /\ AlikeMerges(rows, merges) /\ Acyclic(merges) /\ DOMAIN current = DOMAIN pools
      /\ \A k \in DOMAIN pools : /\ Among(rows, current[k]) /\ DOMAIN current[k] \intersect DOMAIN merges = {}
                                /\ DOMAIN current[k] \intersect DOMAIN orphans = {}
      /\ DOMAIN waiting \subseteq DOMAIN orphans \ DOMAIN merges
      /\ \A v \in DOMAIN waiting : waiting[v] = orphans[v]
  BY DEF OrphanFolds, Left
<1>2. /\ w \in DOMAIN orphans /\ w \in DOMAIN rows /\ f \in Features /\ f.ids \in SUBSET Identifiers
      /\ f.derivation = rows[w].features.derivation
  BY <1>1 DEF Among, Catalogue, Listed, Features
<1>3. CASE Classify(best.score) # "auto_matched"
  <2>1. FoldOrphan(state, w, c, best) = [state EXCEPT !.waiting = Drop(state.waiting, w)]
    BY <1>3 DEF FoldOrphan
  <2> QED
    BY <2>1, OrphanStays
<1>4. CASE Classify(best.score) = "auto_matched"
  <2>1. Catalogue(current[c])
    BY <1>1 DEF Among
  <2>2. t \in DOMAIN current[c] /\ current[c][t].features.derivation = f.derivation
    BY <1>2, <1>4, <2>1, MatchIsListed
  <2>3. DOMAIN refreshed = DOMAIN current[c] /\ Among(rows, refreshed)
    BY <1>1, <1>2, <2>1, RefreshKeeps DEF Among
  <2>4. t \in DOMAIN rows /\ rows[t].features.derivation = rows[w].features.derivation
    BY <1>1, <1>2, <2>2 DEF Among
  <2>5. t \notin DOMAIN merges /\ t # w /\ w \notin DOMAIN merges
    BY <1>1, <1>2, <2>2
  <2>6. Acyclic(more)
    BY <1>1, <2>5, MergeIsAcyclic
  <2>7. /\ DOMAIN more = DOMAIN merges \union {w} /\ more[w] = t
        /\ \A x \in DOMAIN merges : more[x] = merges[x]
    BY <2>5 DEF Put
  <2>8. waiting[w] = orphans[w]
    BY <1>1
  <2>9. FoldOrphan(state, w, c, best) = [merges |-> more, pools |-> grown, waiting |-> Drop(waiting, w)]
    BY <1>4, <2>8 DEF FoldOrphan
  <2>10. DOMAIN grown = DOMAIN pools /\ \A k \in DOMAIN pools : grown[k] = IF k = c THEN refreshed ELSE current[k]
    BY <1>1
  <2> HIDE DEF more, grown, refreshed, t, best
  <2>11. AlikeMerges(rows, more)
    BY <1>1, <1>2, <2>4, <2>7 DEF AlikeMerges
  <2>12. \A k \in DOMAIN pools : /\ Among(rows, grown[k]) /\ DOMAIN grown[k] = DOMAIN current[k]
    BY <1>1, <2>3, <2>10
  <2>13. Left(rows, more, grown)
    BY <1>1, <1>2, <2>6, <2>7, <2>10, <2>11, <2>12 DEF Left
  <2>14. OrphanFolds(rows, orphans, pools, [merges |-> more, pools |-> grown, waiting |-> Drop(waiting, w)])
    <3> DEFINE rest == Drop(waiting, w)
    <3>1. DOMAIN rest = DOMAIN waiting \ {w} /\ \A v \in DOMAIN rest : rest[v] = waiting[v]
      BY WaitingDrops
    <3> HIDE DEF rest
    <3>2. /\ DOMAIN rest \subseteq DOMAIN orphans \ DOMAIN more
          /\ \A v \in DOMAIN rest : rest[v] = orphans[v]
      BY <1>1, <2>7, <3>1
    <3>3. \A k \in DOMAIN pools : DOMAIN grown[k] \intersect DOMAIN orphans = {}
      BY <1>1, <2>12
    <3>4. OrphanFolds(rows, orphans, pools, [merges |-> more, pools |-> grown, waiting |-> rest])
      BY <2>10, <2>13, <3>2, <3>3 DEF OrphanFolds
    <3> QED
      BY <3>4 DEF rest
  <2> QED
    BY <2>9, <2>14 DEF best
<1> QED
  BY <1>3, <1>4

\* Either way the next one is tried on the same terms.
LEMMA FoldNextOrphanKeeps ==
    ASSUME NEW rows, NEW orphans, Among(rows, orphans), NEW pools,
           NEW state, OrphanFolds(rows, orphans, pools, state)
    PROVE  OrphanFolds(rows, orphans, pools, FoldNextOrphan(orphans, pools, state))
<1> DEFINE next == {w \in DOMAIN state.waiting : \A v \in DOMAIN state.waiting \ {w} : InOrder(orphans, w, v)}
           w == CHOOSE x \in next : TRUE
           owners == Owners(orphans[w].features, pools)
           c == CHOOSE x \in owners : TRUE
           folded == FoldOrphan(state, w, c, BestMatch(orphans[w].features, state.pools[c]))
<1>1. FoldNextOrphan(orphans, pools, state) =
        CASE next = {} -> state
          [] next # {} /\ Cardinality(owners) # 1 -> [state EXCEPT !.waiting = Drop(state.waiting, w)]
          [] next # {} /\ Cardinality(owners) = 1 -> folded
  BY DEF FoldNextOrphan
<1>2. next \subseteq DOMAIN state.waiting /\ owners \subseteq DOMAIN pools
  BY DEF Owners
<1>3. PICK merges, current, waiting : state = [merges |-> merges, pools |-> current, waiting |-> waiting]
  BY DEF OrphanFolds
<1>4. ASSUME next # {}, Cardinality(owners) = 1 PROVE OrphanFolds(rows, orphans, pools, folded)
  <2>6. Cardinality({}) = 0
    BY FS_EmptySet
  <2> HIDE DEF next, owners
  <2>1. owners # {}
    BY <1>4, <2>6
  <2>2. w \in DOMAIN waiting /\ c \in DOMAIN pools
    BY <1>2, <1>3, <1>4, <2>1
  <2> HIDE DEF w, c
  <2>3. state.pools[c] = current[c]
    BY <1>3
  <2>4. OrphanFolds(rows, orphans, pools, [merges |-> merges, pools |-> current, waiting |-> waiting])
    BY <1>3
  <2>5. OrphanFolds(rows, orphans, pools,
            FoldOrphan([merges |-> merges, pools |-> current, waiting |-> waiting], w, c,
                       BestMatch(orphans[w].features, current[c])))
    BY <2>2, <2>4, FoldOrphanKeeps
  <2> QED
    BY <1>3, <2>3, <2>5
<1> HIDE DEF next, w, owners, c, folded
<1> QED
  BY <1>1, <1>4, OrphanStays

\* Works without a composer fold into works that have one, so that they close no cycle.
LEMMA FoldComposerlessKeeps ==
    ASSUME NEW rows, NEW orphans, Among(rows, orphans), IsFiniteSet(DOMAIN orphans), NEW pools,
           NEW merges, Left(rows, merges, pools), DOMAIN merges \intersect DOMAIN orphans = {},
           \A k \in DOMAIN pools : DOMAIN pools[k] \intersect DOMAIN orphans = {}
    PROVE  LET all == FoldComposerless(orphans, pools, merges)
           IN  AlikeMerges(rows, all) /\ Acyclic(all)
<1> DEFINE start == [merges |-> merges, pools |-> pools, waiting |-> orphans]
           N == Cardinality(DOMAIN orphans)
<1>1. N \in Nat
  BY FS_CardinalityType
<1>2. OrphanFolds(rows, orphans, pools, start)
  BY DEF OrphanFolds
<1>3. \E f : AreOrphanSteps(f, orphans, pools, start, N)
  <2> HIDE DEF start, N
  <2> QED
    BY <1>1, OrphansRun
<1> DEFINE after == CHOOSE f : AreOrphanSteps(f, orphans, pools, start, N)
<1>4. FoldComposerless(orphans, pools, merges) = after[N].merges
  BY DEF FoldComposerless, AreOrphanSteps
<1> HIDE DEF start, N
<1>5. after = [n \in 0 .. N |-> IF n = 0 THEN start ELSE FoldNextOrphan(orphans, pools, after[n - 1])]
  <2>1. AreOrphanSteps(after, orphans, pools, start, N)
    BY <1>3, Zenon
  <2> HIDE DEF after
  <2> QED
    BY <2>1 DEF AreOrphanSteps
<1> HIDE DEF after
<1> DEFINE good == {n \in 0 .. N : OrphanFolds(rows, orphans, pools, after[n])}
<1>6. 0 \in good
  BY <1>1, <1>2, <1>5
<1>7. ASSUME NEW n \in 0 .. N - 1, n \in good PROVE n + 1 \in good
  <2>1. n + 1 \in 0 .. N /\ n + 1 # 0 /\ (n + 1) - 1 = n
    BY <1>1
  <2>2. after[n + 1] = FoldNextOrphan(orphans, pools, after[n])
    BY <1>5, <2>1
  <2> QED
    BY <1>7, <2>1, <2>2, FoldNextOrphanKeeps
<1>8. good \in SUBSET (0 .. N)
  OBVIOUS
<1> HIDE DEF good
<1>9. N \in good
  BY <1>1, <1>6, <1>7, <1>8, UpTo
<1>10. OrphanFolds(rows, orphans, pools, after[N])
  BY <1>9 DEF good
<1> QED
  BY <1>4, <1>10 DEF OrphanFolds, Left

-----------------------------------------------------------------------------
(* What merge_works comes to.                                              *)

\* Whatever merge_works folds goes, without a cycle, into a work that is derived alike.
LEMMA MergesKeep ==
    ASSUME NEW rows, Catalogue(rows), IsFiniteSet(DOMAIN rows), NEW canonical
    PROVE  AlikeMerges(rows, Merges(rows, canonical).all) /\ Acyclic(Merges(rows, canonical).all)
<1> DEFINE keys == {canonical[c] : c \in ComposersOf(rows)}
           groups == [k \in keys |-> Group(rows, canonical, k)]
           folded == [k \in keys |-> FoldGroup(groups[k], k)]
           pools == [k \in DOMAIN folded |-> folded[k].pool]
           orphans == Restrict(rows, OfComposer(rows, Nobody))
           within == Within(folded)
<1>1. Merges(rows, canonical).all = FoldComposerless(orphans, pools, within)
  <2>1. folded = [k \in keys |-> FoldGroup(Group(rows, canonical, k), k)]
    OBVIOUS
  <2> QED
    BY <2>1 DEF Merges, AndComposerless
<1>2. DOMAIN folded = keys /\ DOMAIN groups = keys /\ DOMAIN pools = keys
      /\ \A k \in keys : /\ folded[k] = FoldGroup(groups[k], k) /\ groups[k] = Group(rows, canonical, k)
                          /\ pools[k] = folded[k].pool
  OBVIOUS
<1>3. \A k \in keys : /\ DOMAIN groups[k] =
                            {w \in DOMAIN rows : rows[w].composer # Nobody /\ canonical[rows[w].composer] = k}
                      /\ \A w \in DOMAIN groups[k] : groups[k][w] = rows[w]
  BY DEF Group, Restrict
<1>4. DOMAIN orphans = {w \in DOMAIN rows : rows[w].composer = Nobody} /\ \A w \in DOMAIN orphans : orphans[w] = rows[w]
  BY DEF Restrict, OfComposer
<1> HIDE DEF groups, folded, orphans, keys, pools
<1>5. Among(rows, orphans) /\ IsFiniteSet(DOMAIN orphans)
  BY <1>4, FS_Subset DEF Among, Catalogue
<1>6. \A k \in keys : Among(rows, groups[k]) /\ Catalogue(groups[k])
  BY <1>3 DEF Among, Catalogue
<1>7. \A k \in keys : IsFiniteSet(DOMAIN groups[k])
  BY <1>3, FS_Subset
<1>8. \A k \in keys : Folds(groups[k], folded[k])
  BY <1>2, <1>6, <1>7, FoldGroupKeeps
<1>9. Left(rows, within, pools)
  <2>1. \A j, k \in keys : j # k => DOMAIN groups[j] \intersect DOMAIN groups[k] = {}
    BY <1>3
  <2>2. Left(rows, Within(folded), [k \in DOMAIN folded |-> folded[k].pool])
    BY <1>2, <1>6, <1>8, <2>1, WithinKeeps
  <2> QED
    BY <2>2 DEF pools
<1>10. \A k \in keys : /\ DOMAIN folded[k].merges \subseteq DOMAIN groups[k]
                       /\ DOMAIN pools[k] \subseteq DOMAIN groups[k]
  BY <1>2, <1>8 DEF Folds, AlikeMerges, Among
<1>11. \A k \in keys : DOMAIN groups[k] \intersect DOMAIN orphans = {}
  BY <1>3, <1>4
<1>12. DOMAIN within \intersect DOMAIN orphans = {}
  BY <1>2, <1>10, <1>11 DEF Within
<1>13. \A k \in DOMAIN pools : DOMAIN pools[k] \intersect DOMAIN orphans = {}
  BY <1>2, <1>10, <1>11
<1> HIDE DEF within
<1> QED
  BY <1>1, <1>5, <1>9, <1>12, <1>13, FoldComposerlessKeeps

\* Where each merge leads, a step farther each time.
AreTargets(f, merges, start, N) ==
    f = [n \in 0 .. N |-> IF n = 0 THEN start ELSE Onward(merges, f[n - 1])]

\* The function that Resolve chooses exists.
LEMMA TargetsRun ==
    ASSUME NEW merges, NEW start, NEW N \in Nat
    PROVE  \E f : AreTargets(f, merges, start, N)
<1> DEFINE Runs(f, n) == f = [i \in 0 .. n |-> IF i = 0 THEN start ELSE Onward(merges, f[i - 1])]
           good == {n \in 0 .. N : \E f : Runs(f, n)}
<1>1. 0 \in good
  <2>1. Runs([i \in 0 .. 0 |-> start], 0)
    OBVIOUS
  <2>2. 0 \in 0 .. N
    OBVIOUS
  <2> HIDE DEF Runs
  <2> QED
    BY <2>1, <2>2
<1>2. ASSUME NEW n \in 0 .. N - 1, n \in good PROVE n + 1 \in good
  <2>1. PICK f : Runs(f, n)
    BY <1>2
  <2> DEFINE g == [i \in 0 .. n + 1 |-> IF i <= n THEN f[i] ELSE Onward(merges, f[n])]
  <2>2. ASSUME NEW i \in 0 .. n + 1
        PROVE  g[i] = IF i = 0 THEN start ELSE Onward(merges, g[i - 1])
    <3>1. CASE i = 0
      BY <2>1, <3>1
    <3>2. CASE i # 0 /\ i <= n
      <4>1. g[i] = f[i] /\ g[i - 1] = f[i - 1] /\ i \in 0 .. n
        BY <3>2
      <4>2. f[i] = Onward(merges, f[i - 1])
        BY <2>1, <3>2, <4>1
      <4> HIDE DEF g
      <4> QED
        BY <3>2, <4>1, <4>2
    <3>3. CASE i = n + 1
      <4>1. g[i] = Onward(merges, f[n]) /\ g[i - 1] = f[n] /\ i # 0
        BY <3>3
      <4> HIDE DEF g
      <4> QED
        BY <3>3, <4>1
    <3> QED
      BY <3>1, <3>2, <3>3
  <2>3. g = [i \in 0 .. n + 1 |-> g[i]]
    OBVIOUS
  <2>4. Runs(g, n + 1)
    <3> HIDE DEF g
    <3> QED
      BY <2>2, <2>3
  <2> HIDE DEF g
  <2> QED
    BY <2>4
<1> HIDE DEF good
<1>3. good \in SUBSET (0 .. N)
  BY DEF good
<1>4. N \in good
  BY <1>1, <1>2, <1>3, UpTo
<1> QED
  BY <1>4 DEF good, AreTargets

\* From a work that folded, any number of merges on, is a work of the list that is derived alike.
Alike(rows, merges, at) ==
    /\ DOMAIN at = DOMAIN merges
    /\ \A w \in DOMAIN merges :
        /\ at[w] \in DOMAIN rows
        /\ rows[at[w]].features.derivation = rows[w].features.derivation

\* A step farther is still in the list, and derived alike.
LEMMA OnwardKeeps ==
    ASSUME NEW rows, NEW merges, AlikeMerges(rows, merges), NEW at, Alike(rows, merges, at)
    PROVE  Alike(rows, merges, Onward(merges, at))
<1> DEFINE next == Onward(merges, at)
<1>1. DOMAIN next = DOMAIN merges
      /\ \A w \in DOMAIN merges : next[w] = IF at[w] \in DOMAIN merges THEN merges[at[w]] ELSE at[w]
  BY DEF Onward
<1> HIDE DEF next
<1>2. Alike(rows, merges, next)
  BY <1>1 DEF Alike, AlikeMerges
<1> QED
  BY <1>2 DEF next

\* Works that fold into one another end in works that stay: the farther one goes the fewer are under way.
LEMMA ResolveEnds ==
    ASSUME NEW rows, NEW merges, AlikeMerges(rows, merges), Acyclic(merges), IsFiniteSet(DOMAIN merges)
    PROVE  /\ Alike(rows, merges, Resolve(merges))
           /\ \A w \in DOMAIN merges : Resolve(merges)[w] \notin DOMAIN merges
<1> DEFINE M == DOMAIN merges
           N == Cardinality(M)
<1>1. N \in Nat
  BY FS_CardinalityType
<1>2. \E f : AreTargets(f, merges, merges, N)
  <2> HIDE DEF N
  <2> QED
    BY <1>1, TargetsRun
<1> DEFINE final == CHOOSE f : AreTargets(f, merges, merges, N)
<1>3. Resolve(merges) = final[N]
  BY DEF Resolve, AreTargets
<1>4. IsFiniteSet(M) /\ N = Cardinality(M)
  OBVIOUS
<1> HIDE DEF N
<1>5. final = [n \in 0 .. N |-> IF n = 0 THEN merges ELSE Onward(merges, final[n - 1])]
  <2>1. AreTargets(final, merges, merges, N)
    BY <1>2, Zenon
  <2> HIDE DEF final
  <2> QED
    BY <2>1 DEF AreTargets
<1> HIDE DEF final
<1>6. final[0] = merges
  BY <1>1, <1>5
<1>7. \A n \in 0 .. N - 1 : n \in 0 .. N /\ n + 1 \in 0 .. N /\ final[n + 1] = Onward(merges, final[n])
  <2> SUFFICES ASSUME NEW n \in 0 .. N - 1 PROVE n \in 0 .. N /\ n + 1 \in 0 .. N /\ final[n + 1] = Onward(merges, final[n])
    OBVIOUS
  <2>1. n \in 0 .. N /\ n + 1 \in 0 .. N /\ n + 1 # 0 /\ (n + 1) - 1 = n
    BY <1>1
  <2> QED
    BY <1>5, <2>1
<1>8. \A n \in 0 .. N - 1 : \A w \in M :
        final[n + 1][w] = IF final[n][w] \in M THEN merges[final[n][w]] ELSE final[n][w]
  BY <1>7 DEF Onward
<1> DEFINE alike == {n \in 0 .. N : Alike(rows, merges, final[n])}
<1>9. N \in alike
  <2>1. 0 \in alike
    BY <1>1, <1>6 DEF Alike, AlikeMerges
  <2>2. \A n \in 0 .. N - 1 : n \in alike => n + 1 \in alike
    BY <1>7, OnwardKeeps
  <2>3. alike \in SUBSET (0 .. N)
    OBVIOUS
  <2> HIDE DEF alike
  <2> QED
    BY <1>1, <2>1, <2>2, <2>3, UpTo
<1> DEFINE ahead == {n \in 0 .. N : n # N => \A w \in M : merges[w] \in M => final[n + 1][w] = final[n][merges[w]]}
<1> HIDE DEF M
<1>10. ahead = 0 .. N
  <2>1. 0 \in ahead
    <3>1. 0 # N => 0 \in 0 .. N - 1
      BY <1>1
    <3> QED
      BY <1>1, <1>6, <1>8, <3>1
  <2>2. ASSUME NEW n \in 0 .. N - 1, n \in ahead PROVE n + 1 \in ahead
    <3>1. n # N /\ n + 1 \in 0 .. N
      BY <1>1
    <3>2. ASSUME n + 1 # N, NEW w \in M, merges[w] \in M
          PROVE  final[n + 1 + 1][w] = final[n + 1][merges[w]]
      <4>1. n + 1 \in 0 .. N - 1
        BY <1>1, <3>2
      <4>2. final[n + 1][w] = final[n][merges[w]]
        BY <2>2, <3>1, <3>2
      <4> QED
        BY <1>8, <3>2, <4>1, <4>2
    <3> QED
      BY <3>1, <3>2
  <2>3. ahead \in SUBSET (0 .. N)
    OBVIOUS
  <2> HIDE DEF ahead
  <2> QED
    BY <1>1, <2>1, <2>2, <2>3, UpTo
<1> DEFINE there == {n \in 0 .. N : \A w \in M : merges[w] \notin M => final[n][w] = merges[w]}
<1>12. there = 0 .. N
  <2>1. 0 \in there
    BY <1>1, <1>6
  <2>2. \A n \in 0 .. N - 1 : n \in there => n + 1 \in there
    BY <1>7, <1>8
  <2>3. there \in SUBSET (0 .. N)
    OBVIOUS
  <2> HIDE DEF there
  <2> QED
    BY <1>1, <2>1, <2>2, <2>3, UpTo
<1> DEFINE underway(n) == {w \in M : final[n][w] \in M}
           fewer == {n \in 0 .. N : underway(n) = {} \/ Cardinality(underway(n)) <= N - n}
<1>11. N \in fewer
  <2>1. \A n \in 0 .. N : IsFiniteSet(underway(n)) /\ Cardinality(underway(n)) \in Nat /\ Cardinality(underway(n)) <= N
    BY <1>4, FS_Subset, FS_CardinalityType
  <2>2. 0 \in fewer
    BY <1>1, <2>1
  <2>3. ASSUME NEW n \in 0 .. N - 1, n \in fewer PROVE n + 1 \in fewer
    <3>1. n \in 0 .. N /\ n + 1 \in 0 .. N
      BY <1>1
    <3>2. underway(n + 1) \subseteq underway(n)
      BY <1>8
    <3>3. CASE underway(n) = {}
      BY <3>1, <3>2, <3>3
    <3>4. CASE underway(n) # {}
      <4>1. underway(n + 1) # underway(n)
        <5> SUFFICES ASSUME underway(n + 1) = underway(n) PROVE FALSE
          OBVIOUS
        <5>1. underway(n) \in SUBSET DOMAIN merges
          BY DEF M
        <5>2. PICK w \in underway(n) : merges[w] \notin underway(n)
          BY <3>4, <5>1 DEF Acyclic
        <5>3. w \in M /\ final[n][w] \in M /\ final[n + 1][w] \in M
          BY <5>2
        <5>4. merges[w] \in M
          BY <1>12, <3>1, <5>3
        <5>5. final[n + 1][w] = final[n][merges[w]]
          <6>1. n \in ahead /\ n # N
            BY <1>1, <1>10, <3>1
          <6> QED
            BY <5>3, <5>4, <6>1
        <5> QED
          BY <5>2, <5>3, <5>4, <5>5
      <4>2. Cardinality(underway(n + 1)) < Cardinality(underway(n))
        <5> DEFINE S == underway(n)
                   T == underway(n + 1)
        <5>1. IsFiniteSet(S) /\ Cardinality(S) \in Nat /\ Cardinality(T) \in Nat
          BY <2>1, <3>1
        <5>2. T \in SUBSET S /\ T # S
          BY <3>2, <4>1
        <5> HIDE DEF S, T
        <5>3. Cardinality(T) <= Cardinality(S) /\ (Cardinality(S) = Cardinality(T) => S = T)
          BY <5>1, <5>2, FS_Subset
        <5>4. Cardinality(T) < Cardinality(S)
          BY <5>1, <5>2, <5>3
        <5> QED
          BY <5>4 DEF S, T
      <4>3. Cardinality(underway(n)) <= N - n
        BY <2>3, <3>4
      <4>4. Cardinality(underway(n)) \in Nat /\ Cardinality(underway(n + 1)) \in Nat
        BY <2>1, <3>1
      <4> HIDE DEF underway
      <4>5. Cardinality(underway(n + 1)) <= N - (n + 1)
        BY <1>1, <4>2, <4>3, <4>4
      <4> QED
        BY <3>1, <4>5
    <3> QED
      BY <3>3, <3>4
  <2>4. fewer \in SUBSET (0 .. N)
    OBVIOUS
  <2> HIDE DEF fewer
  <2> QED
    BY <1>1, <2>2, <2>3, <2>4, UpTo
<1>13. underway(N) = {}
  <2>1. N \in 0 .. N /\ N - N = 0
    BY <1>1
  <2>2. IsFiniteSet(underway(N)) /\ Cardinality(underway(N)) \in Nat
    BY <1>4, FS_Subset, FS_CardinalityType
  <2>3. underway(N) = {} \/ Cardinality(underway(N)) <= 0
    BY <1>11, <2>1
  <2>4. \A S : IsFiniteSet(S) => (Cardinality(S) = 0 <=> S = {})
    BY FS_EmptySet
  <2> HIDE DEF underway
  <2>5. CASE Cardinality(underway(N)) <= 0
    <3>1. Cardinality(underway(N)) = 0
      BY <2>2, <2>5
    <3> QED
      BY <2>2, <2>4, <3>1
  <2> QED
    BY <2>3, <2>5
<1> QED
  BY <1>3, <1>9, <1>13 DEF M

-----------------------------------------------------------------------------
(* The rows of silver, and what a load or a rematch knows of its works.    *)

\* A row of mentions, as far as its work and candidate are numbers.
MentionRow == [doc : Docs, work : Nat, status : Statuses, candidate : Nat]

\* Every work has a title, which says what it is derived from.
TypedWorks(ws) ==
    \A w \in DOMAIN ws : DOMAIN ws[w] = {"composer", "title", "premiere"} /\ ws[w].title \in Titles

\* What a title says its work is: itself, a part, an arrangement or a version.
Derivation(title) == TitleFeatures[title].derivation

\* What PointersResolve and DerivedStaysApart say of the mentions.
SoundMentions(ws, ms) ==
    \A m \in Mentions : ms[m] # Absent =>
        /\ ms[m] \in MentionRow
        /\ {ms[m].work, ms[m].candidate} \subseteq DOMAIN ws \union {None}
        /\ ms[m].status # "manual_matched" /\ ms[m].work \in DOMAIN ws =>
                Derivation(ms[m].doc.title) = Derivation(ws[ms[m].work].title)

\* Works, identifiers and mentions hang together, and no id is given twice.
Silver(ws, st, ms, n) ==
    /\ n \in Nat /\ DOMAIN ws \subseteq 1 .. n /\ TypedWorks(ws)
    /\ st \subseteq (DOMAIN ws) \X Identifiers
    /\ DOMAIN ms = Mentions /\ SoundMentions(ws, ms)

\* Candidates that may be of works that are gone, but of no other work than the one they were.
Knows(ws, n, rows) ==
    /\ Catalogue(rows) /\ DOMAIN rows \subseteq 1 .. n
    /\ \A w \in DOMAIN rows \intersect DOMAIN ws : rows[w].features.derivation = Derivation(ws[w].title)

\* What the sources feed is documents.
LEMMA DocsAreDocuments == Docs \subseteq Document
  BY FeedsAssumption DEF Docs

\* A document is derived as its title is.
LEMMA MentionFeaturesAre ==
    ASSUME NEW d \in Docs
    PROVE  /\ MentionFeatures(d) \in Features /\ MentionFeatures(d).ids \in SUBSET Identifiers
           /\ MentionFeatures(d).derivation = Derivation(d.title) /\ d.title \in Titles
<1> DEFINE f == TitleFeatures[d.title]
           external == {i \in d.stated : i[1] \in ExternalSchemes}
           numbers == d.stated \ external
           opus == IF f.opus # 0 THEN f.opus ELSE d.opus
<1>1. d \in Document
  BY DocsAreDocuments
<1>2. d.title \in Titles /\ d.stated \in SUBSET Identifiers /\ d.opus \in Opuses \union {0}
  BY <1>1 DEF Document
<1>3. f \in Features
  BY <1>2, TitleFeaturesAssumption
<1>4. external \in SUBSET Identifiers /\ numbers \in SUBSET Identifiers
  BY <1>2
<1>5. opus \in Opuses \union {0}
  BY <1>2, <1>3 DEF Features
<1>6. MentionFeatures(d) = IF f.derivation = Original
                           THEN [f EXCEPT !.ids = f.ids \union d.stated, !.opus = opus]
                           ELSE [f EXCEPT !.ids = external, !.parents = f.parents \union numbers, !.opus = opus]
  BY DEF MentionFeatures
<1> HIDE DEF f, external, numbers, opus
<1>7. CASE f.derivation = Original
  <2>1. MentionFeatures(d) = [f EXCEPT !.ids = f.ids \union d.stated, !.opus = opus]
    BY <1>6, <1>7
  <2>2. MentionFeatures(d) \in Features /\ MentionFeatures(d).derivation = f.derivation
    BY <1>2, <1>3, <1>5, <2>1 DEF Features
  <2> QED
    BY <1>2, <2>2 DEF Features, Derivation, f
<1>8. CASE f.derivation # Original
  <2>1. MentionFeatures(d) = [f EXCEPT !.ids = external, !.parents = f.parents \union numbers, !.opus = opus]
    BY <1>6, <1>8
  <2>2. MentionFeatures(d) \in Features /\ MentionFeatures(d).derivation = f.derivation
    BY <1>3, <1>4, <1>5, <2>1 DEF Features
  <2> QED
    BY <1>2, <2>2 DEF Features, Derivation, f
<1> QED
  BY <1>7, <1>8

\* A decision: one of the candidates, derived as the mention is, or a new work.
LEMMA DecisionsAre ==
    ASSUME NEW f \in Features, NEW rows, Catalogue(rows), NEW new, NEW r, r = Decide(f, rows, new)
    PROVE  /\ r.status \in {"auto_matched", "needs_review", "created"}
           /\ r.status = "created" => r.work = new /\ r.candidate = None
           /\ r.status # "created" => /\ r.candidate \in DOMAIN rows
                                      /\ rows[r.candidate].features.derivation = f.derivation
           /\ r.status = "auto_matched" => r.work = r.candidate
           /\ r.status = "needs_review" => r.work = None
<1> DEFINE best == BestMatch(f, rows)
           status == Classify(best.score)
<1>1. r = [status |-> status,
           work |-> CASE status = "auto_matched" -> best.work
                      [] status = "needs_review" -> None
                      [] status = "created" -> new,
           candidate |-> IF status = "created" THEN None ELSE best.work]
  BY DEF Decide, DecisionFrom
<1>2. status # "created" => best.work \in DOMAIN rows /\ rows[best.work].features.derivation = f.derivation
  BY MatchIsListed
<1>7. best.score \in Int
  <2> DEFINE score == [w \in DOMAIN rows |-> Score(f, rows[w].features)]
             first == {w \in DOMAIN rows :
              /\ score[w] > 0
              /\ \A v \in DOMAIN rows \ {w} :
                  score[v] < score[w] \/ (score[v] = score[w] /\ rows[w].at < rows[v].at)}
             some == CHOOSE w \in first : TRUE
  <2>1. first \subseteq DOMAIN rows /\ \A w \in DOMAIN rows : score[w] \in Int
    BY ScoresAreNumbers DEF Catalogue, Listed
  <2>2. best = IF first = {} THEN NoMatch ELSE [score |-> score[some], work |-> some]
    BY DEF BestMatch
  <2> HIDE DEF first, score, best
  <2>3. CASE first = {}
    BY <2>2, <2>3 DEF NoMatch
  <2>4. CASE first # {}
    <3>1. some \in DOMAIN rows
      BY <2>1, <2>4
    <3> HIDE DEF some
    <3> QED
      BY <2>1, <2>2, <2>4, <3>1
  <2> QED
    BY <2>3, <2>4
<1>3. status \in {"auto_matched", "needs_review", "created"}
  <2>3. PICK score \in Int : score = best.score
    BY <1>7
  <2>4. Classify(score) \in {"auto_matched", "needs_review", "created"}
    BY DEF Classify, AutoThreshold, ReviewThreshold
  <2> QED
    BY <2>3, <2>4
<1> HIDE DEF status, best
<1>4. r.status = status /\ r.candidate = (IF status = "created" THEN None ELSE best.work)
  BY <1>1
<1>5. /\ status = "auto_matched" => r.work = best.work
      /\ status = "needs_review" => r.work = None
      /\ status = "created" => r.work = new
  BY <1>1
<1> QED
  BY <1>2, <1>3, <1>4, <1>5

\* Works that are the same works, whatever else became of their rows.
SameWorks(ws, was) ==
    /\ DOMAIN ws = DOMAIN was
    /\ \A w \in DOMAIN was :
        DOMAIN ws[w] = DOMAIN was[w] /\ ws[w].title = was[w].title /\ ws[w].composer = was[w].composer

\* What a decision adds to the works, to their identifiers and to how many were made.
EnteredBy(ws, d, r) == IF r.status = "created" THEN Put(ws, r.work, WorkFor(d)) ELSE ws
StoredBy(st, f, r) == IF r.work = None THEN st ELSE st \union ({r.work} \X f.ids)
MadeBy(n, r) == IF r.status = "created" THEN n + 1 ELSE n

\* The work a decision makes has its title from the document; the others stay as they were.
Entered(entered, ws, n, d, r) ==
    /\ TypedWorks(entered)
    /\ DOMAIN entered = DOMAIN ws \union (IF r.status = "created" THEN {n + 1} ELSE {})
    /\ \A w \in DOMAIN ws : entered[w] = ws[w]
    /\ r.status = "created" => entered[n + 1].title = d.title /\ entered[n + 1].composer = d.composer

\* That is what entering a decision does.
LEMMA EnteredAre ==
    ASSUME NEW ws, NEW n \in Nat, DOMAIN ws \subseteq 1 .. n, TypedWorks(ws), NEW d \in Docs,
           NEW r, r.status = "created" => r.work = n + 1, NEW entered, entered = EnteredBy(ws, d, r)
    PROVE  Entered(entered, ws, n, d, r)
<1>1. CASE r.status = "created"
  <2>1. PICK row : row = WorkFor(d)
    OBVIOUS
  <2>2. DOMAIN row = {"composer", "title", "premiere"} /\ row.title = d.title /\ row.composer = d.composer
    BY <2>1 DEF WorkFor
  <2>3. entered = Put(ws, n + 1, row)
    BY <1>1, <2>1 DEF EnteredBy
  <2>4. n + 1 \notin DOMAIN ws
    OBVIOUS
  <2>5. DOMAIN entered = DOMAIN ws \union {n + 1} /\ entered[n + 1] = row /\ \A w \in DOMAIN ws : entered[w] = ws[w]
    BY <2>3, <2>4 DEF Put
  <2>6. TypedWorks(entered)
    BY <2>2, <2>5, MentionFeaturesAre DEF TypedWorks
  <2> QED
    BY <1>1, <2>2, <2>5, <2>6 DEF Entered
<1>2. CASE r.status # "created"
  <2>1. entered = ws
    BY <1>2 DEF EnteredBy
  <2> QED
    BY <1>2, <2>1 DEF Entered
<1> QED
  BY <1>1, <1>2

\* A mention, decided by what a load or a rematch knows, goes into silver beside the work it made.
LEMMA EntryIsSound ==
    ASSUME NEW ws, NEW st, NEW ms, NEW n, Silver(ws, st, ms, n),
           NEW d \in Docs, NEW m \in Mentions, NEW rows, Knows(ws, n, rows),
           NEW r, r = Decide(MentionFeatures(d), rows, n + 1),
           {r.work, r.candidate} \ {None} \subseteq DOMAIN EnteredBy(ws, d, r),
           NEW now, SameWorks(now, EnteredBy(ws, d, r))
    PROVE  Silver(now, StoredBy(st, MentionFeatures(d), r), [ms EXCEPT ![m] = RowFor(d, r)], MadeBy(n, r))
<1> DEFINE f == MentionFeatures(d)
<1>0. PICK entered : entered = EnteredBy(ws, d, r)
  OBVIOUS
<1>1. /\ f \in Features /\ f.ids \in SUBSET Identifiers /\ d.title \in Titles
      /\ f.derivation = Derivation(d.title)
  BY MentionFeaturesAre
<1>2. n \in Nat /\ DOMAIN ws \subseteq 1 .. n /\ TypedWorks(ws)
  BY DEF Silver
<1>3. /\ r.status \in {"auto_matched", "needs_review", "created"}
      /\ r.status = "created" => r.work = n + 1 /\ r.candidate = None
      /\ r.status # "created" => /\ r.candidate \in DOMAIN rows
                                 /\ rows[r.candidate].features.derivation = f.derivation
      /\ r.status = "auto_matched" => r.work = r.candidate
      /\ r.status = "needs_review" => r.work = None
  BY <1>1, DecisionsAre DEF Knows
<1>4. /\ TypedWorks(entered)
      /\ DOMAIN entered = DOMAIN ws \union (IF r.status = "created" THEN {n + 1} ELSE {})
      /\ \A w \in DOMAIN ws : entered[w] = ws[w]
      /\ r.status = "created" => entered[n + 1].title = d.title
  <2>1. Entered(entered, ws, n, d, r)
    BY <1>2, <1>3, <1>0, EnteredAre
  <2> QED
    BY <2>1 DEF Entered
<1> HIDE DEF f
<1>5. SameWorks(now, entered) /\ {r.work, r.candidate} \ {None} \subseteq DOMAIN entered
  BY <1>0
<1>6. TypedWorks(now) /\ DOMAIN now = DOMAIN entered /\ DOMAIN ws \subseteq DOMAIN now
  BY <1>4, <1>5 DEF SameWorks, TypedWorks
<1>7. MadeBy(n, r) \in Nat /\ DOMAIN now \subseteq 1 .. MadeBy(n, r)
  BY <1>2, <1>4, <1>6 DEF MadeBy
<1>8. \A w \in DOMAIN ws : now[w].title = ws[w].title
  BY <1>4, <1>5 DEF SameWorks
<1>9. StoredBy(st, f, r) \subseteq (DOMAIN now) \X Identifiers
  <2>1. \A p \in (DOMAIN ws) \X Identifiers : p \in (DOMAIN now) \X Identifiers
    BY <1>6
  <2>2. st \subseteq (DOMAIN now) \X Identifiers
    BY <2>1 DEF Silver
  <2>3. r.work # None => \A p \in {r.work} \X f.ids : p \in (DOMAIN now) \X Identifiers
    BY <1>1, <1>5, <1>6
  <2> QED
    BY <2>2, <2>3 DEF StoredBy
<1>10. PICK row : row = RowFor(d, r)
  OBVIOUS
<1>11. row = [doc |-> d, work |-> r.work, status |-> r.status, candidate |-> r.candidate]
  BY <1>10 DEF RowFor
<1>12. row.doc = d /\ row.work = r.work /\ row.status = r.status /\ row.candidate = r.candidate
  BY <1>11
<1>13. {r.work, r.candidate} \subseteq DOMAIN now \union {None} /\ {r.work, r.candidate} \subseteq Nat
  <2>1. {r.work, r.candidate} \subseteq DOMAIN now \union {None}
    BY <1>5, <1>6
  <2> QED
    BY <1>7, <2>1 DEF None
<1>14. row \in MentionRow
  BY <1>3, <1>11, <1>13 DEF MentionRow, Statuses
<1>15. r.work \in DOMAIN now => Derivation(d.title) = Derivation(now[r.work].title)
  <2>1. CASE r.status = "created"
    <3>1. now[n + 1].title = d.title
      BY <1>4, <1>5, <2>1 DEF SameWorks
    <3> QED
      BY <1>3, <2>1, <3>1
  <2>2. CASE r.status = "auto_matched"
    <3>1. r.work \in DOMAIN rows /\ rows[r.work].features.derivation = Derivation(d.title)
      BY <1>1, <1>3, <2>2
    <3>2. r.work \in DOMAIN now => r.work \in DOMAIN ws
      BY <1>4, <1>6, <2>2
    <3> QED
      BY <1>8, <3>1, <3>2 DEF Knows
  <2>3. CASE r.status = "needs_review"
    <3>1. None \notin DOMAIN now
      BY <1>7 DEF None
    <3> QED
      BY <1>3, <2>3, <3>1
  <2> QED
    BY <1>3, <2>1, <2>2, <2>3
<1> DEFINE after == [ms EXCEPT ![m] = row]
<1>16. DOMAIN after = Mentions /\ after[m] = row /\ \A o \in Mentions \ {m} : after[o] = ms[o]
  BY DEF Silver
<1> HIDE DEF after
<1>17. SoundMentions(now, after)
  <2> SUFFICES ASSUME NEW o \in Mentions, after[o] # Absent
               PROVE  /\ after[o] \in MentionRow
                      /\ {after[o].work, after[o].candidate} \subseteq DOMAIN now \union {None}
                      /\ after[o].status # "manual_matched" /\ after[o].work \in DOMAIN now =>
                            Derivation(after[o].doc.title) = Derivation(now[after[o].work].title)
    BY DEF SoundMentions
  <2>1. CASE o = m
    BY <1>12, <1>13, <1>14, <1>15, <1>16, <2>1
  <2>2. CASE o # m
    <3>1. after[o] = ms[o]
      BY <1>16, <2>2
    <3>2. PICK old : old = ms[o]
      OBVIOUS
    <3>3. /\ old \in MentionRow /\ {old.work, old.candidate} \subseteq DOMAIN ws \union {None}
          /\ old.status # "manual_matched" /\ old.work \in DOMAIN ws =>
                Derivation(old.doc.title) = Derivation(ws[old.work].title)
      BY <3>1, <3>2 DEF Silver, SoundMentions
    <3>4. None \notin DOMAIN now
      BY <1>7 DEF None
    <3> QED
      BY <1>6, <1>8, <3>1, <3>2, <3>3, <3>4
  <2> QED
    BY <2>1, <2>2
<1> QED
  BY <1>6, <1>7, <1>9, <1>10, <1>16, <1>17 DEF Silver, after, f

\* Works that go, are made or change otherwise leave what is known of the others as it is.
LEMMA KnowsStill ==
    ASSUME NEW ws, NEW n \in Nat, NEW rows, Knows(ws, n, rows), NEW now, NEW more \in Nat, n <= more,
           \A w \in DOMAIN now \intersect (1 .. n) : w \in DOMAIN ws /\ now[w].title = ws[w].title
    PROVE  Knows(now, more, rows)
<1>1. \A w \in DOMAIN rows : w \in 1 .. n /\ w \in 1 .. more
  BY DEF Knows
<1> QED
  BY <1>1 DEF Knows

\* What the catalogue of a composer has learned of a decision.
LearnedBy(rows, composer, f, r) ==
    RefreshCandidate(IF r.status = "created" THEN Enlist(rows, r.work, composer, f) ELSE rows, r.work, f.ids)

\* Candidates still known for what they are, and no new one but the work that was made.
Learned(known, now, rows, n, r) ==
    /\ Knows(now, MadeBy(n, r), known)
    /\ \A w \in DOMAIN known : w \in DOMAIN rows \/ (r.status = "created" /\ w = n + 1)

\* That is what learning of a decision does, whatever else changes in the rows of works.
LEMMA LearnedIsKnown ==
    ASSUME NEW ws, NEW n \in Nat, DOMAIN ws \subseteq 1 .. n, TypedWorks(ws), NEW rows, Knows(ws, n, rows),
           NEW d \in Docs, NEW r, r.status = "created" => r.work = n + 1,
           NEW composer, NEW now, SameWorks(now, EnteredBy(ws, d, r)),
           NEW known, known = LearnedBy(rows, composer, MentionFeatures(d), r)
    PROVE  Learned(known, now, rows, n, r)
<1>0. PICK entered : entered = EnteredBy(ws, d, r)
  OBVIOUS
<1> DEFINE f == MentionFeatures(d)
           grown == IF r.status = "created" THEN Enlist(rows, r.work, composer, f) ELSE rows
           learned == RefreshCandidate(grown, r.work, f.ids)
<1>1. f \in Features /\ f.ids \in SUBSET Identifiers /\ f.derivation = Derivation(d.title)
  BY MentionFeaturesAre
<1>2. /\ DOMAIN entered = DOMAIN ws \union (IF r.status = "created" THEN {n + 1} ELSE {})
      /\ \A w \in DOMAIN ws : entered[w] = ws[w]
      /\ r.status = "created" => entered[n + 1].title = d.title
  <2>1. Entered(entered, ws, n, d, r)
    BY <1>0, EnteredAre
  <2> QED
    BY <2>1 DEF Entered
<1>3. learned = LearnedBy(rows, composer, f, r)
  BY DEF LearnedBy
<1> HIDE DEF f
<1>4. /\ DOMAIN now = DOMAIN entered /\ \A w \in DOMAIN ws : now[w].title = ws[w].title
      /\ r.status = "created" => now[n + 1].title = d.title
  BY <1>2, <1>0 DEF SameWorks
<1>5. MadeBy(n, r) \in Nat /\ n <= MadeBy(n, r) /\ (r.status = "created" => MadeBy(n, r) = n + 1)
  BY DEF MadeBy
<1>6. Catalogue(rows) /\ DOMAIN rows \subseteq 1 .. n
  BY DEF Knows
<1>7. /\ Catalogue(grown)
      /\ DOMAIN grown = DOMAIN rows \union (IF r.status = "created" THEN {n + 1} ELSE {})
      /\ \A w \in DOMAIN rows : grown[w] = rows[w]
      /\ r.status = "created" => grown[n + 1].features.derivation = Derivation(d.title)
  <2>1. CASE r.status = "created"
    <3>1. PICK row : Listed(row) /\ row.features = f /\ Enlist(rows, r.work, composer, f) = Put(rows, r.work, row)
      BY <1>1, EnlistPuts
    <3>2. grown = Put(rows, n + 1, row)
      BY <2>1, <3>1
    <3>3. n + 1 \notin DOMAIN rows
      BY <1>6
    <3> HIDE DEF grown
    <3>4. DOMAIN grown = DOMAIN rows \union {n + 1} /\ grown[n + 1] = row /\ \A w \in DOMAIN rows : grown[w] = rows[w]
      BY <3>2, <3>3 DEF Put
    <3> QED
      BY <1>1, <1>6, <2>1, <3>1, <3>4 DEF Catalogue
  <2>2. CASE r.status # "created"
    BY <1>6, <2>2
  <2> QED
    BY <2>1, <2>2
<1> HIDE DEF grown
<1>8. /\ DOMAIN learned = DOMAIN grown /\ Catalogue(learned)
      /\ \A w \in DOMAIN grown : learned[w].features.derivation = grown[w].features.derivation
  BY <1>1, <1>7, RefreshKeeps
<1> HIDE DEF learned
<1>9. DOMAIN learned \subseteq 1 .. MadeBy(n, r)
  BY <1>5, <1>6, <1>7, <1>8
<1>10. \A w \in DOMAIN learned \intersect DOMAIN now : learned[w].features.derivation = Derivation(now[w].title)
  <2> SUFFICES ASSUME NEW w \in DOMAIN learned, w \in DOMAIN now
               PROVE  learned[w].features.derivation = Derivation(now[w].title)
    OBVIOUS
  <2>1. CASE w \in DOMAIN rows
    <3>1. w \in DOMAIN ws
      BY <1>2, <1>4, <1>6, <2>1
    <3>2. rows[w].features.derivation = Derivation(ws[w].title)
      BY <2>1, <3>1 DEF Knows
    <3> QED
      BY <1>4, <1>7, <1>8, <2>1, <3>1, <3>2
  <2>2. CASE w \notin DOMAIN rows
    <3>1. r.status = "created" /\ w = n + 1
      BY <1>7, <1>8, <2>2
    <3> QED
      BY <1>4, <1>7, <1>8, <3>1
  <2> QED
    BY <2>1, <2>2
<1>11. Knows(now, MadeBy(n, r), learned)
  BY <1>8, <1>9, <1>10 DEF Knows
<1> QED
  BY <1>3, <1>7, <1>8, <1>11 DEF f, Learned

-----------------------------------------------------------------------------
(* What is read of silver, by a load, a rematch or a fold.                 *)

\* Candidates read of silver are its works, derived as their titles say.
LEMMA ListingsAre ==
    ASSUME Silver(works, stored, mentions, made), NEW rows \in Listings
    PROVE  /\ Catalogue(rows) /\ DOMAIN rows = DOMAIN works
           /\ \A w \in DOMAIN works : rows[w].features.derivation = Derivation(works[w].title)
<1>1. PICK place : rows = [w \in DOMAIN works |->
            [composer |-> works[w].composer, features |-> FeaturesOf(w), at |-> place[w]]]
  BY DEF Listings
<1>2. ASSUME NEW w \in DOMAIN works
      PROVE  /\ FeaturesOf(w) \in Features
             /\ FeaturesOf(w).derivation = Derivation(works[w].title)
  <2>1. works[w].title \in Titles
    BY DEF Silver, TypedWorks
  <2>2. TitleFeatures[works[w].title] \in Features
    BY <2>1, TitleFeaturesAssumption
  <2>3. StoredFor(w) \in SUBSET Identifiers
    BY DEF StoredFor, Silver
  <2> QED
    BY <2>2, <2>3, LearningKeeps DEF FeaturesOf, Derivation
<1>3. DOMAIN rows = DOMAIN works
  BY <1>1
<1>4. \A w \in DOMAIN works : DOMAIN rows[w] = {"composer", "features", "at"} /\ rows[w].features = FeaturesOf(w)
  BY <1>1
<1> QED
  BY <1>2, <1>3, <1>4 DEF Catalogue, Listed

\* So are the groups they are in, which hold no work that is gone.
LEMMA GroupsAre ==
    ASSUME Silver(works, stored, mentions, made), NEW rows \in Listings, NEW canonical,
           NEW groups, groups = InGroups(rows, canonical)
    PROVE  /\ DOMAIN groups = Groups
           /\ \A k \in Groups : Knows(works, made, groups[k]) /\ DOMAIN groups[k] \subseteq DOMAIN works
<1>1. DOMAIN groups = Groups
  BY DEF InGroups
<1>2. ASSUME NEW k \in Groups
      PROVE  Knows(works, made, groups[k]) /\ DOMAIN groups[k] \subseteq DOMAIN works
  <2>1. groups[k] = Restrict(rows, {w \in DOMAIN rows : Key(canonical, rows[w].composer) = k})
    BY <1>2 DEF InGroups
  <2>2. DOMAIN groups[k] \subseteq DOMAIN rows /\ \A w \in DOMAIN groups[k] : groups[k][w] = rows[w]
    BY <2>1 DEF Restrict
  <2>3. /\ Catalogue(rows) /\ DOMAIN rows = DOMAIN works
        /\ \A w \in DOMAIN works : rows[w].features.derivation = Derivation(works[w].title)
    BY ListingsAre
  <2>4. DOMAIN works \subseteq 1 .. made
    BY DEF Silver
  <2> QED
    BY <2>2, <2>3, <2>4 DEF Knows, Catalogue
<1> QED
  BY <1>1, <1>2

-----------------------------------------------------------------------------
(* A rematch: mention after mention, against what it has itself made.      *)

\* The mentions of a rematch, one after the other.
AreRematches(f, order, start, N) ==
    f = [n \in 0 .. N |-> IF n = 0 THEN start ELSE RematchOne(f[n - 1], order[n])]

\* The function that RematchAll chooses exists.
LEMMA RematchRuns ==
    ASSUME NEW order, NEW start, NEW N \in Nat
    PROVE  \E f : AreRematches(f, order, start, N)
<1> DEFINE Runs(f, n) == f = [i \in 0 .. n |-> IF i = 0 THEN start ELSE RematchOne(f[i - 1], order[i])]
           good == {n \in 0 .. N : \E f : Runs(f, n)}
<1>1. 0 \in good
  <2>1. Runs([i \in 0 .. 0 |-> start], 0)
    OBVIOUS
  <2>2. 0 \in 0 .. N
    OBVIOUS
  <2> HIDE DEF Runs
  <2> QED
    BY <2>1, <2>2
<1>2. ASSUME NEW n \in 0 .. N - 1, n \in good PROVE n + 1 \in good
  <2>1. PICK f : Runs(f, n)
    BY <1>2
  <2> DEFINE g == [i \in 0 .. n + 1 |-> IF i <= n THEN f[i] ELSE RematchOne(f[n], order[n + 1])]
  <2>2. ASSUME NEW i \in 0 .. n + 1
        PROVE  g[i] = IF i = 0 THEN start ELSE RematchOne(g[i - 1], order[i])
    <3>1. CASE i = 0
      BY <2>1, <3>1
    <3>2. CASE i # 0 /\ i <= n
      <4>1. g[i] = f[i] /\ g[i - 1] = f[i - 1] /\ i \in 0 .. n
        BY <3>2
      <4>2. f[i] = RematchOne(f[i - 1], order[i])
        BY <2>1, <3>2, <4>1
      <4> HIDE DEF g
      <4> QED
        BY <3>2, <4>1, <4>2
    <3>3. CASE i = n + 1
      <4>1. g[i] = RematchOne(f[n], order[n + 1]) /\ g[i - 1] = f[n] /\ i # 0
        BY <3>3
      <4> HIDE DEF g
      <4> QED
        BY <3>3, <4>1
    <3> QED
      BY <3>1, <3>2, <3>3
  <2>3. g = [i \in 0 .. n + 1 |-> g[i]]
    OBVIOUS
  <2>4. Runs(g, n + 1)
    <3> HIDE DEF g
    <3> QED
      BY <2>2, <2>3
  <2> HIDE DEF g
  <2> QED
    BY <2>4
<1> HIDE DEF good
<1>3. good \in SUBSET (0 .. N)
  BY DEF good
<1>4. N \in good
  BY <1>1, <1>2, <1>3, UpTo
<1> QED
  BY <1>4 DEF good, AreRematches

\* What a rematch holds: silver as it will be, and every work it knows is there.
Rematching(state, pending, was, first) ==
    /\ Silver(state.works, state.stored, state.mentions, state.made)
    /\ DOMAIN state.groups = Groups
    /\ \A k \in Groups : /\ Knows(state.works, state.made, state.groups[k])
                          /\ DOMAIN state.groups[k] \subseteq DOMAIN state.works
    /\ first <= state.made
    /\ \A w \in DOMAIN state.works \intersect (1 .. first) :
            w \in DOMAIN was /\ state.works[w].title = was[w].title
    /\ \A m \in pending : state.mentions[m] \in MentionRow

\* A document is looked for in one of the groups.
LEMMA KeysAreGroups ==
    ASSUME NEW d \in Docs, NEW canonical \in [Composers -> Composers]
    PROVE  Key(canonical, d.composer) \in Groups
<1>1. d.composer \in Composers \union {Nobody}
  BY DocsAreDocuments DEF Document
<1> QED
  BY <1>1 DEF Key, Groups

\* Each mention leaves the next one the same: silver sound, and known.
LEMMA RematchOneKeeps ==
    ASSUME canonicalOf \in [Composers -> Composers], NEW pending \in SUBSET Mentions,
           NEW was, NEW first \in Nat, NEW state, Rematching(state, pending, was, first), NEW m \in pending
    PROVE  Rematching(RematchOne(state, m), pending, was, first)
<1>1. PICK ws, st, ms, n, groups : /\ ws = state.works /\ st = state.stored /\ ms = state.mentions
                                  /\ n = state.made /\ groups = state.groups
  OBVIOUS
<1>2. PICK d : d = ms[m].doc
  OBVIOUS
<1>3. d \in Docs
  BY <1>1, <1>2 DEF Rematching, MentionRow
<1>4. PICK key \in Groups : key = Key(canonicalOf, d.composer)
  BY <1>3, KeysAreGroups
<1>5. PICK f : f = MentionFeatures(d)
  OBVIOUS
<1>6. PICK rows : rows = groups[key]
  OBVIOUS
<1>7. PICK r : r = Decide(f, rows, n + 1)
  OBVIOUS
<1>8. /\ Silver(ws, st, ms, n) /\ Knows(ws, n, rows) /\ DOMAIN rows \subseteq DOMAIN ws
      /\ DOMAIN groups = Groups
      /\ \A k \in Groups : Knows(ws, n, groups[k]) /\ DOMAIN groups[k] \subseteq DOMAIN ws
      /\ \A o \in pending : ms[o] \in MentionRow
      /\ first <= n
      /\ \A w \in DOMAIN ws \intersect (1 .. first) : w \in DOMAIN was /\ ws[w].title = was[w].title
  BY <1>1, <1>4, <1>6 DEF Rematching
<1>9. f \in Features
  BY <1>3, <1>5, MentionFeaturesAre
<1>10. /\ r.status = "created" => r.work = n + 1 /\ r.candidate = None
       /\ r.status # "created" => r.candidate \in DOMAIN rows
       /\ r.status = "auto_matched" => r.work = r.candidate
       /\ r.status = "needs_review" => r.work = None
       /\ r.status \in {"auto_matched", "needs_review", "created"}
  <2>1. Catalogue(rows)
    BY <1>8 DEF Knows
  <2> QED
    BY <1>7, <1>9, <2>1, DecisionsAre
<1>11. PICK now : now = EnteredBy(ws, d, r)
  OBVIOUS
<1>12. n \in Nat /\ DOMAIN ws \subseteq 1 .. n /\ TypedWorks(ws)
  BY <1>8 DEF Silver
<1>13. Entered(now, ws, n, d, r)
  BY <1>3, <1>10, <1>11, <1>12, EnteredAre
<1>14. {r.work, r.candidate} \ {None} \subseteq DOMAIN now
  BY <1>8, <1>10, <1>13 DEF Entered
<1>15. SameWorks(now, EnteredBy(ws, d, r))
  BY <1>11 DEF SameWorks
<1>16. PICK grown : grown = LearnedBy(rows, d.composer, f, r)
  OBVIOUS
<1>17. RematchOne(state, m) =
        [works |-> now, stored |-> StoredBy(st, f, r), mentions |-> [ms EXCEPT ![m] = RowFor(d, r)],
         made |-> MadeBy(n, r), groups |-> [groups EXCEPT ![key] = grown]]
  <2>1. RematchOne(state, m) = RematchAs(state, m, r)
    BY <1>1, <1>2, <1>4, <1>5, <1>6, <1>7 DEF RematchOne
  <2> QED
    BY <1>1, <1>2, <1>4, <1>5, <1>6, <1>11, <1>16, <2>1 DEF RematchAs, EnteredBy, StoredBy, MadeBy, LearnedBy
<1>18. PICK st2, ms2, n2, groups2 :
            /\ st2 = StoredBy(st, f, r) /\ ms2 = [ms EXCEPT ![m] = RowFor(d, r)]
            /\ n2 = MadeBy(n, r) /\ groups2 = [groups EXCEPT ![key] = grown]
  OBVIOUS
<1>19. Silver(now, st2, ms2, n2)
  <2>1. {r.work, r.candidate} \ {None} \subseteq DOMAIN EnteredBy(ws, d, r)
    BY <1>11, <1>14
  <2>2. r = Decide(MentionFeatures(d), rows, n + 1)
    BY <1>5, <1>7
  <2>3. Silver(now, StoredBy(st, MentionFeatures(d), r), [ms EXCEPT ![m] = RowFor(d, r)], MadeBy(n, r))
    BY <1>3, <1>8, <1>15, <2>1, <2>2, EntryIsSound
  <2> QED
    BY <1>5, <1>18, <2>3
<1>20. /\ Knows(now, n2, grown)
       /\ \A w \in DOMAIN grown : w \in DOMAIN rows \/ (r.status = "created" /\ w = n + 1)
  <2>1. grown = LearnedBy(rows, d.composer, MentionFeatures(d), r)
    BY <1>5, <1>16
  <2>2. Learned(grown, now, rows, n, r)
    BY <1>3, <1>8, <1>10, <1>12, <1>15, <2>1, LearnedIsKnown
  <2> QED
    BY <1>18, <2>2 DEF Learned
<1>21. DOMAIN grown \subseteq DOMAIN now /\ DOMAIN ws \subseteq DOMAIN now
  BY <1>8, <1>13, <1>20 DEF Entered
<1>22. n2 \in Nat /\ n <= n2
  BY <1>12, <1>18 DEF MadeBy
<1>23. ASSUME NEW k \in Groups
       PROVE  Knows(now, n2, groups[k]) /\ DOMAIN groups[k] \subseteq DOMAIN now
  <2>1. Knows(ws, n, groups[k]) /\ DOMAIN groups[k] \subseteq DOMAIN ws
    BY <1>8
  <2>2. \A w \in DOMAIN now \intersect (1 .. n) : w \in DOMAIN ws /\ now[w].title = ws[w].title
    BY <1>12, <1>13 DEF Entered
  <2> QED
    BY <1>12, <1>21, <1>22, <2>1, <2>2, KnowsStill
<1>24. DOMAIN groups2 = Groups /\ \A k \in Groups : groups2[k] = IF k = key THEN grown ELSE groups[k]
  BY <1>8, <1>18
<1>25. \A k \in Groups : Knows(now, n2, groups2[k]) /\ DOMAIN groups2[k] \subseteq DOMAIN now
  BY <1>20, <1>21, <1>23, <1>24
<1>26. \A o \in pending : ms2[o] \in MentionRow
  <2>1. PICK row : row = RowFor(d, r)
    OBVIOUS
  <2>2. row \in MentionRow
    <3>1. row = [doc |-> d, work |-> r.work, status |-> r.status, candidate |-> r.candidate]
      BY <2>1 DEF RowFor
    <3>2. DOMAIN now \subseteq Nat
      BY <1>19, <1>22 DEF Silver
    <3>3. r.work \in Nat /\ r.candidate \in Nat
      BY <1>14, <3>2 DEF None
    <3> QED
      BY <1>3, <1>10, <3>1, <3>3 DEF MentionRow, Statuses
  <2>3. DOMAIN ms = Mentions
    BY <1>8 DEF Silver
  <2> QED
    BY <1>8, <1>18, <2>1, <2>2, <2>3
<1>28. /\ first <= n2
       /\ \A w \in DOMAIN now \intersect (1 .. first) : w \in DOMAIN was /\ now[w].title = was[w].title
  <2>1. first <= n2
    BY <1>8, <1>12, <1>22
  <2>2. ASSUME NEW w \in DOMAIN now, w \in 1 .. first
        PROVE  w \in DOMAIN was /\ now[w].title = was[w].title
    <3>1. w \in DOMAIN ws /\ now[w] = ws[w]
      BY <1>8, <1>12, <1>13, <2>2 DEF Entered
    <3> QED
      BY <1>8, <2>2, <3>1
  <2> QED
    BY <2>1, <2>2
<1>27. Rematching([works |-> now, stored |-> st2, mentions |-> ms2, made |-> n2, groups |-> groups2], pending, was, first)
  BY <1>19, <1>24, <1>25, <1>26, <1>28 DEF Rematching
<1> QED
  BY <1>17, <1>18, <1>27

\* A rematch leaves silver sound.
LEMMA RematchAllKeeps ==
    ASSUME canonicalOf \in [Composers -> Composers], NEW pending \in SUBSET Mentions,
           NEW was, NEW first \in Nat, NEW N \in Nat, NEW order \in [1 .. N -> pending], NEW start, Rematching(start, pending, was, first)
    PROVE  Rematching(RematchAll(start, order), pending, was, first)
<1>1. Len(order) = N
  <2>1. order \in Seq(pending) /\ DOMAIN order = 1 .. N
    OBVIOUS
  <2> QED
    BY <2>1
<1>2. \E f : AreRematches(f, order, start, N)
  BY RematchRuns
<1> DEFINE after == CHOOSE f : AreRematches(f, order, start, N)
<1>3. RematchAll(start, order) = after[N]
  BY <1>1 DEF RematchAll, AreRematches
<1>4. after = [n \in 0 .. N |-> IF n = 0 THEN start ELSE RematchOne(after[n - 1], order[n])]
  <2>1. AreRematches(after, order, start, N)
    BY <1>2, Zenon
  <2> HIDE DEF after
  <2> QED
    BY <2>1 DEF AreRematches
<1> HIDE DEF after
<1> DEFINE good == {n \in 0 .. N : Rematching(after[n], pending, was, first)}
<1>5. 0 \in good
  BY <1>4
<1>6. ASSUME NEW n \in 0 .. N - 1, n \in good PROVE n + 1 \in good
  <2>1. n + 1 \in 0 .. N /\ n + 1 # 0 /\ (n + 1) - 1 = n /\ n + 1 \in 1 .. N
    OBVIOUS
  <2>2. after[n + 1] = RematchOne(after[n], order[n + 1])
    BY <1>4, <2>1
  <2>3. order[n + 1] \in pending
    BY <2>1
  <2> QED
    BY <1>6, <2>1, <2>2, <2>3, RematchOneKeeps
<1>7. good \in SUBSET (0 .. N)
  OBVIOUS
<1> HIDE DEF good
<1>8. N \in good
  BY <1>5, <1>6, <1>7, UpTo
<1> QED
  BY <1>3, <1>8 DEF good

-----------------------------------------------------------------------------
(* A fold moves what refers to a work that goes to the work it ends in.    *)

\* What is to go, goes to works that stay and are derived alike.
Folding(final) ==
    /\ DOMAIN final \subseteq DOMAIN works
    /\ \A w \in DOMAIN final :
        /\ final[w] \in DOMAIN works \ DOMAIN final
        /\ Derivation(works[final[w]].title) = Derivation(works[w].title)

\* That is what the merges of a fold resolve to.
LEMMA MergesFold ==
    ASSUME Silver(works, stored, mentions, made), NEW rows \in Listings,
           NEW merges, merges = Merges(rows, canonicalOf).all
    PROVE  Folding(Resolve(merges))
<1>1. /\ Catalogue(rows) /\ DOMAIN rows = DOMAIN works
      /\ \A w \in DOMAIN works : rows[w].features.derivation = Derivation(works[w].title)
  BY ListingsAre
<1>2. IsFiniteSet(DOMAIN rows)
  <2>1. IsFiniteSet(1 .. made)
    BY FS_Interval DEF Silver
  <2> QED
    BY <1>1, <2>1, FS_Subset DEF Silver
<1>3. AlikeMerges(rows, merges) /\ Acyclic(merges)
  BY <1>1, <1>2, MergesKeep
<1>4. DOMAIN merges \subseteq DOMAIN rows
  BY <1>3 DEF AlikeMerges
<1>5. IsFiniteSet(DOMAIN merges)
  BY <1>2, <1>4, FS_Subset
<1>6. PICK final : final = Resolve(merges)
  OBVIOUS
<1>7. Alike(rows, merges, final) /\ \A w \in DOMAIN merges : final[w] \notin DOMAIN merges
  BY <1>3, <1>5, <1>6, ResolveEnds
<1>8. Folding(final)
  BY <1>1, <1>4, <1>7 DEF Folding, Alike
<1> QED
  BY <1>6, <1>8

\* Moved along, silver hangs together without the works that went.
LEMMA FoldIsSound ==
    ASSUME Silver(works, stored, mentions, made), NEW final, Folding(final),
           NEW merges, FoldAlong(merges, final)
    PROVE  /\ Silver(works', stored', mentions', made)
           /\ \A w \in DOMAIN works' : w \in DOMAIN works /\ works'[w].title = works[w].title
<1>1. PICK now, st, ms : now = works' /\ st = stored' /\ ms = mentions'
  OBVIOUS
<1>2. /\ now = [w \in DOMAIN works \ DOMAIN final |-> [works[w] EXCEPT !.premiere = MovePremiere(w, final)]]
      /\ st = {<<IF s[1] \in DOMAIN final THEN final[s[1]] ELSE s[1], s[2]>> : s \in stored}
      /\ ms = [m \in Mentions |-> MoveMention(mentions[m], final)]
  BY <1>1 DEF FoldAlong
<1>3. made \in Nat /\ DOMAIN works \subseteq 1 .. made /\ TypedWorks(works) /\ SoundMentions(works, mentions)
      /\ stored \subseteq (DOMAIN works) \X Identifiers
  BY DEF Silver
<1>4. DOMAIN now = DOMAIN works \ DOMAIN final
  BY <1>2
<1>5. \A w \in DOMAIN now : DOMAIN now[w] = DOMAIN works[w] /\ now[w].title = works[w].title
  <2> SUFFICES ASSUME NEW w \in DOMAIN now PROVE DOMAIN now[w] = DOMAIN works[w] /\ now[w].title = works[w].title
    OBVIOUS
  <2>1. PICK date : date = MovePremiere(w, final)
    OBVIOUS
  <2>2. now[w] = [works[w] EXCEPT !.premiere = date]
    BY <1>2, <1>4, <2>1
  <2>3. DOMAIN works[w] = {"composer", "title", "premiere"}
    BY <1>3, <1>4 DEF TypedWorks
  <2> QED
    BY <2>2, <2>3
<1>6. TypedWorks(now)
  BY <1>3, <1>4, <1>5 DEF TypedWorks
<1>7. \A s \in stored : s[1] \in DOMAIN works /\ s[2] \in Identifiers
  BY <1>3
<1>8. st \subseteq (DOMAIN now) \X Identifiers
  BY <1>2, <1>4, <1>7 DEF Folding
<1>9. SoundMentions(now, ms)
  <2> SUFFICES ASSUME NEW m \in Mentions, ms[m] # Absent
               PROVE  /\ ms[m] \in MentionRow
                      /\ {ms[m].work, ms[m].candidate} \subseteq DOMAIN now \union {None}
                      /\ ms[m].status # "manual_matched" /\ ms[m].work \in DOMAIN now =>
                            Derivation(ms[m].doc.title) = Derivation(now[ms[m].work].title)
    BY DEF SoundMentions
  <2>1. PICK old : old = mentions[m]
    OBVIOUS
  <2> DEFINE moved(w) == IF w \in DOMAIN final THEN final[w] ELSE w
  <2>2. ms[m] = MoveMention(old, final)
    BY <1>2, <2>1
  <2>3. old # Absent
    BY <2>2 DEF MoveMention
  <2>4. ms[m] = [old EXCEPT !.work = moved(old.work), !.candidate = moved(old.candidate)]
    BY <2>2, <2>3 DEF MoveMention
  <2>5. /\ old \in MentionRow /\ {old.work, old.candidate} \subseteq DOMAIN works \union {None}
        /\ old.status # "manual_matched" /\ old.work \in DOMAIN works =>
                Derivation(old.doc.title) = Derivation(works[old.work].title)
    BY <1>3, <2>1, <2>3 DEF SoundMentions
  <2>6. \A w \in DOMAIN works \union {None} : moved(w) \in DOMAIN now \union {None}
    BY <1>4 DEF Folding
  <2>7. \A w \in DOMAIN works : moved(w) \in DOMAIN now /\ Derivation(now[moved(w)].title) = Derivation(works[w].title)
    BY <1>4, <1>5 DEF Folding
  <2>8. None \notin DOMAIN works
    BY <1>3 DEF None
  <2>9. moved(None) = None
    BY <2>8 DEF Folding
  <2>10. DOMAIN now \union {None} \subseteq Nat
    BY <1>3, <1>4 DEF None
  <2>11. PICK w, c : w = moved(old.work) /\ c = moved(old.candidate)
    OBVIOUS
  <2>12. w \in DOMAIN now \union {None} /\ c \in DOMAIN now \union {None}
    BY <2>5, <2>6, <2>11
  <2>13. /\ ms[m] \in MentionRow /\ ms[m].work = w /\ ms[m].candidate = c
         /\ ms[m].doc = old.doc /\ ms[m].status = old.status
    BY <2>4, <2>5, <2>10, <2>11, <2>12 DEF MentionRow
  <2>14. ASSUME ms[m].status # "manual_matched", w \in DOMAIN now
         PROVE  Derivation(ms[m].doc.title) = Derivation(now[w].title)
    <3>1. old.work \in DOMAIN works
      <4>1. w # None
        BY <1>4, <2>8, <2>14
      <4> HIDE DEF moved
      <4> QED
        BY <2>5, <2>9, <2>11, <4>1
    <3> HIDE DEF moved
    <3> QED
      BY <2>5, <2>7, <2>11, <2>13, <2>14, <3>1
  <2> QED
    BY <2>12, <2>13, <2>14
<1>10. DOMAIN ms = Mentions /\ DOMAIN now \subseteq 1 .. made
  BY <1>2, <1>3, <1>4
<1>11. Silver(now, st, ms, made)
  BY <1>3, <1>6, <1>8, <1>9, <1>10 DEF Silver
<1> QED
  BY <1>1, <1>4, <1>5, <1>11

-----------------------------------------------------------------------------
(* The inductive invariant: silver is sound, and a load knows every work   *)
(* that is still there as what it is.                                      *)

\* What a load holds.
LoadKnows(held, ws, n) ==
    held # Absent =>
        /\ DOMAIN held = {"seen", "canonical", "groups", "dates"}
        /\ held.canonical \in [Composers -> Composers]
        /\ DOMAIN held.groups = Groups /\ \A k \in Groups : Knows(ws, n, held.groups[k])

\* No title of a work ever changes, so that what a load knew of it is true while it is there.
IInv ==
    /\ Silver(works, stored, mentions, made)
    /\ canonicalOf \in [Composers -> Composers]
    /\ LoadKnows(load, works, made)

\* Silver is empty at first, and no load is under way.
LEMMA InitSound == Init => IInv
<1> SUFFICES ASSUME Init PROVE IInv
  OBVIOUS
<1>1. DOMAIN works = {} /\ stored = {} /\ made = 0 /\ load = Absent
      /\ DOMAIN mentions = Mentions /\ (\A m \in Mentions : mentions[m] = Absent)
      /\ canonicalOf \in [Composers -> Composers]
  BY DEF Init
<1> QED
  BY <1>1 DEF IInv, Silver, TypedWorks, SoundMentions, LoadKnows

\* Nothing others do to the works makes a load take one for another.
LEMMA LoadStillKnows ==
    ASSUME NEW held, NEW ws, NEW n \in Nat, LoadKnows(held, ws, n), NEW now, NEW more \in Nat, n <= more,
           \A w \in DOMAIN now \intersect (1 .. n) : w \in DOMAIN ws /\ now[w].title = ws[w].title
    PROVE  LoadKnows(held, now, more)
<1> SUFFICES ASSUME held # Absent, NEW k \in Groups
             PROVE  Knows(now, more, held.groups[k])
  BY DEF LoadKnows
<1> QED
  BY KnowsStill DEF LoadKnows

\* One lemma per action: a load begins with what silver holds.
LEMMA StartLoadSound == ASSUME IInv, StartLoad PROVE IInv'
<1>1. UNCHANGED <<works, stored, mentions, canonicalOf, made>>
  BY DEF StartLoad, db
<1>2. PICK rows \in Listings :
        load' = [seen |-> [m \in Mentions |-> IF mentions[m] = Absent THEN Absent ELSE mentions[m].doc],
                 canonical |-> canonicalOf,
                 groups |-> InGroups(rows, canonicalOf),
                 dates |-> [w \in Ids |-> IF w \in DOMAIN works THEN works[w].premiere ELSE NoDate]]
  BY DEF StartLoad
<1>3. PICK groups : groups = InGroups(rows, canonicalOf)
  OBVIOUS
<1>4. DOMAIN groups = Groups /\ \A k \in Groups : Knows(works, made, groups[k])
  BY <1>3, GroupsAre DEF IInv
<1>5. /\ DOMAIN load' = {"seen", "canonical", "groups", "dates"}
      /\ load'.canonical = canonicalOf /\ load'.groups = groups
  BY <1>2, <1>3
<1>6. LoadKnows(load', works, made)
  BY <1>4, <1>5 DEF LoadKnows, IInv
<1> QED
  BY <1>1, <1>6 DEF IInv

\* A load may have decided for a work that is gone; the foreign key refuses that row.
LEMMA SightSound ==
    ASSUME Enforced, IInv, NEW m \in Mentions, NEW d \in Feeds[m], Sight(m, d)
    PROVE  IInv'
<1>1. d \in Docs
  BY DEF Docs
<1>2. PICK r : /\ r = Decision(d)
              /\ LET entered == IF r.status = "created" THEN Put(works, r.work, WorkFor(d)) ELSE works
                     dated == /\ r.work \in DOMAIN entered /\ d.premiere # NoDate
                              /\ Supersedes(d.premiere, load.dates[r.work])
                 IN  /\ made' = IF r.status = "created" THEN made + 1 ELSE made
                     /\ {r.work, r.candidate} \ {None} \subseteq DOMAIN entered
                     /\ works' = IF dated THEN [entered EXCEPT ![r.work].premiere = d.premiere] ELSE entered
                     /\ stored' = IF r.work = None THEN stored
                                  ELSE stored \union ({r.work} \X MentionFeatures(d).ids)
                     /\ mentions' = [mentions EXCEPT ![m] = RowFor(d, r)]
                     /\ Learn(m, d, r)
  BY DEF Sight
<1>3. load # Absent /\ canonicalOf' = canonicalOf
  BY DEF Sight
<1>4. PICK ws, st, ms, n, held : ws = works /\ st = stored /\ ms = mentions /\ n = made /\ held = load
  OBVIOUS
<1>5. /\ Silver(ws, st, ms, n) /\ held # Absent /\ DOMAIN held = {"seen", "canonical", "groups", "dates"}
      /\ held.canonical \in [Composers -> Composers]
      /\ DOMAIN held.groups = Groups /\ \A k \in Groups : Knows(ws, n, held.groups[k])
  BY <1>3, <1>4 DEF IInv, LoadKnows
<1>6. n \in Nat /\ DOMAIN ws \subseteq 1 .. n /\ TypedWorks(ws)
  BY <1>5 DEF Silver
<1>7. PICK key \in Groups : key = Key(held.canonical, d.composer)
  BY <1>1, <1>5, KeysAreGroups
<1>8. PICK rows : rows = held.groups[key]
  OBVIOUS
<1>9. Knows(ws, n, rows)
  BY <1>5, <1>7, <1>8
<1>10. r = Decide(MentionFeatures(d), rows, n + 1)
  BY <1>2, <1>4, <1>7, <1>8 DEF Decision
<1>11. r.status = "created" => r.work = n + 1
  <2>1. Catalogue(rows) /\ MentionFeatures(d) \in Features
    BY <1>1, <1>9, MentionFeaturesAre DEF Knows
  <2> QED
    BY <1>10, <2>1, DecisionsAre
<1>12. PICK entered : entered = EnteredBy(ws, d, r)
  OBVIOUS
<1>13. Entered(entered, ws, n, d, r)
  BY <1>1, <1>6, <1>11, <1>12, EnteredAre
<1>14. PICK now : now = works'
  OBVIOUS
<1>15. now = entered \/ (r.work \in DOMAIN entered /\ now = [entered EXCEPT ![r.work].premiere = d.premiere])
  BY <1>2, <1>4, <1>12, <1>14 DEF EnteredBy
<1>16. SameWorks(now, entered)
  <2>1. CASE now = entered
    BY <2>1 DEF SameWorks
  <2>2. CASE r.work \in DOMAIN entered /\ now = [entered EXCEPT ![r.work].premiere = d.premiere]
    <3>1. \A w \in DOMAIN entered : DOMAIN entered[w] = {"composer", "title", "premiere"}
      BY <1>13 DEF Entered, TypedWorks
    <3> QED
      BY <2>2, <3>1 DEF SameWorks
  <2> QED
    BY <1>15, <2>1, <2>2
<1>17. {r.work, r.candidate} \ {None} \subseteq DOMAIN EnteredBy(ws, d, r) /\ SameWorks(now, EnteredBy(ws, d, r))
  BY <1>2, <1>4, <1>12, <1>16 DEF EnteredBy
<1>18. Silver(now, StoredBy(st, MentionFeatures(d), r), [ms EXCEPT ![m] = RowFor(d, r)], MadeBy(n, r))
  BY <1>1, <1>5, <1>9, <1>10, <1>17, EntryIsSound
<1>19. stored' = StoredBy(st, MentionFeatures(d), r) /\ made' = MadeBy(n, r) /\ mentions' = [ms EXCEPT ![m] = RowFor(d, r)]
  BY <1>2, <1>4 DEF StoredBy, MadeBy
<1>20. Silver(works', stored', mentions', made')
  BY <1>14, <1>18, <1>19
<1>21. PICK known : known = LearnedBy(rows, d.composer, MentionFeatures(d), r)
  OBVIOUS
<1>22. Learned(known, now, rows, n, r)
  BY <1>1, <1>6, <1>9, <1>11, <1>17, <1>21, LearnedIsKnown
<1>23. PICK dates : load' = [held EXCEPT !.seen[m] = d, !.groups[key] = known, !.dates = dates]
  BY <1>2, <1>4, <1>7, <1>8, <1>21 DEF Learn, LearnedBy
<1>24. /\ DOMAIN load' = {"seen", "canonical", "groups", "dates"} /\ load'.canonical = held.canonical
       /\ load'.groups = [held.groups EXCEPT ![key] = known]
  BY <1>5, <1>23
<1>25. PICK groups : groups = load'.groups
  OBVIOUS
<1>26. DOMAIN groups = Groups /\ \A k \in Groups : groups[k] = IF k = key THEN known ELSE held.groups[k]
  BY <1>5, <1>24, <1>25
<1>27. PICK more : more = MadeBy(n, r)
  OBVIOUS
<1>28. more \in Nat /\ n <= more
  BY <1>6, <1>27 DEF MadeBy
<1>29. ASSUME NEW k \in Groups PROVE Knows(now, more, held.groups[k])
  <2>1. Knows(ws, n, held.groups[k])
    BY <1>5
  <2>2. \A w \in DOMAIN now \intersect (1 .. n) : w \in DOMAIN ws /\ now[w].title = ws[w].title
    BY <1>6, <1>13, <1>16 DEF Entered, SameWorks
  <2> QED
    BY <1>6, <1>28, <2>1, <2>2, KnowsStill
<1>30. \A k \in Groups : Knows(now, more, groups[k])
  BY <1>22, <1>26, <1>27, <1>29 DEF Learned
<1>31. LoadKnows(load', now, more)
  BY <1>5, <1>24, <1>25, <1>26, <1>30 DEF LoadKnows
<1>32. LoadKnows(load', works', made')
  BY <1>14, <1>19, <1>27, <1>31
<1>33. canonicalOf' \in [Composers -> Composers]
  BY <1>3 DEF IInv
<1> QED
  BY <1>20, <1>32, <1>33 DEF IInv

\* A reviewer names a work that is there.
LEMMA AcceptSound ==
    ASSUME IInv, NEW m \in Mentions, NEW w \in Ids, Accept(m, w)
    PROVE  IInv'
<1>1. /\ w \in DOMAIN works /\ mentions[m] # Absent
      /\ mentions' = [mentions EXCEPT ![m].work = w, ![m].status = "manual_matched"]
      /\ UNCHANGED <<works, stored, canonicalOf, made, load>>
  BY DEF Accept
<1>2. PICK ms : ms = mentions'
  OBVIOUS
<1>3. PICK old : old = mentions[m]
  OBVIOUS
<1>4. old \in MentionRow /\ old.candidate \in DOMAIN works \union {None}
  BY <1>1, <1>3 DEF IInv, Silver, SoundMentions
<1>5. DOMAIN mentions = Mentions /\ made \in Nat /\ DOMAIN works \subseteq 1 .. made
  BY DEF IInv, Silver
<1>6. DOMAIN ms = Mentions /\ \A o \in Mentions \ {m} : ms[o] = mentions[o]
  BY <1>1, <1>2, <1>5
<1>7. ms[m] = [old EXCEPT !.work = w, !.status = "manual_matched"]
  BY <1>1, <1>2, <1>3, <1>5
<1>8. ms[m] \in MentionRow /\ ms[m].work = w /\ ms[m].candidate = old.candidate /\ ms[m].status = "manual_matched"
  <2>1. w \in Nat
    BY <1>1, <1>5
  <2> QED
    <3>1. ms[m] = [doc |-> old.doc, work |-> w, status |-> "manual_matched", candidate |-> old.candidate]
      BY <1>4, <1>7 DEF MentionRow
    <3> QED
      BY <1>4, <2>1, <3>1 DEF MentionRow, Statuses
<1>9. SoundMentions(works, ms)
  <2> SUFFICES ASSUME NEW o \in Mentions, ms[o] # Absent
               PROVE  /\ ms[o] \in MentionRow
                      /\ {ms[o].work, ms[o].candidate} \subseteq DOMAIN works \union {None}
                      /\ ms[o].status # "manual_matched" /\ ms[o].work \in DOMAIN works =>
                            Derivation(ms[o].doc.title) = Derivation(works[ms[o].work].title)
    BY DEF SoundMentions
  <2>1. CASE o = m
    BY <1>1, <1>4, <1>8, <2>1
  <2>2. CASE o # m
    BY <1>6, <2>2 DEF IInv, Silver, SoundMentions
  <2> QED
    BY <2>1, <2>2
<1>10. Silver(works, stored, ms, made)
  BY <1>6, <1>9 DEF IInv, Silver
<1> QED
  BY <1>1, <1>2, <1>10 DEF IInv

\* The work a reviewer makes gets an id that no load has seen.
LEMMA NewWorkSound ==
    ASSUME IInv, NEW m \in Mentions, NewWork(m)
    PROVE  IInv'
<1>1. /\ mentions[m] # Absent /\ made' = made + 1
      /\ works' = Put(works, made + 1, WorkFor(mentions[m].doc))
      /\ mentions' = [mentions EXCEPT ![m].work = made + 1, ![m].status = "manual_matched"]
      /\ UNCHANGED <<stored, canonicalOf, load>>
  BY DEF NewWork
<1>2. PICK ms, now : ms = mentions' /\ now = works'
  OBVIOUS
<1>3. PICK old, d, r : old = mentions[m] /\ d = mentions[m].doc /\ r = [status |-> "created", work |-> made + 1]
  OBVIOUS
<1>4. old \in MentionRow /\ old.candidate \in DOMAIN works \union {None}
  BY <1>1, <1>3 DEF IInv, Silver, SoundMentions
<1>5. d \in Docs
  BY <1>3, <1>4 DEF MentionRow
<1>6. DOMAIN mentions = Mentions /\ made \in Nat /\ DOMAIN works \subseteq 1 .. made /\ TypedWorks(works)
  BY DEF IInv, Silver
<1>7. r.status = "created" /\ r.work = made + 1
  BY <1>3
<1>8. now = EnteredBy(works, d, r)
  BY <1>1, <1>2, <1>3, <1>7 DEF EnteredBy
<1>9. Entered(now, works, made, d, r)
  BY <1>5, <1>6, <1>7, <1>8, EnteredAre
<1>10. TypedWorks(now) /\ DOMAIN now = DOMAIN works \union {made + 1} /\ \A w \in DOMAIN works : now[w] = works[w]
  BY <1>7, <1>9 DEF Entered
<1>11. DOMAIN ms = Mentions /\ \A o \in Mentions \ {m} : ms[o] = mentions[o]
  BY <1>1, <1>2, <1>6
<1>12. ms[m] = [old EXCEPT !.work = made + 1, !.status = "manual_matched"]
  BY <1>1, <1>2, <1>3, <1>6
<1>13. /\ ms[m] \in MentionRow /\ ms[m].work = made + 1 /\ ms[m].candidate = old.candidate
       /\ ms[m].status = "manual_matched"
  <2>1. made + 1 \in Nat
    BY <1>6
  <2> QED
    <3>1. ms[m] = [doc |-> old.doc, work |-> made + 1, status |-> "manual_matched", candidate |-> old.candidate]
      BY <1>4, <1>12 DEF MentionRow
    <3> QED
      BY <1>4, <2>1, <3>1 DEF MentionRow, Statuses
<1>14. SoundMentions(now, ms)
  <2> SUFFICES ASSUME NEW o \in Mentions, ms[o] # Absent
               PROVE  /\ ms[o] \in MentionRow
                      /\ {ms[o].work, ms[o].candidate} \subseteq DOMAIN now \union {None}
                      /\ ms[o].status # "manual_matched" /\ ms[o].work \in DOMAIN now =>
                            Derivation(ms[o].doc.title) = Derivation(now[ms[o].work].title)
    BY DEF SoundMentions
  <2>1. CASE o = m
    BY <1>4, <1>10, <1>13, <2>1
  <2>2. CASE o # m
    <3>1. /\ ms[o] \in MentionRow /\ {ms[o].work, ms[o].candidate} \subseteq DOMAIN works \union {None}
          /\ ms[o].status # "manual_matched" /\ ms[o].work \in DOMAIN works =>
                Derivation(ms[o].doc.title) = Derivation(works[ms[o].work].title)
      BY <1>11, <2>2 DEF IInv, Silver, SoundMentions
    <3>2. ms[o].work \in DOMAIN now => ms[o].work \in DOMAIN works
      BY <1>6, <1>10, <3>1 DEF None
    <3> QED
      BY <1>10, <3>1, <3>2
  <2> QED
    BY <2>1, <2>2
<1>15. \A p \in (DOMAIN works) \X Identifiers : p \in (DOMAIN now) \X Identifiers
  BY <1>10
<1>16. stored \subseteq (DOMAIN now) \X Identifiers
  BY <1>15 DEF IInv, Silver
<1>17. Silver(now, stored, ms, made + 1)
  BY <1>6, <1>10, <1>11, <1>14, <1>16 DEF Silver
<1>18. LoadKnows(load, now, made + 1)
  <2>1. \A w \in DOMAIN now \intersect (1 .. made) : w \in DOMAIN works /\ now[w].title = works[w].title
    BY <1>6, <1>10
  <2>2. LoadKnows(load, works, made) /\ made + 1 \in Nat /\ made <= made + 1
    BY <1>6 DEF IInv
  <2> QED
    BY <1>6, <2>1, <2>2, LoadStillKnows
<1> QED
  BY <1>1, <1>2, <1>17, <1>18 DEF IInv

\* A rematch reads silver when it starts, so it knows no work that is gone.
LEMMA RematchSound == ASSUME IInv, Rematch PROVE IInv'
<1> DEFINE pending == {m \in Mentions : mentions[m] # Absent /\ mentions[m].status = "needs_review"}
           start(rows) == [works |-> works, stored |-> stored, mentions |-> mentions, made |-> made,
                           groups |-> InGroups(rows, canonicalOf)]
<1>12. PICK end \in {RematchAll(start(rows), order) : rows \in Listings, order \in SetToSeqs(pending)} :
        /\ works' = end.works /\ stored' = end.stored /\ mentions' = end.mentions /\ made' = end.made
  BY DEF Rematch
<1>1. PICK rows \in Listings, order \in SetToSeqs(pending) : end = RematchAll(start(rows), order)
  OBVIOUS
<1>2. UNCHANGED <<canonicalOf, load>>
  BY DEF Rematch
<1>3. PICK N \in Nat : N = Cardinality(pending)
  <2>1. IsFiniteSet(pending)
    BY MentionsAssumption, FS_Subset
  <2> HIDE DEF pending
  <2>2. Cardinality(pending) \in Nat
    BY <2>1, FS_CardinalityType
  <2> QED
    BY <2>2
<1>4. order \in [1 .. N -> pending]
  BY <1>1, <1>3 DEF SetToSeqs
<1>13. PICK groups : groups = InGroups(rows, canonicalOf)
  OBVIOUS
<1> DEFINE began == [works |-> works, stored |-> stored, mentions |-> mentions, made |-> made, groups |-> groups]
<1>5. /\ began.works = works /\ began.stored = stored /\ began.mentions = mentions
      /\ began.made = made /\ began.groups = groups
  OBVIOUS
<1>6. \A m \in pending : mentions[m] \in MentionRow
  BY DEF IInv, Silver, SoundMentions
<1>14. began = start(rows)
  BY <1>13
<1> HIDE DEF pending, began, start
<1>7. Rematching(began, pending, works, made)
  <2>1. DOMAIN groups = Groups
        /\ \A k \in Groups : Knows(works, made, groups[k]) /\ DOMAIN groups[k] \subseteq DOMAIN works
    BY <1>13, GroupsAre DEF IInv
  <2> QED
    <3>1. made \in Nat /\ DOMAIN works \subseteq 1 .. made
      BY DEF IInv, Silver
    <3> QED
      BY <1>5, <1>6, <2>1, <3>1 DEF Rematching, IInv
<1>8. pending \in SUBSET Mentions
  BY DEF pending
<1>9. Rematching(end, pending, works, made)
  <2>1. Rematching(RematchAll(began, order), pending, works, made)
    <3>1. made \in Nat /\ canonicalOf \in [Composers -> Composers]
      BY DEF IInv, Silver
    <3> QED
      BY <1>3, <1>4, <1>7, <1>8, <3>1, RematchAllKeeps
  <2> QED
    BY <1>1, <1>14, <2>1
<1>10. Silver(works', stored', mentions', made')
  BY <1>9, <1>12 DEF Rematching
<1>11. LoadKnows(load, works', made')
  <2>1. LoadKnows(load, works, made) /\ made \in Nat
    BY DEF IInv, Silver
  <2>2. PICK now, more : now = works' /\ more = made'
    OBVIOUS
  <2>3. /\ more \in Nat /\ made <= more
        /\ \A w \in DOMAIN now \intersect (1 .. made) : w \in DOMAIN works /\ now[w].title = works[w].title
    BY <1>9, <1>12, <2>2 DEF Rematching, Silver
  <2> QED
    BY <2>1, <2>2, <2>3, LoadStillKnows
<1> QED
  BY <1>2, <1>10, <1>11 DEF IInv

\* A fold takes works from under a load and gives their ids to nobody.
LEMMA FoldSound == ASSUME IInv, Fold PROVE IInv'
<1>1. PICK rows \in Listings : \E merges \in {Merges(rows, canonicalOf)} :
        \E final \in {Resolve(merges.all)} : FoldAlong(merges, final)
  BY DEF Fold
<1>2. PICK merges, final : merges = Merges(rows, canonicalOf) /\ final = Resolve(merges.all) /\ FoldAlong(merges, final)
  BY <1>1
<1>3. UNCHANGED <<canonicalOf, made, load>>
  BY DEF Fold
<1>4. Silver(works, stored, mentions, made) /\ LoadKnows(load, works, made)
  BY DEF IInv
<1>5. Folding(final)
  BY <1>2, <1>4, MergesFold
<1>6. /\ Silver(works', stored', mentions', made)
      /\ \A w \in DOMAIN works' : w \in DOMAIN works /\ works'[w].title = works[w].title
  BY <1>2, <1>4, <1>5, FoldIsSound
<1>7. PICK now : now = works'
  OBVIOUS
<1>8. LoadKnows(load, now, made)
  <2>1. made \in Nat /\ made <= made
    BY <1>4 DEF Silver
  <2>2. \A w \in DOMAIN now \intersect (1 .. made) : w \in DOMAIN works /\ now[w].title = works[w].title
    BY <1>6, <1>7
  <2> QED
    BY <1>4, <2>1, <2>2, LoadStillKnows
<1> QED
  BY <1>3, <1>6, <1>7, <1>8 DEF IInv

\* Every step preserves the invariant.
LEMMA StepPreserves == ASSUME Enforced, IInv, [Next]_vars PROVE IInv'
<1>1. CASE StartLoad
  BY <1>1, StartLoadSound
<1>2. CASE EndLoad
  BY <1>2 DEF EndLoad, IInv, LoadKnows, db
<1>3. CASE \E m \in Mentions : \E d \in Feeds[m] : Sight(m, d)
  BY <1>3, SightSound
<1>4. CASE \E m \in Mentions : \E d \in Feeds[m] : SightRefused(m, d)
  BY <1>4 DEF SightRefused, IInv, LoadKnows, db
<1>5. CASE \E m \in Mentions, w \in Ids : Accept(m, w)
  BY <1>5, AcceptSound
<1>6. CASE \E m \in Mentions : NewWork(m)
  BY <1>6, NewWorkSound
<1>7. CASE Rematch
  BY <1>7, RematchSound
<1>8. CASE \E k \in Clusterings : Dedupe(k)
  <2>1. canonicalOf' \in [Composers -> Composers] /\ UNCHANGED <<works, stored, mentions, made, load>>
    BY <1>8, ClusteringsAssumption DEF Dedupe
  <2> QED
    BY <2>1 DEF IInv
<1>9. CASE Fold
  BY <1>9, FoldSound
<1>10. CASE UNCHANGED vars
  BY <1>10 DEF vars, db, IInv
<1> QED
  BY <1>1, <1>2, <1>3, <1>4, <1>5, <1>6, <1>7, <1>8, <1>9, <1>10 DEF Next

\* The inductive invariant of the works, whatever folds or is decided meanwhile.
THEOREM Soundness == ASSUME Enforced PROVE Spec => []IInv
<1>1. IInv /\ [Next]_vars => IInv'
  BY StepPreserves
<1> QED
  BY <1>1, InitSound, PTL DEF Spec

\* No match, reviewer's candidate or identifier refers to a work that was folded away.
THEOREM Pointers == ASSUME Enforced PROVE Spec => []PointersResolve
<1>1. IInv => PointersResolve
  <2>1. ASSUME NEW s \in stored, Silver(works, stored, mentions, made) PROVE s[1] \in DOMAIN works
    BY <2>1 DEF Silver
  <2> QED
    BY <2>1 DEF IInv, PointersResolve, Silver, SoundMentions
<1> QED
  BY <1>1, Soundness, PTL

\* Neither a match nor a chain of folds puts a part, arrangement or version in with its work.
THEOREM Derived == ASSUME Enforced PROVE Spec => []DerivedStaysApart
<1>1. IInv => DerivedStaysApart
  BY DEF IInv, DerivedStaysApart, Silver, SoundMentions, Derivation
<1> QED
  BY <1>1, Soundness, PTL

-----------------------------------------------------------------------------
(* What a load matches against is what the next would read.                *)

\* Beside its title a document states identifiers only: an opus number is not a row of its own,
\* and neither are the numbers of the work that a derived one is of.
TitlesSayAll ==
    \A d \in Docs : MentionFeatures(d) = WithIdentifiers(TitleFeatures[d.title], MentionFeatures(d).ids)

\* What the database says of a work, at any of its states.
HeldFor(st, w) == {s[2] : s \in {t \in st : t[1] = w}}
Read(ws, st, w) == WithIdentifiers(TitleFeatures[ws[w].title], HeldFor(st, w))

\* The candidates of a group are its works as they are in the database.
Fresh(held, ws, st) ==
    \A k \in Groups :
        /\ DOMAIN held.groups[k] = {w \in DOMAIN ws : Key(held.canonical, ws[w].composer) = k}
        /\ \A w \in DOMAIN held.groups[k] : held.groups[k][w].features = Read(ws, st, w)

\* Until someone else commits, a load under way holds what is in the database.
CInv == load # Absent /\ ~overlapped => Fresh(load, works, stored)

\* Identifiers learned one after the other are identifiers learned at once.
LEMMA LearningAdds ==
    ASSUME NEW f \in Features, NEW a, NEW b
    PROVE  WithIdentifiers(WithIdentifiers(f, a), b) = WithIdentifiers(f, a \union b)
<1>1. WithIdentifiers(f, a) = [f EXCEPT !.ids = f.ids \union a]
  BY DEF WithIdentifiers
<1>2. WithIdentifiers(f, a).ids = f.ids \union a
  BY <1>1 DEF Features
<1>3. WithIdentifiers(WithIdentifiers(f, a), b) = [[f EXCEPT !.ids = f.ids \union a] EXCEPT !.ids = (f.ids \union a) \union b]
  BY <1>1, <1>2 DEF WithIdentifiers
<1>4. (f.ids \union a) \union b = f.ids \union (a \union b)
  OBVIOUS
<1>5. WithIdentifiers(f, a \union b) = [f EXCEPT !.ids = f.ids \union (a \union b)]
  BY DEF WithIdentifiers
<1>6. \A x, y : [[f EXCEPT !.ids = x] EXCEPT !.ids = y] = [f EXCEPT !.ids = y]
  BY DEF Features
<1> QED
  BY <1>3, <1>4, <1>5, <1>6

\* It does when it begins.
LEMMA StartLoadReads == ASSUME IInv, StartLoad PROVE Fresh(load', works, stored)
<1>1. PICK rows \in Listings :
        load' = [seen |-> [m \in Mentions |-> IF mentions[m] = Absent THEN Absent ELSE mentions[m].doc],
                 canonical |-> canonicalOf,
                 groups |-> InGroups(rows, canonicalOf),
                 dates |-> [w \in Ids |-> IF w \in DOMAIN works THEN works[w].premiere ELSE NoDate]]
  BY DEF StartLoad
<1>2. PICK place : rows = [w \in DOMAIN works |->
            [composer |-> works[w].composer, features |-> FeaturesOf(w), at |-> place[w]]]
  BY DEF Listings
<1>3. DOMAIN rows = DOMAIN works
      /\ \A w \in DOMAIN works : rows[w].features = Read(works, stored, w) /\ rows[w].composer = works[w].composer
  BY <1>2 DEF FeaturesOf, Read, StoredFor, HeldFor
<1>4. PICK groups : groups = InGroups(rows, canonicalOf)
  OBVIOUS
<1>5. load'.canonical = canonicalOf /\ load'.groups = groups
  BY <1>1, <1>4
<1>6. ASSUME NEW k \in Groups
      PROVE  /\ DOMAIN groups[k] = {w \in DOMAIN rows : Key(canonicalOf, rows[w].composer) = k}
             /\ \A w \in DOMAIN groups[k] : groups[k][w] = rows[w]
  BY <1>4 DEF InGroups, Restrict
<1> QED
  BY <1>3, <1>5, <1>6 DEF Fresh

\* What a sighting writes is what the caches of its load learn.
LEMMA SightLearns ==
    ASSUME Enforced, TitlesSayAll, IInv, Fresh(load, works, stored),
           NEW m \in Mentions, NEW d \in Feeds[m], Sight(m, d)
    PROVE  Fresh(load', works', stored')
<1>1. d \in Docs
  BY DEF Docs
<1>2. PICK r : /\ r = Decision(d)
              /\ LET entered == IF r.status = "created" THEN Put(works, r.work, WorkFor(d)) ELSE works
                     dated == /\ r.work \in DOMAIN entered /\ d.premiere # NoDate
                              /\ Supersedes(d.premiere, load.dates[r.work])
                 IN  /\ works' = IF dated THEN [entered EXCEPT ![r.work].premiere = d.premiere] ELSE entered
                     /\ stored' = IF r.work = None THEN stored
                                  ELSE stored \union ({r.work} \X MentionFeatures(d).ids)
                     /\ Learn(m, d, r)
  BY DEF Sight
<1>3. load # Absent
  BY DEF Sight
<1>4. PICK ws, st, n, held, f : ws = works /\ st = stored /\ n = made /\ held = load /\ f = MentionFeatures(d)
  OBVIOUS
<1>5. /\ Silver(works, stored, mentions, made) /\ DOMAIN held = {"seen", "canonical", "groups", "dates"}
      /\ held.canonical \in [Composers -> Composers]
      /\ DOMAIN held.groups = Groups /\ \A k \in Groups : Knows(ws, n, held.groups[k])
  BY <1>3, <1>4 DEF IInv, LoadKnows
<1>6. n \in Nat /\ DOMAIN ws \subseteq 1 .. n /\ TypedWorks(ws) /\ st \subseteq (DOMAIN ws) \X Identifiers
  BY <1>4, <1>5 DEF Silver
<1>7. PICK key \in Groups : key = Key(held.canonical, d.composer)
  BY <1>1, <1>5, KeysAreGroups
<1>8. PICK rows : rows = held.groups[key]
  OBVIOUS
<1>9. /\ \A k \in Groups :
            /\ DOMAIN held.groups[k] = {w \in DOMAIN ws : Key(held.canonical, ws[w].composer) = k}
            /\ \A w \in DOMAIN held.groups[k] : held.groups[k][w].features = Read(ws, st, w)
      /\ Catalogue(rows)
  BY <1>4, <1>5, <1>7, <1>8 DEF Fresh, Knows
<1>10. /\ f \in Features /\ d.title \in Titles
       /\ f = WithIdentifiers(TitleFeatures[d.title], f.ids)
  BY <1>1, <1>4, MentionFeaturesAre DEF TitlesSayAll
<1>11. r = Decide(f, rows, n + 1)
  BY <1>2, <1>4, <1>7, <1>8 DEF Decision
<1>12. /\ r.status \in {"auto_matched", "needs_review", "created"}
       /\ r.status = "created" => r.work = n + 1
       /\ r.status # "created" => r.candidate \in DOMAIN rows
       /\ r.status = "auto_matched" => r.work = r.candidate
       /\ r.status = "needs_review" => r.work = None
  BY <1>9, <1>10, <1>11, DecisionsAre
<1>13. PICK entered : entered = EnteredBy(ws, d, r)
  OBVIOUS
<1>14. Entered(entered, ws, n, d, r)
  BY <1>1, <1>6, <1>12, <1>13, EnteredAre
<1>15. PICK now, st2 : now = works' /\ st2 = stored'
  OBVIOUS
<1>16. SameWorks(now, entered)
  <2>1. now = entered \/ (r.work \in DOMAIN entered /\ now = [entered EXCEPT ![r.work].premiere = d.premiere])
    BY <1>2, <1>4, <1>13, <1>15 DEF EnteredBy
  <2>2. CASE now = entered
    BY <2>2 DEF SameWorks
  <2>3. CASE r.work \in DOMAIN entered /\ now = [entered EXCEPT ![r.work].premiere = d.premiere]
    <3>1. \A w \in DOMAIN entered : DOMAIN entered[w] = {"composer", "title", "premiere"}
      BY <1>14 DEF Entered, TypedWorks
    <3> QED
      BY <2>3, <3>1 DEF SameWorks
  <2> QED
    BY <2>1, <2>2, <2>3
<1>17. /\ DOMAIN now = DOMAIN ws \union (IF r.status = "created" THEN {n + 1} ELSE {})
       /\ \A w \in DOMAIN ws : now[w].title = ws[w].title /\ now[w].composer = ws[w].composer
       /\ r.status = "created" => now[n + 1].title = d.title /\ now[n + 1].composer = d.composer
  BY <1>14, <1>16 DEF Entered, SameWorks
<1>18. PICK known : known = LearnedBy(rows, d.composer, f, r)
  OBVIOUS
<1>19. PICK dates : load' = [held EXCEPT !.seen[m] = d, !.groups[key] = known, !.dates = dates]
  BY <1>2, <1>4, <1>7, <1>8, <1>18 DEF Learn, LearnedBy
<1>20. load'.canonical = held.canonical /\ load'.groups = [held.groups EXCEPT ![key] = known]
  BY <1>5, <1>19
<1>21. PICK groups : groups = load'.groups
  OBVIOUS
<1>22. \A k \in Groups : groups[k] = IF k = key THEN known ELSE held.groups[k]
  BY <1>5, <1>20, <1>21
<1>23. \A w : HeldFor(st2, w) = IF w = r.work /\ w # None THEN HeldFor(st, w) \union f.ids ELSE HeldFor(st, w)
  <2>1. st2 = IF r.work = None THEN st ELSE st \union ({r.work} \X f.ids)
    BY <1>2, <1>4, <1>15
  <2>2. \A w, i : i \in HeldFor(st, w) <=> <<w, i>> \in st
    BY <1>6 DEF HeldFor
  <2>3. \A s \in st2 : s = <<s[1], s[2]>>
    BY <1>6, <2>1
  <2>4. \A w, i : i \in HeldFor(st2, w) <=> <<w, i>> \in st2
    BY <2>3 DEF HeldFor
  <2>5. \A w, i : <<w, i>> \in st2 <=> <<w, i>> \in st \/ (w = r.work /\ w # None /\ i \in f.ids)
    BY <2>1
  <2>6. ASSUME NEW w, w = r.work, w # None PROVE HeldFor(st2, w) = HeldFor(st, w) \union f.ids
    <3>1. \A i : i \in HeldFor(st2, w) <=> i \in HeldFor(st, w) \/ i \in f.ids
      BY <2>2, <2>4, <2>5, <2>6
    <3> QED
      BY <3>1
  <2>7. ASSUME NEW w, ~(w = r.work /\ w # None) PROVE HeldFor(st2, w) = HeldFor(st, w)
    <3>1. \A i : i \in HeldFor(st2, w) <=> i \in HeldFor(st, w)
      BY <2>2, <2>4, <2>5, <2>7
    <3> QED
      BY <3>1
  <2> QED
    BY <2>6, <2>7
<1>24. \A w \in DOMAIN ws : TitleFeatures[ws[w].title] \in Features
  BY <1>6, TitleFeaturesAssumption DEF TypedWorks
<1>25. \A w \in DOMAIN rows : w \in DOMAIN ws /\ w # n + 1 /\ w # None
  BY <1>6, <1>8, <1>9 DEF None
<1>26. ASSUME NEW k \in Groups, k # key
       PROVE  /\ DOMAIN groups[k] = {w \in DOMAIN now : Key(held.canonical, now[w].composer) = k}
              /\ \A w \in DOMAIN groups[k] : groups[k][w].features = Read(now, st2, w)
  <2>1. groups[k] = held.groups[k]
    BY <1>22, <1>26
  <2>2. DOMAIN groups[k] = {w \in DOMAIN ws : Key(held.canonical, ws[w].composer) = k}
    BY <1>9, <2>1
  <2>3. DOMAIN groups[k] = {w \in DOMAIN now : Key(held.canonical, now[w].composer) = k}
    BY <1>6, <1>7, <1>17, <1>26, <2>2
  <2>4. ASSUME NEW w \in DOMAIN groups[k] PROVE groups[k][w].features = Read(now, st2, w)
    <3>1. w \in DOMAIN ws /\ w # r.work
      BY <1>6, <1>7, <1>8, <1>9, <1>12, <1>26, <2>2 DEF None
    <3>2. HeldFor(st2, w) = HeldFor(st, w)
      BY <1>23, <3>1
    <3>3. groups[k][w].features = Read(ws, st, w)
      BY <1>9, <2>1
    <3> QED
      BY <1>17, <3>1, <3>2, <3>3 DEF Read
  <2> QED
    BY <2>3, <2>4
<1> DEFINE grown == IF r.status = "created" THEN Enlist(rows, r.work, d.composer, f) ELSE rows
<1>27. /\ DOMAIN grown = DOMAIN rows \union (IF r.status = "created" THEN {n + 1} ELSE {})
       /\ \A w \in DOMAIN rows : grown[w] = rows[w]
       /\ r.status = "created" => grown[n + 1].features = f
       /\ \A w \in DOMAIN grown : DOMAIN grown[w] = {"composer", "features", "at"}
  <2>1. CASE r.status = "created"
    <3>1. PICK row : Listed(row) /\ row.features = f /\ Enlist(rows, r.work, d.composer, f) = Put(rows, r.work, row)
      <4>1. PICK c : c = d.composer
        OBVIOUS
      <4> QED
        BY <1>10, <4>1, EnlistPuts
    <3>2. grown = Put(rows, n + 1, row)
      BY <1>12, <2>1, <3>1
    <3> HIDE DEF grown
    <3>3. DOMAIN grown = DOMAIN rows \union {n + 1} /\ grown[n + 1] = row /\ \A w \in DOMAIN rows : grown[w] = rows[w]
      BY <1>25, <3>2 DEF Put
    <3> QED
      BY <1>9, <2>1, <3>1, <3>3 DEF Catalogue, Listed
  <2>2. CASE r.status # "created"
    BY <1>9, <2>2 DEF Catalogue, Listed
  <2> QED
    BY <2>1, <2>2
<1>28. known = RefreshCandidate(grown, r.work, f.ids)
  BY <1>18 DEF LearnedBy
<1> HIDE DEF grown
<1>29. DOMAIN known = DOMAIN grown
       /\ \A w \in DOMAIN grown : known[w].features =
                IF w = r.work THEN WithIdentifiers(grown[w].features, f.ids) ELSE grown[w].features
  BY <1>27, <1>28 DEF RefreshCandidate
<1>30. DOMAIN known = {w \in DOMAIN now : Key(held.canonical, now[w].composer) = key}
  <2>1. DOMAIN rows = {w \in DOMAIN ws : Key(held.canonical, ws[w].composer) = key}
    BY <1>7, <1>8, <1>9
  <2> QED
    BY <1>6, <1>7, <1>17, <1>27, <1>29, <2>1
<1>31. ASSUME NEW w \in DOMAIN known PROVE known[w].features = Read(now, st2, w)
  <2>1. CASE w \notin DOMAIN rows
    <3>1. r.status = "created" /\ w = n + 1 /\ w = r.work /\ w # None
      BY <1>6, <1>12, <1>27, <1>29, <1>31, <2>1 DEF None
    <3>2. known[w].features = WithIdentifiers(f, f.ids)
      BY <1>27, <1>29, <1>31, <3>1
    <3>3. HeldFor(st, w) = {}
      BY <1>6, <3>1 DEF HeldFor
    <3>4. HeldFor(st2, w) = f.ids
      BY <1>23, <3>1, <3>3
    <3>5. TitleFeatures[d.title] \in Features
      BY <1>10, TitleFeaturesAssumption
    <3>6. WithIdentifiers(WithIdentifiers(TitleFeatures[d.title], f.ids), f.ids)
            = WithIdentifiers(TitleFeatures[d.title], f.ids \union f.ids)
      BY <3>5, LearningAdds
    <3>7. WithIdentifiers(f, f.ids) = WithIdentifiers(TitleFeatures[d.title], f.ids)
      <4>1. f.ids \union f.ids = f.ids
        OBVIOUS
      <4>2. WithIdentifiers(f, f.ids) = WithIdentifiers(WithIdentifiers(TitleFeatures[d.title], f.ids), f.ids)
        BY <1>10
      <4> QED
        BY <3>6, <4>1, <4>2
    <3> QED
      BY <1>17, <3>1, <3>2, <3>4, <3>7 DEF Read
  <2>2. CASE w \in DOMAIN rows /\ w = r.work
    <3>1. known[w].features = WithIdentifiers(Read(ws, st, w), f.ids)
      BY <1>7, <1>8, <1>9, <1>27, <1>29, <1>31, <2>2
    <3>2. HeldFor(st2, w) = HeldFor(st, w) \union f.ids
      BY <1>23, <1>25, <2>2
    <3>3. now[w].title = ws[w].title /\ TitleFeatures[ws[w].title] \in Features
      BY <1>17, <1>24, <1>25, <2>2
    <3> QED
      BY <3>1, <3>2, <3>3, LearningAdds DEF Read
  <2>3. CASE w \in DOMAIN rows /\ w # r.work
    <3>1. known[w].features = Read(ws, st, w)
      BY <1>7, <1>8, <1>9, <1>27, <1>29, <1>31, <2>3
    <3>2. HeldFor(st2, w) = HeldFor(st, w)
      BY <1>23, <2>3
    <3> QED
      BY <1>17, <1>25, <2>3, <3>1, <3>2 DEF Read
  <2> QED
    BY <2>1, <2>2, <2>3
<1>32. ASSUME NEW k \in Groups
       PROVE  /\ DOMAIN groups[k] = {w \in DOMAIN now : Key(held.canonical, now[w].composer) = k}
              /\ \A w \in DOMAIN groups[k] : groups[k][w].features = Read(now, st2, w)
  <2>1. CASE k = key
    BY <1>22, <1>30, <1>31, <2>1
  <2>2. CASE k # key
    BY <1>26, <2>2
  <2> QED
    BY <2>1, <2>2
<1> QED
  BY <1>15, <1>20, <1>21, <1>32 DEF Fresh

\* It does after every step but those of somebody else, which the history variable records.
LEMMA CacheStep == ASSUME Enforced, TitlesSayAll, IInv, CInv, [Next]_vars PROVE CInv'
<1> SUFFICES ASSUME load' # Absent, ~overlapped' PROVE Fresh(load', works', stored')
  BY DEF CInv
<1>1. CASE StartLoad
  <2>1. works' = works /\ stored' = stored
    BY <1>1 DEF StartLoad, db
  <2> QED
    BY <1>1, <2>1, StartLoadReads
<1>2. CASE EndLoad
  BY <1>2 DEF EndLoad
<1>3. CASE \E m \in Mentions : \E d \in Feeds[m] : Sight(m, d)
  <2>1. PICK m \in Mentions : \E d \in Feeds[m] : Sight(m, d)
    BY <1>3
  <2>2. PICK d \in Feeds[m] : Sight(m, d)
    BY <2>1
  <2>3. load # Absent /\ overlapped' = overlapped
    BY <2>2 DEF Sight
  <2> QED
    BY <2>2, <2>3, SightLearns DEF CInv
<1>4. CASE \E m \in Mentions : \E d \in Feeds[m] : SightRefused(m, d)
  BY <1>4 DEF SightRefused
<1>5. CASE Overlaps /\ load' = load
  BY <1>5 DEF Overlaps
<1>6. CASE \E m \in Mentions, w \in Ids : Accept(m, w)
  BY <1>5, <1>6 DEF Accept, Command
<1>7. CASE \E m \in Mentions : NewWork(m)
  BY <1>5, <1>7 DEF NewWork, Command
<1>8. CASE Rematch
  BY <1>5, <1>8 DEF Rematch, Command
<1>9. CASE \E k \in Clusterings : Dedupe(k)
  BY <1>5, <1>9 DEF Dedupe, Command
<1>10. CASE Fold
  BY <1>5, <1>10 DEF Fold
<1>11. CASE UNCHANGED vars
  BY <1>11 DEF vars, db, history, CInv
<1> QED
  BY <1>1, <1>2, <1>3, <1>4, <1>6, <1>7, <1>8, <1>9, <1>10, <1>11 DEF Next

\* What a load matches against is what the next one would read, where titles say all there
\* is to know of a work but its identifiers.
THEOREM Cached == ASSUME Enforced, TitlesSayAll PROVE Spec => []CacheIsDatabase
<1>1. Init => CInv
  BY DEF Init, CInv
<1>2. IInv /\ CInv /\ [Next]_vars => CInv'
  BY CacheStep
<1>3. IInv /\ CInv => CacheIsDatabase
  <2> SUFFICES ASSUME Fresh(load, works, stored), load # Absent, ~overlapped, NEW k \in Groups
               PROVE  {<<w, load.groups[k][w].features>> : w \in DOMAIN load.groups[k]} =
                        {<<w, FeaturesOf(w)>> : w \in {v \in DOMAIN works : Key(load.canonical, works[v].composer) = k}}
    BY DEF CInv, CacheIsDatabase
  <2>1. \A w : Read(works, stored, w) = FeaturesOf(w)
    BY DEF Read, FeaturesOf, HeldFor, StoredFor
  <2> QED
    BY <2>1 DEF Fresh
<1> QED
  BY <1>1, <1>2, <1>3, Soundness, PTL DEF Spec

-----------------------------------------------------------------------------
(* The premiere that stands.                                               *)

\* A date as a source states it, a month and a day with two digits.
IsDate(d) == d \in Seq(Nat) /\ Len(d) \in 1 .. 3 /\ \A i \in 2 .. Len(d) : d[i] < 100

\* One date comes before another, at whatever precision.
Precedes(d, e) == EarlierParts(Whole(d), Whole(e))

\* p is the first of T.
Stands(p, T) ==
    /\ T = {} => p = NoDate
    /\ T # {} => p \in T /\ \A d \in T : ~Precedes(d, p)

\* The dates of works, against which those of a load are compared.
DatesOf(ws) == [w \in Ids |-> IF w \in DOMAIN ws THEN ws[w].premiere ELSE NoDate]

\* Every work has the date that stands.
AllStand(ws, ts) == \A w \in DOMAIN ws : Stands(ws[w].premiere, ts[w])

\* What was told are dates, of works that were made.
ToldDates(ts, n) ==
    /\ DOMAIN ts = Ids /\ \A w \in Ids : \A d \in ts[w] : IsDate(d)
    /\ n <= MaxWorks /\ \A w \in Ids : w > n => ts[w] = {}

\* A work has the best that was told of it, and a load under way knows which that is; nothing
\* was told of a work that is still to be made.
PInv ==
    /\ ToldDates(told, made)
    /\ ~overlapped => AllStand(works, told)
    /\ ~overlapped /\ load # Absent => load.dates = DatesOf(works)

\* Year, month and day, one after the other.
Lex(x, y) ==
    \/ x[1] < y[1]
    \/ x[1] = y[1] /\ x[2] < y[2]
    \/ x[1] = y[1] /\ x[2] = y[2] /\ x[3] < y[3]

\* What a date is made of.
LEMMA DateParts ==
    ASSUME NEW d, IsDate(d)
    PROVE  /\ Len(d) \in 1 .. 3 /\ DOMAIN d = 1 .. Len(d) /\ d # NoDate
           /\ d[1] \in Nat
           /\ Len(d) >= 2 => d[2] \in Nat /\ d[2] < 100
           /\ Len(d) = 3 => d[3] \in Nat /\ d[3] < 100
<1>1. d \in Seq(Nat) /\ Len(d) \in 1 .. 3
  BY DEF IsDate
<1>2. DOMAIN d = 1 .. Len(d) /\ \A i \in 1 .. Len(d) : d[i] \in Nat
  BY <1>1
<1>3. d # NoDate
  <2>1. Len(<<>>) = 0
    OBVIOUS
  <2>2. Len(d) # 0
    BY <1>1
  <2> QED
    BY <2>1, <2>2 DEF NoDate
<1>4. 1 \in 1 .. Len(d) /\ (Len(d) >= 2 => 2 \in 2 .. Len(d)) /\ (Len(d) = 3 => 3 \in 2 .. Len(d))
  <2>1. PICK n \in 1 .. 3 : n = Len(d)
    BY <1>1
  <2>2. 1 \in 1 .. n /\ (n >= 2 => 2 \in 2 .. n) /\ (n = 3 => 3 \in 2 .. n)
    OBVIOUS
  <2> QED
    BY <2>1, <2>2
<1>5. \A i \in 2 .. Len(d) : i \in 1 .. Len(d) /\ d[i] < 100
  BY <1>1 DEF IsDate
<1> QED
  BY <1>1, <1>2, <1>3, <1>4, <1>5

\* The parts of a date and those that it lacks.
Completes(x, d, n) ==
    /\ x[1] = d[1] /\ (n >= 2 => x[2] = d[2]) /\ (n = 1 => x[2] = 9999)
    /\ (n = 3 => x[3] = d[3]) /\ (n # 3 => x[3] = 9999)

\* A number for each part, a missing one after all others.
LEMMA WholeParts ==
    ASSUME NEW d, IsDate(d)
    PROVE  Whole(d) \in [1 .. 3 -> Nat] /\ Completes(Whole(d), d, Len(d))
<1>1. PICK n \in 1 .. 3 : n = Len(d)
  BY DateParts
<1>2. \A i \in 1 .. 3 : Whole(d)[i] = IF i <= n THEN d[i] ELSE 9999
  BY <1>1 DEF Whole
<1>3. Completes(Whole(d), d, n)
  BY <1>2 DEF Completes
<1>4. Whole(d)[1] \in Nat /\ Whole(d)[2] \in Nat /\ Whole(d)[3] \in Nat
  <2>1. d[1] \in Nat /\ (n >= 2 => d[2] \in Nat) /\ (n = 3 => d[3] \in Nat)
    BY <1>1, DateParts
  <2> QED
    BY <1>3, <2>1 DEF Completes
<1>5. Whole(d) = [i \in 1 .. 3 |-> Whole(d)[i]]
  BY DEF Whole
<1>6. \A i \in 1 .. 3 : Whole(d)[i] \in Nat
  BY <1>4
<1> QED
  BY <1>1, <1>3, <1>5, <1>6

\* One date precedes another by its year, month and day.
LEMMA PrecedesByParts ==
    ASSUME NEW d, NEW e, IsDate(d), IsDate(e)
    PROVE  Precedes(d, e) <=> Lex(Whole(d), Whole(e))
<1>1. PICK a \in [1 .. 3 -> Nat], b \in [1 .. 3 -> Nat] : a = Whole(d) /\ b = Whole(e)
  BY WholeParts
<1>2. EarlierParts(a, b) <=> \E i \in 1 .. 3 : a[i] < b[i] /\ \A j \in 1 .. i - 1 : a[j] = b[j]
  <2>1. DOMAIN a \intersect DOMAIN b = 1 .. 3
    OBVIOUS
  <2> QED
    BY <2>1 DEF EarlierParts
<1>3. (\E i \in 1 .. 3 : a[i] < b[i] /\ \A j \in 1 .. i - 1 : a[j] = b[j]) <=> Lex(a, b)
  <2>1. 1 .. 1 - 1 = {} /\ 1 .. 2 - 1 = {1} /\ 1 .. 3 - 1 = {1, 2} /\ 1 .. 3 = {1, 2, 3}
    OBVIOUS
  <2> QED
    BY <2>1 DEF Lex
<1> QED
  BY <1>1, <1>2, <1>3 DEF Precedes

\* The order is total but for dates that are the same.
LEMMA PrecedesOrders ==
    ASSUME NEW a, NEW b, NEW c, IsDate(a), IsDate(b), IsDate(c)
    PROVE  /\ ~Precedes(a, a)
           /\ Precedes(a, b) => ~Precedes(b, a)
           /\ ~Precedes(a, b) /\ ~Precedes(b, c) => ~Precedes(a, c)
<1>1. PICK x \in [1 .. 3 -> Nat], y \in [1 .. 3 -> Nat], z \in [1 .. 3 -> Nat] :
        x = Whole(a) /\ y = Whole(b) /\ z = Whole(c)
  BY WholeParts
<1>2. x[1] \in Nat /\ x[2] \in Nat /\ x[3] \in Nat /\ y[1] \in Nat /\ y[2] \in Nat /\ y[3] \in Nat
      /\ z[1] \in Nat /\ z[2] \in Nat /\ z[3] \in Nat
  OBVIOUS
<1>3. /\ (Precedes(a, a) <=> Lex(x, x)) /\ (Precedes(a, b) <=> Lex(x, y)) /\ (Precedes(b, a) <=> Lex(y, x))
      /\ (Precedes(b, c) <=> Lex(y, z)) /\ (Precedes(a, c) <=> Lex(x, z))
  <2>1. (Precedes(a, a) <=> Lex(x, x)) /\ (Precedes(a, b) <=> Lex(x, y)) /\ (Precedes(b, a) <=> Lex(y, x))
    BY <1>1, PrecedesByParts
  <2>2. (Precedes(b, c) <=> Lex(y, z)) /\ (Precedes(a, c) <=> Lex(x, z))
    BY <1>1, PrecedesByParts
  <2> QED
    BY <2>1, <2>2
<1>4. ~Lex(x, x) /\ (Lex(x, y) => ~Lex(y, x)) /\ (~Lex(x, y) /\ ~Lex(y, z) => ~Lex(x, z))
  BY <1>2 DEF Lex
<1> QED
  BY <1>3, <1>4

\* A date is earlier than another where both say so.
LEMMA EarlierByParts ==
    ASSUME NEW a, NEW b, IsDate(a), IsDate(b)
    PROVE  EarlierParts(a, b) <=>
              \/ a[1] < b[1]
              \/ Len(a) >= 2 /\ Len(b) >= 2 /\ a[1] = b[1] /\ a[2] < b[2]
              \/ Len(a) = 3 /\ Len(b) = 3 /\ a[1] = b[1] /\ a[2] = b[2] /\ a[3] < b[3]
<1>1. PICK m \in 1 .. 3, n \in 1 .. 3 : m = Len(a) /\ n = Len(b)
  BY DateParts
<1>2. DOMAIN a \intersect DOMAIN b = {i \in {1, 2, 3} : i <= m /\ i <= n}
  <2>1. DOMAIN a = 1 .. m /\ DOMAIN b = 1 .. n
    BY <1>1, DateParts
  <2> QED
    BY <2>1
<1>3. EarlierParts(a, b) <=>
        \E i \in {1, 2, 3} : i <= m /\ i <= n /\ a[i] < b[i] /\ \A j \in 1 .. i - 1 : a[j] = b[j]
  BY <1>2 DEF EarlierParts
<1>4. 1 .. 1 - 1 = {} /\ 1 .. 2 - 1 = {1} /\ 1 .. 3 - 1 = {1, 2}
  OBVIOUS
<1> QED
  BY <1>1, <1>3, <1>4

\* The dates as the code compares them: what comes first is the earlier of two, and of two of
\* which one refines the other the more precise.
LEMMA SupersedesOrders ==
    ASSUME NEW new, NEW current, IsDate(new), IsDate(current)
    PROVE  Supersedes(new, current) <=> Precedes(new, current)
<1>1. PICK x \in [1 .. 3 -> Nat], y \in [1 .. 3 -> Nat] : x = Whole(new) /\ y = Whole(current)
  BY WholeParts
<1>2. Precedes(new, current) <=> Lex(x, y)
  BY <1>1, PrecedesByParts
<1>3. PICK m \in 1 .. 3, n \in 1 .. 3 : m = Len(new) /\ n = Len(current)
  BY DateParts
<1>4. PICK a1, a2, a3, b1, b2, b3 :
        /\ a1 = new[1] /\ a2 = new[2] /\ a3 = new[3]
        /\ b1 = current[1] /\ b2 = current[2] /\ b3 = current[3]
  OBVIOUS
<1>5. /\ x[1] = a1 /\ (m >= 2 => x[2] = a2) /\ (m = 1 => x[2] = 9999) /\ (m = 3 => x[3] = a3) /\ (m # 3 => x[3] = 9999)
      /\ y[1] = b1 /\ (n >= 2 => y[2] = b2) /\ (n = 1 => y[2] = 9999) /\ (n = 3 => y[3] = b3) /\ (n # 3 => y[3] = 9999)
  <2>1. Completes(x, new, m) /\ Completes(y, current, n)
    BY <1>1, <1>3, WholeParts
  <2> QED
    BY <1>4, <2>1 DEF Completes
<1>6. /\ a1 \in Nat /\ (m >= 2 => a2 \in Nat /\ a2 < 100) /\ (m = 3 => a3 \in Nat /\ a3 < 100)
      /\ b1 \in Nat /\ (n >= 2 => b2 \in Nat /\ b2 < 100) /\ (n = 3 => b3 \in Nat /\ b3 < 100)
  BY <1>3, <1>4, DateParts
<1>7. /\ EarlierParts(new, current) <=>
                \/ a1 < b1
                \/ m >= 2 /\ n >= 2 /\ a1 = b1 /\ a2 < b2
                \/ m = 3 /\ n = 3 /\ a1 = b1 /\ a2 = b2 /\ a3 < b3
      /\ EarlierParts(current, new) <=>
                \/ b1 < a1
                \/ n >= 2 /\ m >= 2 /\ b1 = a1 /\ b2 < a2
                \/ n = 3 /\ m = 3 /\ b1 = a1 /\ b2 = a2 /\ b3 < a3
  BY <1>3, <1>4, EarlierByParts
<1>8. Supersedes(new, current) <=> EarlierParts(new, current) \/ (~EarlierParts(current, new) /\ m > n)
  BY <1>3, DateParts DEF Supersedes
<1>9. Lex(x, y) <=>
        \/ a1 < b1
        \/ a1 = b1 /\ x[2] < y[2]
        \/ a1 = b1 /\ x[2] = y[2] /\ x[3] < y[3]
  BY <1>5 DEF Lex
<1>10. Lex(x, y) <=> Supersedes(new, current)
  <2>1. m \in {1, 2, 3} /\ n \in {1, 2, 3}
    <3>1. m \in 1 .. 3 /\ n \in 1 .. 3
      OBVIOUS
    <3>2. 1 .. 3 = {1, 2, 3}
      OBVIOUS
    <3> QED
      BY <3>1, <3>2
  <2>2. CASE m = 1
    <3>1. ~(x[2] < y[2]) /\ ~(x[2] = y[2] /\ x[3] < y[3])
      <4>1. x[2] = 9999 /\ x[3] = 9999
        BY <1>5, <2>2
      <4>2. CASE n = 1
        <5>1. y[2] = 9999 /\ y[3] = 9999
          BY <1>5, <4>2
        <5> QED
          BY <4>1, <5>1
      <4>3. CASE n \in {2, 3}
        <5>1. y[2] = b2 /\ b2 \in Nat /\ b2 < 100
          BY <1>5, <1>6, <4>3
        <5> QED
          BY <4>1, <5>1
      <4> QED
        BY <2>1, <4>2, <4>3
    <3>2. Lex(x, y) <=> a1 < b1
      BY <1>9, <3>1
    <3>3. EarlierParts(new, current) <=> a1 < b1
      BY <1>7, <2>2
    <3>4. Supersedes(new, current) <=> EarlierParts(new, current)
      <4>1. ~(m > n)
        BY <2>1, <2>2
      <4> QED
        BY <1>8, <4>1
    <3> QED
      BY <3>2, <3>3, <3>4
  <2>3. CASE m = 2 /\ n = 1
    <3>1. x[2] < y[2]
      BY <1>5, <1>6, <2>3
    <3>2. Lex(x, y) <=> a1 < b1 \/ a1 = b1
      BY <1>9, <3>1
    <3>3. (EarlierParts(new, current) <=> a1 < b1) /\ (EarlierParts(current, new) <=> b1 < a1)
      BY <1>7, <2>3
    <3>4. Supersedes(new, current) <=> a1 < b1 \/ ~(b1 < a1)
      BY <1>8, <2>3, <3>3
    <3>5. a1 \in Nat /\ b1 \in Nat
      BY <1>6
    <3> QED
      BY <3>2, <3>4, <3>5
  <2>4. CASE m = 3 /\ n = 1
    <3>1. x[2] < y[2]
      BY <1>5, <1>6, <2>4
    <3>2. Lex(x, y) <=> a1 < b1 \/ a1 = b1
      BY <1>9, <3>1
    <3>3. (EarlierParts(new, current) <=> a1 < b1) /\ (EarlierParts(current, new) <=> b1 < a1)
      BY <1>7, <2>4
    <3>4. Supersedes(new, current) <=> a1 < b1 \/ ~(b1 < a1)
      BY <1>8, <2>4, <3>3
    <3>5. a1 \in Nat /\ b1 \in Nat
      BY <1>6
    <3> QED
      BY <3>2, <3>4, <3>5
  <2>5. CASE m = 2 /\ n \in {2, 3}
    <3>1. x[2] = a2 /\ y[2] = b2 /\ ~(x[3] < y[3])
      BY <1>5, <1>6, <2>5
    <3>2. Lex(x, y) <=> a1 < b1 \/ (a1 = b1 /\ a2 < b2)
      BY <1>9, <3>1
    <3>3. EarlierParts(new, current) <=> a1 < b1 \/ (a1 = b1 /\ a2 < b2)
      BY <1>7, <2>5
    <3>4. Supersedes(new, current) <=> EarlierParts(new, current)
      BY <1>8, <2>5
    <3> QED
      BY <3>2, <3>3, <3>4
  <2>6. CASE m = 3 /\ n = 2
    <3>1. x[2] = a2 /\ y[2] = b2 /\ x[3] < y[3]
      BY <1>5, <1>6, <2>6
    <3>2. Lex(x, y) <=> a1 < b1 \/ (a1 = b1 /\ a2 < b2) \/ (a1 = b1 /\ a2 = b2)
      BY <1>9, <3>1
    <3>3. /\ EarlierParts(new, current) <=> a1 < b1 \/ (a1 = b1 /\ a2 < b2)
          /\ EarlierParts(current, new) <=> b1 < a1 \/ (b1 = a1 /\ b2 < a2)
      BY <1>7, <2>6
    <3>4. Supersedes(new, current) <=> EarlierParts(new, current) \/ ~EarlierParts(current, new)
      BY <1>8, <2>6
    <3>5. a1 \in Nat /\ b1 \in Nat /\ a2 \in Nat /\ b2 \in Nat
      BY <1>6, <2>6
    <3> QED
      BY <3>2, <3>3, <3>4, <3>5
  <2>7. CASE m = 3 /\ n = 3
    <3>1. Lex(x, y) <=> (a1 < b1 \/ (a1 = b1 /\ a2 < b2) \/ (a1 = b1 /\ a2 = b2 /\ a3 < b3))
      BY <1>5, <1>9, <2>7
    <3>2. EarlierParts(new, current) <=> (a1 < b1 \/ (a1 = b1 /\ a2 < b2) \/ (a1 = b1 /\ a2 = b2 /\ a3 < b3))
      BY <1>7, <2>7
    <3>3. Supersedes(new, current) <=> EarlierParts(new, current)
      BY <1>8, <2>7
    <3> QED
      BY <3>1, <3>2, <3>3
  <2>8. \/ m = 1 \/ (m = 2 /\ n = 1) \/ (m = 2 /\ n \in {2, 3})
        \/ (m = 3 /\ n = 1) \/ (m = 3 /\ n = 2) \/ (m = 3 /\ n = 3)
    BY <2>1
  <2> QED
    BY <2>2, <2>3, <2>4, <2>5, <2>6, <2>7, <2>8, Zenon
<1> QED
  BY <1>2, <1>10

\* Of two that stand, whichever supersedes the other stands for both.
LEMMA StandingOfBoth ==
    ASSUME NEW p, NEW T, Stands(p, T), NEW q, NEW U, Stands(q, U),
           \A d \in T \union U : IsDate(d),
           NEW best, best = IF q # NoDate /\ Supersedes(q, p) THEN q ELSE p
    PROVE  Stands(best, T \union U)
<1>1. \A d : IsDate(d) => d # NoDate
  BY DateParts
<1>2. CASE U = {}
  <2>1. q = NoDate /\ best = p /\ T \union U = T
    BY <1>2 DEF Stands
  <2> QED
    BY <2>1
<1>3. CASE U # {} /\ T = {}
  <2>1. p = NoDate /\ q # NoDate /\ T \union U = U
    BY <1>1, <1>3 DEF Stands
  <2>2. Supersedes(q, p)
    BY <2>1 DEF Supersedes
  <2> QED
    BY <2>1, <2>2
<1>4. CASE U # {} /\ T # {}
  <2>1. /\ p \in T /\ \A d \in T : IsDate(d) /\ ~Precedes(d, p)
        /\ q \in U /\ \A d \in U : IsDate(d) /\ ~Precedes(d, q)
    BY <1>4 DEF Stands
  <2>2. Supersedes(q, p) <=> Precedes(q, p)
    BY <2>1, SupersedesOrders
  <2>3. CASE Precedes(q, p)
    <3>1. best = q /\ ~Precedes(p, q)
      BY <1>1, <2>1, <2>2, <2>3, PrecedesOrders
    <3>2. \A d \in T : ~Precedes(d, q)
      BY <2>1, <3>1, PrecedesOrders
    <3> QED
      BY <1>4, <2>1, <3>1, <3>2 DEF Stands
  <2>4. CASE ~Precedes(q, p)
    <3>1. best = p
      BY <2>2, <2>4
    <3>2. \A d \in U : ~Precedes(d, p)
      BY <2>1, <2>4, PrecedesOrders
    <3> QED
      BY <1>4, <2>1, <3>1, <3>2 DEF Stands
  <2> QED
    BY <2>3, <2>4
<1> QED
  BY <1>2, <1>3, <1>4

-----------------------------------------------------------------------------
(* A fold: the target keeps whichever stands.                              *)

\* What one source makes of the date of its target.
NextDate(w, final, v, date) ==
    IF /\ v \in DOMAIN final /\ final[v] = w /\ works[v].premiere # NoDate
       /\ Supersedes(works[v].premiere, date)
    THEN works[v].premiere
    ELSE date

\* The sources of a target, one after the other.
AreDates(f, w, final, N) ==
    f = [v \in 0 .. N |-> IF v = 0 THEN works[w].premiere ELSE NextDate(w, final, v, f[v - 1])]

\* The function that MovePremiere chooses exists.
LEMMA DatesRun ==
    ASSUME NEW w, NEW final, NEW N \in Nat
    PROVE  \E f : AreDates(f, w, final, N)
<1> DEFINE good == {n \in 0 .. N : \E f : AreDates(f, w, final, n)}
<1>1. 0 \in good
  <2>1. AreDates([i \in 0 .. 0 |-> works[w].premiere], w, final, 0)
    BY DEF AreDates
  <2>2. 0 \in 0 .. N
    OBVIOUS
  <2> QED
    BY <2>1, <2>2
<1>2. ASSUME NEW n \in 0 .. N - 1, n \in good PROVE n + 1 \in good
  <2>1. PICK f : AreDates(f, w, final, n)
    BY <1>2
  <2> DEFINE g == [i \in 0 .. n + 1 |-> IF i <= n THEN f[i] ELSE NextDate(w, final, n + 1, f[n])]
  <2>2. ASSUME NEW i \in 0 .. n + 1
        PROVE  g[i] = IF i = 0 THEN works[w].premiere ELSE NextDate(w, final, i, g[i - 1])
    <3>1. CASE i = 0
      <4>1. g[i] = f[i] /\ i \in 0 .. n
        BY <3>1
      <4> HIDE DEF g
      <4> QED
        BY <2>1, <3>1, <4>1 DEF AreDates
    <3>2. CASE i # 0 /\ i <= n
      <4>1. g[i] = f[i] /\ g[i - 1] = f[i - 1] /\ i \in 0 .. n
        BY <3>2
      <4>2. f[i] = NextDate(w, final, i, f[i - 1])
        BY <2>1, <3>2, <4>1 DEF AreDates
      <4> HIDE DEF g
      <4> QED
        BY <3>2, <4>1, <4>2
    <3>3. CASE i = n + 1
      <4>1. g[i] = NextDate(w, final, n + 1, f[n]) /\ g[i - 1] = f[n] /\ i # 0
        BY <3>3
      <4> HIDE DEF g
      <4> QED
        BY <3>3, <4>1
    <3> QED
      BY <3>1, <3>2, <3>3
  <2>3. g = [i \in 0 .. n + 1 |-> g[i]]
    OBVIOUS
  <2>4. AreDates(g, w, final, n + 1)
    <3> HIDE DEF g
    <3> QED
      BY <2>2, <2>3 DEF AreDates
  <2>5. n + 1 \in 0 .. N
    OBVIOUS
  <2> HIDE DEF g
  <2> QED
    BY <2>4, <2>5
<1> HIDE DEF good
<1>3. good \in SUBSET (0 .. N)
  BY DEF good
<1>4. N \in good
  BY <1>1, <1>2, <1>3, UpTo
<1> QED
  BY <1>4 DEF good

\* What was told of a work and of the first n that fold into it.
ToldOf(w, final, n) == told[w] \union UNION {told[v] : v \in {s \in 1 .. n : s \in DOMAIN final /\ final[s] = w}}

\* Whatever the order of the ids, what the target keeps stands for all that folded into it.
LEMMA FoldPremieres ==
    ASSUME DOMAIN works \subseteq Ids, \A v \in Ids : \A d \in told[v] : IsDate(d),
           \A v \in DOMAIN works : Stands(works[v].premiere, told[v]),
           NEW final, Folding(final), NEW w \in DOMAIN works \ DOMAIN final
    PROVE  Stands(MovePremiere(w, final), ToldOf(w, final, MaxWorks))
<1>1. MaxWorks \in Nat
  BY BoundsAssumption
<1>2. \E f : AreDates(f, w, final, MaxWorks)
  BY <1>1, DatesRun
<1> DEFINE after == CHOOSE f : AreDates(f, w, final, MaxWorks)
<1>3. MovePremiere(w, final) = after[MaxWorks]
  BY DEF MovePremiere, AreDates, NextDate
<1>4. after = [v \in 0 .. MaxWorks |-> IF v = 0 THEN works[w].premiere ELSE NextDate(w, final, v, after[v - 1])]
  <2>1. AreDates(after, w, final, MaxWorks)
    BY <1>2, Zenon
  <2> HIDE DEF after
  <2> QED
    BY <2>1 DEF AreDates
<1> HIDE DEF after
<1> DEFINE good == {n \in 0 .. MaxWorks : Stands(after[n], ToldOf(w, final, n))}
<1>5. 0 \in good
  <2>1. after[0] = works[w].premiere /\ 0 \in 0 .. MaxWorks
    BY <1>1, <1>4
  <2>2. 1 .. 0 = {}
    OBVIOUS
  <2>3. ToldOf(w, final, 0) = told[w]
    BY <2>2 DEF ToldOf
  <2> QED
    BY <2>1, <2>3
<1>6. ASSUME NEW n \in 0 .. MaxWorks - 1, n \in good PROVE n + 1 \in good
  <2>1. n + 1 \in 0 .. MaxWorks /\ n + 1 # 0 /\ (n + 1) - 1 = n /\ n + 1 \in Ids /\ n \in 0 .. MaxWorks
    BY <1>1 DEF Ids
  <2>2. after[n + 1] = NextDate(w, final, n + 1, after[n])
    BY <1>4, <2>1
  <2>3. 1 .. n + 1 = (1 .. n) \union {n + 1}
    BY <1>1
  <2>4. PICK v : v = n + 1
    OBVIOUS
  <2>5. CASE v \in DOMAIN final /\ final[v] = w
    <3>1. ToldOf(w, final, n + 1) = ToldOf(w, final, n) \union told[v]
      BY <2>3, <2>4, <2>5 DEF ToldOf
    <3>2. v \in DOMAIN works /\ Stands(works[v].premiere, told[v])
      BY <2>5 DEF Folding
    <3>3. PICK p, q, T, best : /\ p = after[n] /\ q = works[v].premiere /\ T = ToldOf(w, final, n)
                               /\ best = after[n + 1]
      OBVIOUS
    <3>4. best = IF q # NoDate /\ Supersedes(q, p) THEN q ELSE p
      BY <2>2, <2>4, <2>5, <3>3 DEF NextDate
    <3>5. \A s \in 1 .. n : s \in Ids
      BY <1>1 DEF Ids
    <3>6. \A d \in T : IsDate(d)
      BY <3>3, <3>5 DEF ToldOf
    <3>7. \A d \in told[v] : IsDate(d)
      BY <2>1, <2>4
    <3>8. Stands(p, T)
      BY <1>6, <3>3
    <3>9. PICK U : U = told[v]
      OBVIOUS
    <3>10. Stands(best, T \union U)
      BY <3>2, <3>3, <3>4, <3>6, <3>7, <3>8, <3>9, StandingOfBoth
    <3> QED
      BY <2>1, <3>1, <3>3, <3>9, <3>10
  <2>6. CASE ~(v \in DOMAIN final /\ final[v] = w)
    <3>1. ToldOf(w, final, n + 1) = ToldOf(w, final, n)
      BY <2>3, <2>4, <2>6 DEF ToldOf
    <3>2. after[n + 1] = after[n]
      BY <2>2, <2>4, <2>6 DEF NextDate
    <3> QED
      BY <1>6, <2>1, <3>1, <3>2
  <2> QED
    BY <2>5, <2>6
<1>7. good \in SUBSET (0 .. MaxWorks)
  OBVIOUS
<1> HIDE DEF good
<1>8. MaxWorks \in good
  BY <1>1, <1>5, <1>6, <1>7, UpTo
<1> QED
  BY <1>3, <1>8 DEF good

-----------------------------------------------------------------------------
(* What was told, step by step.                                            *)

\* A premiere that is fed is a date, or missing.
LEMMA FedPremieres ==
    ASSUME NEW m \in Mentions, NEW d \in Feeds[m], d.premiere # NoDate
    PROVE  IsDate(d.premiere)
<1>1. d \in Document
  BY FeedsAssumption
<1>2. d.premiere \in Seq(Nat) /\ Len(d.premiere) \in 0 .. 3
      /\ \A i \in 2 .. Len(d.premiere) : d.premiere[i] < 100
  BY <1>1, PremieresAssumption DEF Document
<1>3. PICK p \in Seq(Nat) : p = d.premiere
  BY <1>2
<1>4. Len(p) # 0
  BY <1>3 DEF NoDate
<1> QED
  BY <1>2, <1>3, <1>4 DEF IsDate

\* A work that is made has no date, and nothing was told of it.
LEMMA EnteredStand ==
    ASSUME NEW ws, NEW n \in Nat, NEW ts, DOMAIN ws \subseteq 1 .. n, AllStand(ws, ts), ToldDates(ts, n),
           NEW d, NEW r, r.status = "created" => (r.work = n + 1 /\ n < MaxWorks),
           NEW entered, entered = EnteredBy(ws, d, r)
    PROVE  AllStand(entered, ts) /\ DatesOf(entered) = DatesOf(ws)
<1>1. CASE r.status = "created"
  <2>1. PICK row : row = WorkFor(d)
    OBVIOUS
  <2>2. row.premiere = NoDate
    BY <2>1 DEF WorkFor
  <2>3. entered = Put(ws, n + 1, row)
    BY <1>1, <2>1 DEF EnteredBy
  <2>4. DOMAIN entered = DOMAIN ws \union {n + 1} /\ entered[n + 1] = row /\ \A w \in DOMAIN ws : entered[w] = ws[w]
    BY <2>3 DEF Put
  <2>5. n + 1 \in Ids /\ ts[n + 1] = {}
    BY <1>1, BoundsAssumption DEF ToldDates, Ids
  <2>6. Stands(entered[n + 1].premiere, ts[n + 1])
    BY <2>2, <2>4, <2>5 DEF Stands
  <2>7. AllStand(entered, ts)
    BY <2>4, <2>6 DEF AllStand
  <2>8. \A w \in Ids : (IF w \in DOMAIN entered THEN entered[w].premiere ELSE NoDate) =
                       (IF w \in DOMAIN ws THEN ws[w].premiere ELSE NoDate)
    BY <2>2, <2>4
  <2> QED
    BY <2>7, <2>8 DEF DatesOf
<1>2. CASE r.status # "created"
  BY <1>2 DEF EnteredBy
<1> QED
  BY <1>1, <1>2

\* A sighting keeps whichever of the two dates stands, and so do the caches of its load.
LEMMA SightStands ==
    ASSUME Enforced, IInv, PInv, NEW m \in Mentions, NEW d \in Feeds[m], Sight(m, d)
    PROVE  PInv'
<1>1. d \in Docs
  BY DEF Docs
<1>2. PICK r : /\ r = Decision(d)
              /\ LET entered == IF r.status = "created" THEN Put(works, r.work, WorkFor(d)) ELSE works
                     dated == /\ r.work \in DOMAIN entered /\ d.premiere # NoDate
                              /\ Supersedes(d.premiere, load.dates[r.work])
                 IN  /\ r.status = "created" => made < MaxWorks
                     /\ made' = IF r.status = "created" THEN made + 1 ELSE made
                     /\ {r.work, r.candidate} \ {None} \subseteq DOMAIN entered
                     /\ works' = IF dated THEN [entered EXCEPT ![r.work].premiere = d.premiere] ELSE entered
                     /\ Learn(m, d, r)
                     /\ told' = IF r.work # None /\ d.premiere # NoDate
                                THEN [told EXCEPT ![r.work] = @ \union {d.premiere}] ELSE told
  BY DEF Sight
<1>3. load # Absent /\ overlapped' = overlapped
  BY DEF Sight
<1>4. PICK ws, ts, n, held : ws = works /\ ts = told /\ n = made /\ held = load
  OBVIOUS
<1>5. /\ n \in Nat /\ DOMAIN ws \subseteq 1 .. n /\ TypedWorks(ws) /\ DOMAIN held = {"seen", "canonical", "groups", "dates"}
      /\ held.canonical \in [Composers -> Composers]
      /\ DOMAIN held.groups = Groups /\ \A k \in Groups : Knows(ws, n, held.groups[k])
  BY <1>3, <1>4 DEF IInv, LoadKnows, Silver
<1>6. PICK key \in Groups : key = Key(held.canonical, d.composer)
  BY <1>1, <1>5, KeysAreGroups
<1>7. r = Decide(MentionFeatures(d), held.groups[key], n + 1)
  BY <1>2, <1>4, <1>6 DEF Decision
<1>8. r.status = "created" => r.work = n + 1 /\ n < MaxWorks
  <2>1. Catalogue(held.groups[key]) /\ MentionFeatures(d) \in Features
    BY <1>1, <1>5, <1>6, MentionFeaturesAre DEF Knows
  <2> QED
    BY <1>2, <1>4, <1>7, <2>1, DecisionsAre
<1>9. PICK entered : entered = EnteredBy(ws, d, r)
  OBVIOUS
<1>10. Entered(entered, ws, n, d, r)
  BY <1>1, <1>5, <1>8, <1>9, EnteredAre
<1>11. PICK n2 : n2 = MadeBy(n, r)
  OBVIOUS
<1>12. n2 \in Nat /\ n <= n2 /\ n2 <= MaxWorks /\ DOMAIN entered \subseteq 1 .. n2 /\ made' = n2
  BY <1>2, <1>4, <1>5, <1>8, <1>10, <1>11, BoundsAssumption DEF PInv, MadeBy, Entered, ToldDates, AllStand, DatesOf
<1>13. None \notin DOMAIN entered /\ DOMAIN entered \subseteq Ids
  BY <1>12, BoundsAssumption DEF None, Ids
<1>14. r.work # None => r.work \in DOMAIN entered
  BY <1>2, <1>4, <1>9 DEF EnteredBy
<1>15. ToldDates(ts, n)
  BY <1>4 DEF PInv, ToldDates, AllStand, DatesOf
<1>16. PICK date, now, ts2 : date = d.premiere /\ now = works' /\ ts2 = told'
  OBVIOUS
<1>17. date # NoDate => IsDate(date)
  BY <1>16, FedPremieres
<1>18. PICK dates : dates = IF r.work # None /\ date # NoDate /\ Supersedes(date, held.dates[r.work])
                            THEN Put(held.dates, r.work, date) ELSE held.dates
  OBVIOUS
<1>19. load' # Absent => load'.dates = dates
  <2>1. PICK groups : load' = [held EXCEPT !.seen[m] = d, !.groups[key] = groups, !.dates = dates]
    BY <1>2, <1>4, <1>6, <1>16, <1>18 DEF Learn
  <2> QED
    BY <1>5, <2>1
<1>20. now = IF r.work # None /\ date # NoDate /\ Supersedes(date, held.dates[r.work])
             THEN [entered EXCEPT ![r.work].premiere = date] ELSE entered
  BY <1>2, <1>4, <1>9, <1>13, <1>14, <1>16 DEF EnteredBy
<1>21. ts2 = IF r.work # None /\ date # NoDate THEN [ts EXCEPT ![r.work] = @ \union {date}] ELSE ts
  BY <1>2, <1>4, <1>16
<1>22. ToldDates(ts2, n2)
  <2>1. CASE r.work # None /\ date # NoDate
    <3>1. ts2 = [ts EXCEPT ![r.work] = @ \union {date}] /\ r.work \in Ids /\ r.work \in 1 .. n2
      BY <1>12, <1>13, <1>14, <1>21, <2>1
    <3>2. DOMAIN ts2 = Ids /\ ts2[r.work] = ts[r.work] \union {date} /\ \A w \in Ids \ {r.work} : ts2[w] = ts[w]
      BY <1>15, <3>1 DEF ToldDates
    <3>3. \A w \in Ids : w > n2 => w # r.work /\ w > n
      BY <1>5, <1>12, <3>1 DEF Ids
    <3> QED
      BY <1>12, <1>15, <1>17, <2>1, <3>2, <3>3 DEF ToldDates
  <2>2. CASE ~(r.work # None /\ date # NoDate)
    <3>1. \A w \in Ids : w > n2 => w > n
      BY <1>5, <1>12 DEF Ids
    <3> QED
      BY <1>12, <1>15, <1>21, <2>2, <3>1 DEF ToldDates
  <2> QED
    BY <2>1, <2>2
<1>23. ASSUME ~overlapped PROVE AllStand(now, ts2) /\ dates = DatesOf(now)
  <2>1. AllStand(ws, ts) /\ held.dates = DatesOf(ws)
    BY <1>3, <1>4, <1>23 DEF PInv, AllStand, DatesOf, ToldDates
  <2>2. AllStand(entered, ts) /\ held.dates = DatesOf(entered)
    BY <1>5, <1>8, <1>9, <1>15, <2>1, EnteredStand
  <2>3. CASE r.work = None \/ date = NoDate
    BY <1>18, <1>20, <1>21, <2>2, <2>3
  <2>4. CASE r.work # None /\ date # NoDate
    <3>1. PICK w \in DOMAIN entered : w = r.work
      BY <1>14, <2>4
    <3>2. PICK p, T, best : /\ p = entered[w].premiere /\ T = ts[w]
                            /\ best = IF Supersedes(date, p) THEN date ELSE p
      OBVIOUS
    <3>3. w \in Ids /\ held.dates[w] = p /\ Stands(p, T) /\ \A e \in T : IsDate(e)
      BY <1>13, <1>15, <2>2, <3>2 DEF DatesOf, AllStand, ToldDates
    <3>4. Stands(date, {date})
      <4>1. ~Precedes(date, date)
        BY <1>17, <2>4, PrecedesOrders
      <4> QED
        BY <4>1 DEF Stands
    <3>5. Stands(best, T \union {date})
      <4>1. \A e \in T \union {date} : IsDate(e)
        BY <1>17, <2>4, <3>3
      <4>2. best = IF date # NoDate /\ Supersedes(date, p) THEN date ELSE p
        BY <2>4, <3>2
      <4> QED
        BY <3>3, <3>4, <4>1, <4>2, StandingOfBoth
    <3>6. ts2[w] = T \union {date} /\ \A v \in Ids \ {w} : ts2[v] = ts[v]
      BY <1>15, <1>21, <2>4, <3>1, <3>2, <3>3 DEF ToldDates
    <3>7. DOMAIN entered[w] = {"composer", "title", "premiere"}
      BY <1>10 DEF Entered, TypedWorks
    <3>8. DOMAIN now = DOMAIN entered /\ now[w].premiere = best /\ \A v \in DOMAIN entered \ {w} : now[v] = entered[v]
      BY <1>20, <2>4, <3>1, <3>2, <3>3, <3>7
    <3>9. AllStand(now, ts2)
      <4> SUFFICES ASSUME NEW v \in DOMAIN now PROVE Stands(now[v].premiere, ts2[v])
        BY DEF AllStand
      <4>1. CASE v = w
        BY <3>5, <3>6, <3>8, <4>1
      <4>2. CASE v # w
        BY <1>13, <2>2, <3>6, <3>8, <4>2 DEF AllStand
      <4> QED
        BY <4>1, <4>2
    <3>10. DOMAIN held.dates = Ids /\ \A v \in Ids : held.dates[v] = IF v \in DOMAIN entered THEN entered[v].premiere ELSE NoDate
      BY <2>2 DEF DatesOf
    <3>11. dates = IF Supersedes(date, p) THEN Put(held.dates, w, date) ELSE held.dates
      BY <1>18, <2>4, <3>1, <3>3
    <3>12. dates = [v \in Ids |-> IF v = w THEN best ELSE held.dates[v]]
      <4> DEFINE seen == held.dates
      <4>1. DOMAIN seen = Ids /\ seen = [v \in Ids |-> seen[v]] /\ seen[w] = p /\ w \in Ids
        BY <2>2, <3>3, <3>10 DEF DatesOf
      <4> HIDE DEF seen
      <4>2. CASE Supersedes(date, p)
        <5>1. dates = [v \in DOMAIN seen \union {w} |-> IF v = w THEN date ELSE seen[v]]
          BY <3>11, <4>2 DEF Put, seen
        <5>2. DOMAIN seen \union {w} = Ids /\ best = date
          BY <3>2, <4>1, <4>2
        <5> QED
          BY <5>1, <5>2 DEF seen
      <4>3. CASE ~Supersedes(date, p)
        <5>1. dates = seen /\ best = p
          BY <3>2, <3>11, <4>3 DEF seen
        <5>2. \A v \in Ids : (IF v = w THEN best ELSE seen[v]) = seen[v]
          BY <4>1, <5>1
        <5>3. [v \in Ids |-> IF v = w THEN best ELSE seen[v]] = seen
          BY <4>1, <5>2
        <5> QED
          BY <5>1, <5>3 DEF seen
      <4> QED
        BY <4>2, <4>3
    <3>13. \A v \in Ids : (IF v = w THEN best ELSE held.dates[v]) = (IF v \in DOMAIN now THEN now[v].premiere ELSE NoDate)
      BY <3>8, <3>10
    <3> QED
      BY <3>9, <3>12, <3>13 DEF DatesOf
  <2> QED
    BY <2>3, <2>4
<1> QED
  BY <1>3, <1>12, <1>16, <1>19, <1>22, <1>23 DEF PInv, ToldDates, AllStand, DatesOf

\* A rematch of n mentions so far: the works that were there are as they were, and those it
\* made have no date.
Remade(state, was, first, n) ==
    /\ state.made \in first .. first + n
    /\ \A w \in DOMAIN was : w \in DOMAIN state.works /\ state.works[w] = was[w]
    /\ \A w \in DOMAIN state.works : w \in DOMAIN was \/ (w > first /\ state.works[w].premiere = NoDate)

\* Each mention makes at most one more.
LEMMA RematchOneMakes ==
    ASSUME canonicalOf \in [Composers -> Composers], NEW pending \in SUBSET Mentions,
           NEW was, NEW first \in Nat, NEW state, Rematching(state, pending, was, first), NEW m \in pending,
           NEW n \in Nat, Remade(state, was, first, n)
    PROVE  Remade(RematchOne(state, m), was, first, n + 1)
<1>1. PICK ws, ms, k, groups : ws = state.works /\ ms = state.mentions /\ k = state.made /\ groups = state.groups
  OBVIOUS
<1>2. PICK d : d = ms[m].doc
  OBVIOUS
<1>3. d \in Docs
  BY <1>1, <1>2 DEF Rematching, MentionRow
<1>4. PICK key \in Groups : key = Key(canonicalOf, d.composer)
  BY <1>3, KeysAreGroups
<1>5. PICK f, r : f = MentionFeatures(d) /\ r = Decide(f, groups[key], k + 1)
  OBVIOUS
<1>6. /\ k \in Nat /\ DOMAIN ws \subseteq 1 .. k /\ TypedWorks(ws) /\ Catalogue(groups[key])
  BY <1>1, <1>4 DEF Rematching, Silver, Knows
<1>7. r.status = "created" => r.work = k + 1
  BY <1>3, <1>5, <1>6, MentionFeaturesAre, DecisionsAre
<1>8. RematchOne(state, m) = RematchAs(state, m, r)
  BY <1>1, <1>2, <1>4, <1>5 DEF RematchOne
<1>9. PICK now, more : now = EnteredBy(ws, d, r) /\ more = MadeBy(k, r)
  OBVIOUS
<1>10. RematchAs(state, m, r).works = now /\ RematchAs(state, m, r).made = more
  BY <1>1, <1>2, <1>9 DEF RematchAs, EnteredBy, MadeBy
<1>11. /\ k \in first .. first + n
       /\ \A w \in DOMAIN was : w \in DOMAIN ws /\ ws[w] = was[w]
       /\ \A w \in DOMAIN ws : w \in DOMAIN was \/ (w > first /\ ws[w].premiere = NoDate)
  BY <1>1 DEF Remade
<1>12. more \in first .. first + (n + 1)
  BY <1>6, <1>9, <1>11 DEF MadeBy
<1>13. Entered(now, ws, k, d, r)
  BY <1>3, <1>6, <1>7, <1>9, EnteredAre
<1>14. \A w \in DOMAIN was : w \in DOMAIN now /\ now[w] = was[w]
  BY <1>11, <1>13 DEF Entered
<1>15. ASSUME NEW w \in DOMAIN now PROVE w \in DOMAIN was \/ (w > first /\ now[w].premiere = NoDate)
  <2>1. CASE w \in DOMAIN ws
    BY <1>11, <1>13, <2>1 DEF Entered
  <2>2. CASE w \notin DOMAIN ws
    <3>1. r.status = "created" /\ w = k + 1
      BY <1>13, <1>15, <2>2 DEF Entered
    <3>2. PICK row : row = WorkFor(d)
      OBVIOUS
    <3>3. now = Put(ws, k + 1, row)
      BY <1>7, <1>9, <3>1, <3>2 DEF EnteredBy
    <3>4. now[w] = row
      BY <3>1, <3>3 DEF Put
    <3>5. row.premiere = NoDate
      BY <3>2 DEF WorkFor
    <3> QED
      BY <1>6, <1>11, <3>1, <3>4, <3>5
  <2> QED
    BY <2>1, <2>2
<1> QED
  BY <1>8, <1>10, <1>12, <1>14, <1>15 DEF Remade

\* All of them make no more than there are.
LEMMA RematchAllMakes ==
    ASSUME canonicalOf \in [Composers -> Composers], NEW pending \in SUBSET Mentions,
           NEW was, NEW first \in Nat, NEW N \in Nat, NEW order \in [1 .. N -> pending],
           NEW start, Rematching(start, pending, was, first), Remade(start, was, first, 0)
    PROVE  Remade(RematchAll(start, order), was, first, N)
<1>1. Len(order) = N
  <2>1. order \in Seq(pending) /\ DOMAIN order = 1 .. N
    OBVIOUS
  <2> QED
    BY <2>1
<1>2. \E f : AreRematches(f, order, start, N)
  BY RematchRuns
<1> DEFINE after == CHOOSE f : AreRematches(f, order, start, N)
<1>3. RematchAll(start, order) = after[N]
  BY <1>1 DEF RematchAll, AreRematches
<1>4. after = [n \in 0 .. N |-> IF n = 0 THEN start ELSE RematchOne(after[n - 1], order[n])]
  <2>1. AreRematches(after, order, start, N)
    BY <1>2, Zenon
  <2> HIDE DEF after
  <2> QED
    BY <2>1 DEF AreRematches
<1> HIDE DEF after
<1> DEFINE good == {n \in 0 .. N : Rematching(after[n], pending, was, first) /\ Remade(after[n], was, first, n)}
<1>5. 0 \in good
  BY <1>4
<1>6. ASSUME NEW n \in 0 .. N - 1, n \in good PROVE n + 1 \in good
  <2>1. n + 1 \in 0 .. N /\ n + 1 # 0 /\ (n + 1) - 1 = n /\ n + 1 \in 1 .. N /\ n \in Nat
    OBVIOUS
  <2>2. after[n + 1] = RematchOne(after[n], order[n + 1])
    BY <1>4, <2>1
  <2>3. order[n + 1] \in pending
    BY <2>1
  <2>4. Rematching(after[n], pending, was, first) /\ Remade(after[n], was, first, n)
    BY <1>6
  <2>5. Rematching(RematchOne(after[n], order[n + 1]), pending, was, first)
    BY <2>3, <2>4, RematchOneKeeps
  <2>6. Remade(RematchOne(after[n], order[n + 1]), was, first, n + 1)
    BY <2>1, <2>3, <2>4, RematchOneMakes
  <2> QED
    BY <2>1, <2>2, <2>5, <2>6
<1>7. good \in SUBSET (0 .. N)
  OBVIOUS
<1> HIDE DEF good
<1>8. N \in good
  BY <1>5, <1>6, <1>7, UpTo
<1> QED
  BY <1>3, <1>8 DEF good

\* A rematch dates no work.
LEMMA RematchStands == ASSUME IInv, PInv, Rematch PROVE PInv'
<1>24. load' = load /\ told' = told
  BY DEF Rematch
<1>25. ~overlapped' => ~overlapped /\ load' = Absent
  <2>1. overlapped' = (overlapped \/ load # Absent)
    BY DEF Rematch, Command, Overlaps
  <2> QED
    BY <1>24, <2>1
<1> DEFINE pending == {m \in Mentions : mentions[m] # Absent /\ mentions[m].status = "needs_review"}
           start(rows) == [works |-> works, stored |-> stored, mentions |-> mentions, made |-> made,
                           groups |-> InGroups(rows, canonicalOf)]
<1>1. PICK end \in {RematchAll(start(rows), order) : rows \in Listings, order \in SetToSeqs(pending)} :
        works' = end.works /\ made' = end.made
  BY DEF Rematch
<1>2. PICK rows \in Listings, order \in SetToSeqs(pending) : end = RematchAll(start(rows), order)
  OBVIOUS
<1>3. made + Cardinality(pending) <= MaxWorks
  BY DEF Rematch
<1>4. PICK N \in Nat : N = Cardinality(pending)
  <2>1. IsFiniteSet(pending)
    BY MentionsAssumption, FS_Subset
  <2> HIDE DEF pending
  <2>2. Cardinality(pending) \in Nat
    BY <2>1, FS_CardinalityType
  <2> QED
    BY <2>2
<1>5. order \in [1 .. N -> pending]
  BY <1>2, <1>4 DEF SetToSeqs
<1>6. PICK groups : groups = InGroups(rows, canonicalOf)
  OBVIOUS
<1> DEFINE began == [works |-> works, stored |-> stored, mentions |-> mentions, made |-> made, groups |-> groups]
<1>7. /\ began.works = works /\ began.stored = stored /\ began.mentions = mentions
      /\ began.made = made /\ began.groups = groups
  OBVIOUS
<1>8. \A m \in pending : mentions[m] \in MentionRow
  BY DEF IInv, Silver, SoundMentions
<1>9. began = start(rows)
  BY <1>6
<1>10. pending \in SUBSET Mentions
  OBVIOUS
<1> HIDE DEF pending, began, start
<1>11. made \in Nat /\ DOMAIN works \subseteq 1 .. made /\ canonicalOf \in [Composers -> Composers]
  BY DEF IInv, Silver
<1>12. Rematching(began, pending, works, made)
  <2>1. DOMAIN groups = Groups
        /\ \A k \in Groups : Knows(works, made, groups[k]) /\ DOMAIN groups[k] \subseteq DOMAIN works
    BY <1>6, GroupsAre DEF IInv
  <2> QED
    BY <1>7, <1>8, <1>11, <2>1 DEF Rematching, IInv
<1>13. Remade(began, works, made, 0)
  BY <1>7, <1>11 DEF Remade
<1>14. Remade(RematchAll(began, order), works, made, N)
  BY <1>4, <1>5, <1>10, <1>11, <1>12, <1>13, RematchAllMakes
<1>15. Remade(end, works, made, N)
  BY <1>2, <1>9, <1>14
<1>16. PICK now, more, ts : now = works' /\ more = made' /\ ts = told
  OBVIOUS
<1>17. /\ more \in made .. made + N
       /\ \A w \in DOMAIN works : w \in DOMAIN now /\ now[w] = works[w]
       /\ \A w \in DOMAIN now : w \in DOMAIN works \/ (w > made /\ now[w].premiere = NoDate)
  BY <1>1, <1>15, <1>16 DEF Remade
<1>18. ToldDates(ts, made)
  BY <1>16 DEF PInv, ToldDates, AllStand, DatesOf
<1>19. more \in Nat /\ made <= more /\ more <= MaxWorks
  <2>1. made + N <= MaxWorks /\ MaxWorks \in Nat
    BY <1>3, <1>4, BoundsAssumption
  <2> QED
    BY <1>11, <1>17, <2>1
<1>20. ToldDates(ts, more)
  BY <1>11, <1>18, <1>19 DEF ToldDates, Ids
<1>21. DOMAIN now \subseteq Ids
  <2>1. IInv'
    BY RematchSound
  <2>2. DOMAIN now \subseteq 1 .. more
    BY <1>16, <2>1 DEF IInv, Silver
  <2> QED
    BY <1>19, <2>2, BoundsAssumption DEF Ids
<1>22. ASSUME AllStand(works, ts) PROVE AllStand(now, ts)
  <2> SUFFICES ASSUME NEW w \in DOMAIN now PROVE Stands(now[w].premiere, ts[w])
    BY DEF AllStand
  <2>1. CASE w \in DOMAIN works
    BY <1>17, <1>22, <2>1 DEF AllStand
  <2>2. CASE w \notin DOMAIN works
    <3>1. now[w].premiere = NoDate /\ ts[w] = {}
      BY <1>17, <1>18, <1>21, <2>2 DEF ToldDates
    <3> QED
      BY <3>1 DEF Stands
  <2> QED
    BY <2>1, <2>2
<1>23. ~overlapped' => AllStand(now, ts) /\ load' = Absent
  <2>1. ~overlapped => AllStand(works, ts)
    BY <1>16 DEF PInv, AllStand, ToldDates, DatesOf
  <2> QED
    BY <1>22, <1>25, <2>1
<1> QED
  BY <1>24, <1>16, <1>20, <1>23 DEF PInv, ToldDates, AllStand, DatesOf

\* Nor does a reviewer.
LEMMA NewWorkStands == ASSUME IInv, PInv, NEW m \in Mentions, NewWork(m) PROVE PInv'
<1>1. /\ made < MaxWorks /\ made' = made + 1
      /\ works' = Put(works, made', WorkFor(mentions[m].doc))
      /\ overlapped' = (overlapped \/ load # Absent) /\ load' = load /\ told' = told
  BY DEF NewWork, Command, Overlaps
<1>2. PICK ws, n, ts, row, now : ws = works /\ n = made /\ ts = told /\ row = WorkFor(mentions[m].doc) /\ now = works'
  OBVIOUS
<1>3. n \in Nat /\ DOMAIN ws \subseteq 1 .. n
  BY <1>2 DEF IInv, Silver
<1>4. row.premiere = NoDate
  BY <1>2 DEF WorkFor
<1>5. DOMAIN now = DOMAIN ws \union {n + 1} /\ now[n + 1] = row /\ \A w \in DOMAIN ws : now[w] = ws[w]
  BY <1>1, <1>2, <1>3 DEF Put
<1>6. ToldDates(ts, n)
  BY <1>2 DEF PInv, ToldDates, AllStand, DatesOf
<1>7. n + 1 \in Ids /\ n + 1 <= MaxWorks /\ ts[n + 1] = {}
  BY <1>1, <1>2, <1>3, <1>6, BoundsAssumption DEF Ids, ToldDates
<1>8. ToldDates(ts, n + 1)
  BY <1>3, <1>6, <1>7 DEF ToldDates, Ids
<1>9. AllStand(ws, ts) => AllStand(now, ts)
  BY <1>4, <1>5, <1>7 DEF AllStand, Stands
<1>10. ~overlapped' => AllStand(now, ts) /\ load' = Absent
  BY <1>1, <1>2, <1>9 DEF PInv, AllStand, ToldDates, DatesOf
<1> QED
  BY <1>1, <1>2, <1>8, <1>10 DEF PInv, ToldDates, AllStand, DatesOf

\* A fold gives what was told of the works that go to the one they go to, and the date that stands.
LEMMA FoldStands == ASSUME IInv, PInv, Fold PROVE PInv'
<1>1. PICK rows \in Listings : \E merges \in {Merges(rows, canonicalOf)} :
        \E final \in {Resolve(merges.all)} : FoldAlong(merges, final)
  BY DEF Fold
<1>2. PICK merges, final : merges = Merges(rows, canonicalOf) /\ final = Resolve(merges.all) /\ FoldAlong(merges, final)
  BY <1>1
<1>3. UNCHANGED <<made, load>> /\ overlapped' = (overlapped \/ load # Absent)
  BY DEF Fold, Overlaps
<1>4. Silver(works, stored, mentions, made)
  BY DEF IInv
<1>5. Folding(final)
  BY <1>2, <1>4, MergesFold
<1>6. made \in Nat /\ DOMAIN works \subseteq 1 .. made /\ TypedWorks(works) /\ DOMAIN works \subseteq Ids
  BY <1>4, BoundsAssumption DEF Silver, PInv, Ids, ToldDates, AllStand, DatesOf
<1>7. PICK now, ts : now = works' /\ ts = told'
  OBVIOUS
<1>8. /\ now = [w \in DOMAIN works \ DOMAIN final |-> [works[w] EXCEPT !.premiere = MovePremiere(w, final)]]
      /\ ts = [w \in Ids |-> IF w \in DOMAIN final THEN {}
                             ELSE UNION {told[v] : v \in {w} \union {s \in DOMAIN final : final[s] = w}}]
  BY <1>2, <1>7 DEF FoldAlong
<1>9. ToldDates(told, made)
  BY DEF PInv, ToldDates, AllStand, DatesOf
<1>10. DOMAIN final \subseteq Ids /\ \A v \in DOMAIN final : final[v] \in 1 .. made
  BY <1>5, <1>6 DEF Folding
<1>11. ToldDates(ts, made)
  <2>1. ASSUME NEW w \in Ids, NEW d \in ts[w] PROVE IsDate(d)
    <3>1. PICK v \in {w} \union {s \in DOMAIN final : final[s] = w} : d \in told[v]
      BY <1>8, <2>1
    <3> QED
      BY <1>9, <1>10, <3>1 DEF ToldDates
  <2>2. ASSUME NEW w \in Ids, w > made PROVE ts[w] = {}
    <3>1. {s \in DOMAIN final : final[s] = w} = {} /\ told[w] = {}
      BY <1>6, <1>9, <1>10, <2>2 DEF ToldDates, Ids
    <3>2. UNION {told[v] : v \in {w} \union {}} = {}
      BY <3>1
    <3> QED
      BY <1>8, <3>1, <3>2
  <2> QED
    BY <1>8, <1>9, <2>1, <2>2 DEF ToldDates
<1>12. ASSUME AllStand(works, told) PROVE AllStand(now, ts)
  <2> SUFFICES ASSUME NEW w \in DOMAIN now PROVE Stands(now[w].premiere, ts[w])
    BY DEF AllStand
  <2>1. w \in DOMAIN works \ DOMAIN final /\ w \in Ids
    BY <1>6, <1>8
  <2>2. PICK date : date = MovePremiere(w, final)
    OBVIOUS
  <2>3. now[w].premiere = date
    <3>1. now[w] = [works[w] EXCEPT !.premiere = date]
      BY <1>8, <2>1, <2>2
    <3>2. DOMAIN works[w] = {"composer", "title", "premiere"}
      BY <1>6, <2>1 DEF TypedWorks
    <3> QED
      BY <3>1, <3>2
  <2>4. Stands(date, ToldOf(w, final, MaxWorks))
    <3>1. \A v \in DOMAIN works : Stands(works[v].premiere, told[v])
      BY <1>12 DEF AllStand
    <3>2. \A v \in Ids : \A d \in told[v] : IsDate(d)
      BY <1>9 DEF ToldDates
    <3> QED
      BY <1>5, <1>6, <2>1, <2>2, <3>1, <3>2, FoldPremieres
  <2>5. ts[w] = ToldOf(w, final, MaxWorks)
    <3>1. {s \in 1 .. MaxWorks : s \in DOMAIN final /\ final[s] = w} = {s \in DOMAIN final : final[s] = w}
      BY <1>10 DEF Ids
    <3>2. ts[w] = UNION {told[v] : v \in {w} \union {s \in DOMAIN final : final[s] = w}}
      BY <1>8, <2>1
    <3> QED
      BY <3>1, <3>2 DEF ToldOf
  <2> QED
    BY <2>3, <2>4, <2>5
<1>13. ~overlapped' => AllStand(now, ts) /\ load' = Absent
  BY <1>3, <1>12 DEF PInv, AllStand, ToldDates, DatesOf
<1> QED
  BY <1>3, <1>7, <1>11, <1>13 DEF PInv, ToldDates, AllStand, DatesOf

\* Every step keeps the dates.
LEMMA PremiereStep == ASSUME Enforced, IInv, PInv, [Next]_vars PROVE PInv'
<1>1. CASE StartLoad
  <2>1. UNCHANGED <<works, made, told, overlapped>>
    BY <1>1 DEF StartLoad, db, history
  <2>2. PICK dates : dates = [w \in Ids |-> IF w \in DOMAIN works THEN works[w].premiere ELSE NoDate]
    OBVIOUS
  <2>3. load'.dates = dates
    BY <1>1, <2>2 DEF StartLoad
  <2> QED
    BY <2>1, <2>2, <2>3 DEF PInv, ToldDates, AllStand, DatesOf
<1>2. CASE EndLoad
  BY <1>2 DEF EndLoad, PInv, db, history, ToldDates, AllStand, DatesOf
<1>3. CASE \E m \in Mentions : \E d \in Feeds[m] : Sight(m, d)
  BY <1>3, SightStands
<1>4. CASE \E m \in Mentions : \E d \in Feeds[m] : SightRefused(m, d)
  BY <1>4 DEF SightRefused, PInv, db, history, ToldDates, AllStand, DatesOf
<1>5. ASSUME UNCHANGED <<works, made, told, load>>, Overlaps PROVE PInv'
  BY <1>5 DEF Overlaps, PInv, ToldDates, AllStand, DatesOf
<1>6. CASE \E m \in Mentions, w \in Ids : Accept(m, w)
  BY <1>5, <1>6 DEF Accept, Command
<1>7. CASE \E m \in Mentions : NewWork(m)
  BY <1>7, NewWorkStands
<1>8. CASE Rematch
  BY <1>8, RematchStands
<1>9. CASE \E k \in Clusterings : Dedupe(k)
  BY <1>5, <1>9 DEF Dedupe, Command
<1>10. CASE Fold
  BY <1>10, FoldStands
<1>11. CASE UNCHANGED vars
  BY <1>11 DEF vars, db, history, PInv, ToldDates, AllStand, DatesOf
<1> QED
  BY <1>1, <1>2, <1>3, <1>4, <1>6, <1>7, <1>8, <1>9, <1>10, <1>11 DEF Next

\* The premiere of a work is the earliest, most precise one ever told of it or of what folded
\* into it, in whatever order loads, reviewers and folds told it.
THEOREM Premieres == ASSUME Enforced PROVE Spec => []PremiereIsBest
<1>1. Init => PInv
  BY BoundsAssumption DEF Init, PInv, Ids, ToldDates, AllStand, DatesOf
<1>2. IInv /\ PInv /\ [Next]_vars => PInv'
  BY PremiereStep
<1>3. PInv => PremiereIsBest
  BY DEF PInv, PremiereIsBest, Stands, Precedes, ToldDates, AllStand, DatesOf
<1> QED
  BY <1>1, <1>2, <1>3, Soundness, PTL DEF Spec
=============================================================================
