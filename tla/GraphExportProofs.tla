------------------------- MODULE GraphExportProofs -------------------------
(***************************************************************************)
(* Proofs about promotes (GoldPromote) and about the exports beside them   *)
(* (GraphExport).  The operators of GoldCuration come first: what each     *)
(* phase leaves of the inductive invariant, on any silver whose references *)
(* stand; then the steps of a promote, of an export, and the theorems.     *)
(***************************************************************************)
EXTENDS GraphExport, TLAPS

----------------------------------------------------------------------------
(* What a phase selects *)

\* A spelling's root is a row of its kind, and its own root.
LEMMA RootLemma ==
    ASSUME NEW s, NEW b, Stands(s), RootsOf(s, b)
    PROVE  /\ Root(b, None) = None
           /\ \A e \in DOMAIN s.kinds :
                /\ Root(b, e) \in DOMAIN s.kinds
                /\ s.kinds[Root(b, e)] = s.kinds[e]
                /\ Root(b, Root(b, e)) = Root(b, e)
  BY DEF Stands, RootsOf, Root

\* A new build has selected nothing.
LEMMA OpenSelects ==
    ASSUME NEW s, NEW config, Stands(s), NEW b, b \in {NewBuild(s, config), OpenBuild(s, config)}, NEW p \in {"idle", "persons"}
    PROVE  Selection(s, b, p) /\ Recorded(s, b)
<1>1. /\ b.roots \in {s.canonical, NoRows}
      /\ b.persons = OfKind(s, "person") /\ b.ensembles = OfKind(s, "ensemble")
      /\ b.keptRoots = {} /\ b.keptMembers = {} /\ b.keptEnsembles = {} /\ b.unevidenced = {}
      /\ b.other = {} /\ b.frontier = {} /\ b.keptOther = {} /\ b.rows = {}
      /\ DOMAIN b = DOMAIN NewBuild(s, [collapse |-> FALSE])
  BY DEF NewBuild, OpenBuild
<1>2. RootsOf(s, b)
  BY <1>1 DEF RootsOf, Stands, NoRows
<1>3. KeptAreRoots(s, b, p)
  BY <1>1 DEF KeptAreRoots, WalkEnded, WithEntities, WithRecords, WithWorks, WithMentions, WithConcerts, WithRecordings
<1>4. RowsAreKept(b, p)
  BY <1>1 DEF RowsAreKept
<1>5. Recorded(s, b)
  BY <1>1 DEF Recorded
<1> QED BY <1>1, <1>2, <1>3, <1>4, <1>5 DEF Selection

LEMMA SelectPersonsSelects ==
    ASSUME NEW s, NEW b, Stands(s), Selection(s, b, "persons")
    PROVE  Selection(s, SelectPersons(s, b), "ensembles") /\ Recorded(s, SelectPersons(s, b))
<1> DEFINE n == SelectPersons(s, b)
<1>1. /\ DOMAIN n = DOMAIN b /\ n.roots = b.roots /\ n.persons = b.persons /\ n.ensembles = b.ensembles
      /\ n.keptEnsembles = b.keptEnsembles /\ n.unevidenced = b.unevidenced
      /\ n.other = b.other /\ n.frontier = b.frontier /\ n.keptOther = b.keptOther /\ n.rows = b.rows
      /\ n.keptMembers = {p \in b.persons : Root(b, p) \in n.keptRoots}
  BY DEF SelectPersons, Selection, NewBuild
<1>2. n.keptRoots \subseteq Roots(b, b.persons)
  BY DEF SelectPersons, Selection, NewBuild, ComposerRoots, AppearanceRoots, SitelinkRoots, Roots
<1>3. \A e : Root(n, e) = Root(b, e)
  BY <1>1 DEF Root
<1>4. RootsOf(s, n)
  BY <1>1 DEF RootsOf, Selection
<1>5. KeptAreRoots(s, n, "ensembles")
  BY <1>1, <1>2, <1>3 DEF KeptAreRoots, Selection, Roots, WalkEnded, WithEntities, WithRecords, WithWorks, WithMentions, WithConcerts, WithRecordings
<1>6. RowsAreKept(n, "ensembles") /\ Recorded(s, n)
  BY <1>1 DEF RowsAreKept, Recorded, Selection, KeptAreRoots
<1> QED BY <1>1, <1>4, <1>5, <1>6 DEF Selection

LEMMA SelectEnsemblesSelects ==
    ASSUME NEW s, NEW b, Stands(s), Selection(s, b, "ensembles")
    PROVE  Selection(s, SelectEnsembles(b), "runs") /\ Recorded(s, SelectEnsembles(b))
<1> DEFINE n == SelectEnsembles(b)
<1>1. /\ DOMAIN n = DOMAIN b /\ n.roots = b.roots /\ n.persons = b.persons /\ n.ensembles = b.ensembles
      /\ n.keptRoots = b.keptRoots /\ n.keptMembers = b.keptMembers
      /\ n.other = b.other /\ n.frontier = b.frontier /\ n.keptOther = b.keptOther /\ n.rows = b.rows
      /\ n.unevidenced = Roots(b, b.ensembles) \ n.keptEnsembles
  BY DEF SelectEnsembles, Selection, NewBuild
<1>2. n.keptEnsembles \subseteq Roots(b, b.ensembles)
  BY DEF SelectEnsembles, Selection, NewBuild, AppearanceRoots, Roots
<1>3. \A e : Root(n, e) = Root(b, e)
  BY <1>1 DEF Root
<1>4. RootsOf(s, n)
  BY <1>1 DEF RootsOf, Selection
<1>5. KeptAreRoots(s, n, "runs")
  BY <1>1, <1>2, <1>3 DEF KeptAreRoots, Selection, Roots, WalkEnded, WithEntities, WithRecords, WithWorks, WithMentions, WithConcerts, WithRecordings
<1>6. RowsAreKept(n, "runs") /\ Recorded(s, n)
  BY <1>1 DEF RowsAreKept, Recorded, Selection, KeptAreRoots
<1> QED BY <1>1, <1>4, <1>5, <1>6 DEF Selection

\* What is kept and no person is not in the way of a person: roots keep their kinds.
LEMMA KeptLemma ==
    ASSUME NEW s, NEW b, NEW p, Stands(s), RootsOf(s, b), KeptAreRoots(s, b, p)
    PROVE  /\ Kept(b) \subseteq {e \in DOMAIN s.kinds : Root(b, e) = e}
           /\ Kept(b) \intersect b.unevidenced = {}
           /\ None \notin Kept(b)
           /\ b.persons \subseteq DOMAIN s.kinds /\ b.ensembles \subseteq DOMAIN s.kinds
<1>1. b.persons \subseteq DOMAIN s.kinds /\ b.ensembles \subseteq DOMAIN s.kinds
  BY DEF RootsOf, OfKind
<1>2. b.keptRoots \subseteq {e \in DOMAIN s.kinds : Root(b, e) = e /\ s.kinds[e] = "person"}
  BY RootLemma DEF KeptAreRoots, Roots, RootsOf, OfKind
<1>3. ASSUME NEW e \in b.unevidenced PROVE s.kinds[e] = "ensemble"
  <2>1. PICK x \in b.ensembles : e = Root(b, x)
    BY DEF KeptAreRoots, Roots
  <2>2. x \in DOMAIN s.kinds /\ s.kinds[x] = "ensemble"
    BY DEF RootsOf, OfKind
  <2> QED BY <2>1, <2>2 DEF Root, RootsOf
<1>4. None \notin DOMAIN s.kinds
  BY DEF Stands
<1> QED BY <1>1, <1>2, <1>3, <1>4 DEF Kept, KeptAreRoots

\* The claims of kept persons become rows, and what they speak of is where the walk begins.
LEMMA CollectSelects ==
    ASSUME NEW s, NEW b, Stands(s), Selection(s, b, "claims")
    PROVE  Selection(s, CollectPersonClaims(s, b), "walk") /\ Recorded(s, CollectPersonClaims(s, b))
<1> DEFINE n == CollectPersonClaims(s, b)
<1> USE DEF Selection
<1>1. /\ DOMAIN n = DOMAIN b /\ n.roots = b.roots /\ n.persons = b.persons /\ n.ensembles = b.ensembles
      /\ n.keptRoots = b.keptRoots /\ n.keptMembers = b.keptMembers /\ n.keptEnsembles = b.keptEnsembles
      /\ n.unevidenced = b.unevidenced /\ n.keptOther = b.keptOther
      /\ n.rows = PersonRows(s, b) /\ n.other \subseteq DOMAIN s.kinds
      /\ n.frontier \subseteq (Referenced(b, PersonRows(s, b)) \union Roots(b, {l.entity : l \in s.workEntities})
                               \union b.keptEnsembles) \ b.unevidenced
  BY DEF CollectPersonClaims, NewBuild
<1>2. \A e : Root(n, e) = Root(b, e)
  BY <1>1 DEF Root
<1>3. RootsOf(s, n)
  BY <1>1 DEF RootsOf
<1>4. \A row \in PersonRows(s, b) : \E c \in s.claims : row = Row(b, c) /\ c.subject \in b.keptMembers
  BY DEF PersonRows
<1>5. Referenced(b, PersonRows(s, b)) \subseteq {e \in DOMAIN s.kinds : Root(b, e) = e}
  <2> SUFFICES ASSUME NEW e \in Referenced(b, PersonRows(s, b)) PROVE e \in DOMAIN s.kinds /\ Root(b, e) = e
    OBVIOUS
  <2>1. PICK row \in PersonRows(s, b) : row.object = e /\ e # None
    BY DEF Referenced
  <2>2. PICK c \in s.claims : row = Row(b, c)
    BY <1>4
  <2>3. e = Root(b, c.object) /\ c.object \in DOMAIN s.kinds \union {None}
    BY <2>1, <2>2 DEF Row, Stands
  <2> QED BY <2>1, <2>3, RootLemma
<1>6. Roots(b, {l.entity : l \in s.workEntities}) \subseteq {e \in DOMAIN s.kinds : Root(b, e) = e}
  BY RootLemma DEF Roots, Stands
<1>7. b.keptEnsembles \subseteq {e \in DOMAIN s.kinds : Root(b, e) = e}
  BY RootLemma, KeptLemma DEF KeptAreRoots, Roots
<1>8. KeptAreRoots(s, n, "walk")
  BY <1>1, <1>2, <1>5, <1>6, <1>7 DEF KeptAreRoots, Roots, WalkEnded, WithEntities, WithRecords, WithWorks, WithMentions, WithConcerts, WithRecordings
<1>9. RowsAreKept(n, "walk") /\ Recorded(s, n)
  <2> SUFFICES ASSUME NEW row \in n.rows
               PROVE  /\ row.subject \in Kept(n)
                      /\ row.record # None => \E r \in s.records : r.id = row.record /\ r.entity \in RecordOwners(n)
    BY DEF RowsAreKept, Recorded, WithEntities, WithRecords, WithWorks, WithMentions, WithConcerts, WithRecordings
  <2>1. PICK c \in s.claims : row = Row(b, c) /\ c.subject \in b.keptMembers
    BY <1>1, <1>4
  <2>2. row.subject = Root(b, c.subject) /\ row.record = c.record
    BY <2>1 DEF Row
  <2>3. row.subject \in Kept(n)
    BY <1>1, <2>1, <2>2 DEF Kept, KeptAreRoots
  <2>4. c.record # None => \E r \in s.records : r.id = c.record /\ r.entity = c.subject
    BY DEF Stands
  <2>5. c.subject \in RecordOwners(n)
    BY <1>1, <2>1 DEF RecordOwners
  <2> QED BY <2>2, <2>3, <2>4, <2>5
<1> QED BY <1>1, <1>3, <1>8, <1>9

\* A round of the walk goes on to roots, and past persons and ensembles without a credit.
LEMMA WalkRoundSelects ==
    ASSUME NEW s, NEW b, Stands(s), Selection(s, b, "walk")
    PROVE  /\ Selection(s, WalkRound(s, b), "walk")
           /\ Recorded(s, b) => Recorded(s, WalkRound(s, b))
<1> DEFINE n == WalkRound(s, b)
<1> USE DEF Selection
<1>1. /\ DOMAIN n = DOMAIN b /\ n.roots = b.roots /\ n.persons = b.persons /\ n.ensembles = b.ensembles
      /\ n.keptRoots = b.keptRoots /\ n.keptMembers = b.keptMembers /\ n.keptEnsembles = b.keptEnsembles
      /\ n.unevidenced = b.unevidenced /\ n.other = b.other
      /\ n.keptOther = b.keptOther \union b.frontier
      /\ n.frontier \subseteq {Root(b, c.object) : c \in Walked(s, b)}
      /\ n.rows = b.rows \union {[Row(b, c) EXCEPT !.subject = c.subject] : c \in Walked(s, b)}
  BY DEF WalkRound, NewBuild
<1>2. \A e : Root(n, e) = Root(b, e)
  BY <1>1 DEF Root
<1>3. RootsOf(s, n)
  BY <1>1 DEF RootsOf
<1>4. \A c \in Walked(s, b) : /\ c \in s.claims /\ c.subject \in b.frontier
                              /\ Root(b, c.object) \in {e \in DOMAIN s.kinds : Root(b, e) = e} \ b.unevidenced
  <2> SUFFICES ASSUME NEW c \in Walked(s, b)
               PROVE  /\ c \in s.claims /\ c.subject \in b.frontier
                      /\ Root(b, c.object) \in {e \in DOMAIN s.kinds : Root(b, e) = e} \ b.unevidenced
    OBVIOUS
  <2>1. /\ c \in s.claims /\ c.subject \in b.frontier /\ c.object # None
        /\ Root(b, c.object) \notin b.unevidenced
    BY DEF Walked
  <2>2. c.object \in DOMAIN s.kinds
    BY <2>1 DEF Stands
  <2> QED BY <2>1, <2>2, RootLemma
<1>5. KeptAreRoots(s, n, "walk")
  BY <1>1, <1>2, <1>4 DEF KeptAreRoots, Roots, WalkEnded, WithEntities, WithRecords, WithWorks, WithMentions, WithConcerts, WithRecordings
<1>6. Kept(b) \subseteq Kept(n) /\ RecordOwners(b) \subseteq RecordOwners(n) /\ b.frontier \subseteq Kept(n) \intersect RecordOwners(n)
  BY <1>1, <1>2 DEF Kept, RecordOwners, EnsembleMembers
<1>7. ASSUME NEW row \in n.rows
      PROVE  /\ row.subject \in Kept(n)
             /\ Recorded(s, b) /\ row.record # None =>
                    \E r \in s.records : r.id = row.record /\ r.entity \in RecordOwners(n)
  <2>1. CASE row \in b.rows
    BY <2>1, <1>6 DEF RowsAreKept, Recorded
  <2>2. CASE row \notin b.rows
    <3>1. PICK c \in Walked(s, b) : row = [Row(b, c) EXCEPT !.subject = c.subject]
      BY <1>1, <2>2
    <3>2. row.subject = c.subject /\ row.record = c.record
      BY <3>1 DEF Row
    <3>3. c.record # None => \E r \in s.records : r.id = c.record /\ r.entity = c.subject
      BY <1>4 DEF Stands
    <3> QED BY <3>2, <3>3, <1>4, <1>6
  <2> QED BY <2>1, <2>2
<1>8. RowsAreKept(n, "walk") /\ (Recorded(s, b) => Recorded(s, n))
  BY <1>7 DEF RowsAreKept, Recorded, WithEntities, WithRecords, WithWorks, WithMentions, WithConcerts, WithRecordings
<1> QED BY <1>1, <1>3, <1>5, <1>8

\* The walk over, the ensembles on a programme are kept for that alone.
LEMMA WalkEndSelects ==
    ASSUME NEW s, NEW b, Stands(s), Selection(s, b, "walk")
    PROVE  /\ Selection(s, WalkEnd(b), "literals")
           /\ Recorded(s, b) => Recorded(s, WalkEnd(b))
<1> DEFINE n == WalkEnd(b)
<1> USE DEF Selection
<1>1. /\ DOMAIN n = DOMAIN b /\ n.roots = b.roots /\ n.persons = b.persons /\ n.ensembles = b.ensembles
      /\ n.keptRoots = b.keptRoots /\ n.keptMembers = b.keptMembers /\ n.keptEnsembles = b.keptEnsembles
      /\ n.unevidenced = b.unevidenced /\ n.other = b.other /\ n.frontier = b.frontier /\ n.rows = b.rows
      /\ b.keptOther \union (b.keptEnsembles \ b.keptRoots) \subseteq n.keptOther
      /\ n.keptOther \subseteq b.keptOther \union (Roots(b, b.other) \ b.unevidenced) \union b.keptEnsembles
  BY DEF WalkEnd, NewBuild
<1>2. \A e : Root(n, e) = Root(b, e)
  BY <1>1 DEF Root
<1>3. RootsOf(s, n)
  BY <1>1 DEF RootsOf
<1>4. Roots(b, b.other) \union b.keptEnsembles \subseteq {e \in DOMAIN s.kinds : Root(b, e) = e}
  BY RootLemma, KeptLemma DEF KeptAreRoots, Roots
<1>5. KeptAreRoots(s, n, "literals")
  BY <1>1, <1>2, <1>4 DEF KeptAreRoots, Roots, Kept
<1>6. Kept(b) \subseteq Kept(n) /\ RecordOwners(b) \subseteq RecordOwners(n)
  BY <1>1, <1>2 DEF Kept, RecordOwners, EnsembleMembers
<1>7. RowsAreKept(n, "literals") /\ (Recorded(s, b) => Recorded(s, n))
  BY <1>1, <1>6 DEF RowsAreKept, Recorded, WithEntities, WithRecords, WithWorks, WithMentions, WithConcerts, WithRecordings
<1> QED BY <1>1, <1>3, <1>5, <1>7

\* Literals are of what is kept, and of the spellings folded onto a kept ensemble.
LEMMA LiteralsSelect ==
    ASSUME NEW s, NEW b, Stands(s), Selection(s, b, "literals")
    PROVE  /\ Selection(s, CollectLiterals(s, b), "others")
           /\ Recorded(s, b) => Recorded(s, CollectLiterals(s, b))
<1> DEFINE n == CollectLiterals(s, b)
           new == {Row(b, c) : c \in {c \in s.claims :
                    c.object = None /\ c.subject \in b.keptOther \union EnsembleMembers(b)}}
<1> USE DEF Selection
<1>1. /\ DOMAIN n = DOMAIN b /\ n.roots = b.roots /\ n.persons = b.persons /\ n.ensembles = b.ensembles
      /\ n.keptRoots = b.keptRoots /\ n.keptMembers = b.keptMembers /\ n.keptEnsembles = b.keptEnsembles
      /\ n.unevidenced = b.unevidenced /\ n.other = b.other /\ n.frontier = b.frontier /\ n.keptOther = b.keptOther
      /\ n.rows = b.rows \union new
  BY DEF CollectLiterals, NewBuild
<1>2. \A e : Root(n, e) = Root(b, e)
  BY <1>1 DEF Root
<1>3. RootsOf(s, n)
  BY <1>1 DEF RootsOf
<1>4. KeptAreRoots(s, n, "others")
  BY <1>1, <1>2 DEF KeptAreRoots, Roots, Kept, WalkEnded
<1>5. Kept(b) = Kept(n) /\ RecordOwners(b) = RecordOwners(n)
  BY <1>1, <1>2 DEF Kept, RecordOwners, EnsembleMembers
<1>6. ASSUME NEW row \in new
      PROVE  /\ row.subject \in Kept(b)
             /\ row.record # None => \E r \in s.records : r.id = row.record /\ r.entity \in RecordOwners(b)
  <2>1. PICK c \in s.claims : row = Row(b, c) /\ c.subject \in b.keptOther \union EnsembleMembers(b)
    OBVIOUS
  <2>2. row.subject = Root(b, c.subject) /\ row.record = c.record
    BY <2>1 DEF Row
  <2>3. c.record # None => \E r \in s.records : r.id = c.record /\ r.entity = c.subject
    BY DEF Stands
  <2>4. Root(b, c.subject) \in Kept(b)
    BY <2>1 DEF EnsembleMembers, KeptAreRoots, Kept, WalkEnded
  <2> QED BY <2>1, <2>2, <2>3, <2>4 DEF RecordOwners
<1>7. RowsAreKept(n, "others") /\ (Recorded(s, b) => Recorded(s, n))
  BY <1>1, <1>5, <1>6 DEF RowsAreKept, Recorded, WithEntities, WithRecords, WithWorks, WithMentions, WithConcerts, WithRecordings
<1> QED BY <1>1, <1>3, <1>4, <1>7

\* Rows that speak of what rule 3 pruned go.
LEMMA DropSelects ==
    ASSUME NEW s, NEW b, Stands(s), Selection(s, b, "others")
    PROVE  /\ Selection(s, DropPrunedObjects(b), "records")
           /\ Recorded(s, b) => Recorded(s, DropPrunedObjects(b))
<1> DEFINE n == DropPrunedObjects(b)
<1> USE DEF Selection
<1>1. /\ DOMAIN n = DOMAIN b /\ n.roots = b.roots /\ n.persons = b.persons /\ n.ensembles = b.ensembles
      /\ n.keptRoots = b.keptRoots /\ n.keptMembers = b.keptMembers /\ n.keptEnsembles = b.keptEnsembles
      /\ n.unevidenced = b.unevidenced /\ n.other = b.other /\ n.frontier = b.frontier /\ n.keptOther = b.keptOther
      /\ n.rows = {p \in b.rows : p.object = None \/ p.object \in Kept(b)}
  BY DEF DropPrunedObjects, NewBuild
<1>2. \A e : Root(n, e) = Root(b, e)
  BY <1>1 DEF Root
<1>3. RootsOf(s, n)
  BY <1>1 DEF RootsOf
<1>4. KeptAreRoots(s, n, "records")
  BY <1>1, <1>2 DEF KeptAreRoots, Roots, Kept, WalkEnded
<1>5. Kept(b) = Kept(n) /\ RecordOwners(b) = RecordOwners(n)
  BY <1>1, <1>2 DEF Kept, RecordOwners, EnsembleMembers
<1>6. RowsAreKept(n, "records") /\ (Recorded(s, b) => Recorded(s, n))
  BY <1>1, <1>5 DEF RowsAreKept, Recorded
<1> QED BY <1>1, <1>3, <1>4, <1>6

\* Phases that copy select nothing.
LEMMA CopiesSelectNothing ==
    ASSUME NEW s, NEW b, NEW p, NEW q, Selection(s, b, p),
           \/ p \in {"idle", "runs", "kept persons", "claims"} /\ q \in {"kept persons", "claims", "idle"}
           \/ p \in WithEntities /\ q \in WithEntities
           \/ q = "idle"
    PROVE  Selection(s, b, q)
  BY DEF Selection, KeptAreRoots, RowsAreKept, WalkEnded, WithEntities, WithRecords, WithWorks, WithMentions, WithConcerts, WithRecordings

\* What is selected stays roots of entities that are there, since no commit deletes one.
LEMMA GrowthKeepsSelection ==
    ASSUME NEW s, NEW t, NEW b, NEW p, Grown(s, t), Selection(s, b, p)
    PROVE  Selection(t, b, p)
<1>1. \A e \in DOMAIN s.kinds : e \in DOMAIN t.kinds /\ t.kinds[e] = s.kinds[e]
  BY DEF Grown
<1>2. OfKind(s, "person") \subseteq OfKind(t, "person") /\ OfKind(s, "ensemble") \subseteq OfKind(t, "ensemble")
  BY <1>1 DEF OfKind
<1>3. RootsOf(t, b)
  BY <1>1, <1>2 DEF RootsOf, Selection
<1>4. KeptAreRoots(t, b, p)
  BY <1>1 DEF KeptAreRoots, Selection
<1>5. DOMAIN b = DOMAIN NewBuild(t, [collapse |-> FALSE])
  BY DEF Selection, NewBuild
<1> QED BY <1>3, <1>4, <1>5 DEF Selection

----------------------------------------------------------------------------
(* What a phase copies *)

\* While nothing is copied, it does not matter what is kept.
LEMMA EmptyIsCurated ==
    ASSUME NEW b, NEW g, NEW p, DOMAIN g = DOMAIN EmptyGold, [g EXCEPT !.made = 0] = EmptyGold, p \notin WithRuns
    PROVE  Curated(b, g, p) /\ RefersToRows(g)
<1>1. /\ g.kinds = NoRows /\ g.claims = {} /\ g.records = {} /\ g.runs = {} /\ g.works = NoRows /\ g.titles = {}
      /\ g.links = {} /\ g.mentions = NoRows /\ g.workEntities = {} /\ g.credits = {} /\ g.items = {}
  BY DEF EmptyGold
<1>2. RefersToRows(g)
  BY <1>1 DEF RefersToRows, NoRows, Range
<1>3. Curated(b, g, p)
  BY <1>1 DEF Curated, NoRows, WithRuns, WithPersons, WalkEnded, WithEntities
<1> QED BY <1>2, <1>3

\* Once more is kept, gold is as curated as it was.
LEMMA KeepingMore ==
    ASSUME NEW b, NEW n, NEW g, NEW p, NEW q, Curated(b, g, p), Kept(b) \subseteq Kept(n),
           \/ p \in Stages \ WithRuns /\ q \in Stages \ WithRuns
           \/ p \in WithPersons \ WithEntities /\ q \in WithPersons \ WithEntities /\ n.keptRoots = b.keptRoots
    PROVE  Curated(n, g, q)
  BY DEF Curated, WithRuns, WithPersons, WalkEnded, WithEntities, WithRecords, WithWorks, WithMentions, WithConcerts, WithRecordings

\* A selection leaves gold as it is.
LEMMA SelectingCopiesNothing ==
    ASSUME NEW s, NEW b, NEW n, NEW g, NEW p, NEW q, Copied(s, b, g, p), Recorded(s, n),
           \/ p \in Stages \ WithRuns /\ q \in Stages \ WithRuns
           \/ p \in WithPersons \ WithEntities /\ q \in WithPersons \ WithEntities
    PROVE  Copied(s, n, g, q)
  BY DEF Copied, WithRuns, WithPersons, WalkEnded, WithEntities, WithRecords, WithWorks, WithMentions, WithConcerts, WithRecordings

LEMMA RunsAreCopied ==
    ASSUME NEW s, NEW b, NEW g, Curated(b, g, "runs"), NEW n, n = [g EXCEPT !.runs = s.runs]
    PROVE  /\ Curated(b, n, "kept persons")
           /\ Copied(s, b, g, "runs") => Copied(s, b, n, "kept persons")
<1>1. "runs" \notin WithRuns /\ "kept persons" \in WithRuns /\ "kept persons" \notin WithPersons
  BY DEF WithRuns, WithPersons, WalkEnded, WithEntities, WithRecords, WithWorks, WithMentions, WithConcerts, WithRecordings
<1>2. [g EXCEPT !.made = 0] = EmptyGold /\ DOMAIN g = DOMAIN EmptyGold
  BY <1>1 DEF Curated
<1>3. /\ g.kinds = NoRows /\ g.claims = {} /\ g.records = {} /\ g.works = NoRows /\ g.titles = {}
      /\ g.links = {} /\ g.mentions = NoRows /\ g.workEntities = {} /\ g.credits = {} /\ g.items = {}
  BY <1>2 DEF EmptyGold
<1>4. /\ n.kinds = NoRows /\ n.claims = {} /\ n.records = {} /\ n.works = NoRows /\ n.titles = {}
      /\ n.links = {} /\ n.mentions = NoRows /\ n.workEntities = {} /\ n.credits = {} /\ n.items = {}
      /\ n.runs = s.runs /\ DOMAIN n = DOMAIN EmptyGold
  BY <1>2, <1>3 DEF EmptyGold
<1>5. Curated(b, n, "kept persons")
  <2>1. "kept persons" \notin WithEntities /\ "kept persons" \notin WithRecords /\ "kept persons" \notin WithWorks
        /\ "kept persons" \notin WithMentions
    BY DEF WithEntities, WithRecords, WithWorks, WithMentions, WithConcerts, WithRecordings
  <2>2. DOMAIN n.kinds = {} /\ DOMAIN n.works = {} /\ n.claims = {} /\ n.records = {} /\ n.credits = {}
    BY <1>4 DEF NoRows
  <2> QED BY <1>1, <1>4, <2>1, <2>2 DEF Curated
<1>6. RefersToRows(n)
  BY <1>4 DEF RefersToRows, NoRows, Range
<1>7. ASSUME Copied(s, b, g, "runs") PROVE Copied(s, b, n, "kept persons")
  BY <1>1, <1>4, <1>6, <1>7 DEF Copied, WithRuns, WithPersons, WalkEnded, WithEntities, WithRecords, WithWorks, WithMentions, WithConcerts, WithRecordings
<1> QED BY <1>5, <1>7

\* Rows of entities are added, and nothing is taken away.
LEMMA EntitiesAreCopied ==
    ASSUME NEW s, NEW b, NEW g, NEW ids, NEW n, n = CopyEntities(s, b, g, ids), NEW p, NEW q, Curated(b, g, p),
           ids \subseteq Kept(b), ids \subseteq DOMAIN s.kinds,
           \/ p = "kept persons" /\ q = "claims" /\ ids = b.keptRoots
           \/ p = "others" /\ q = "records" /\ ids = b.keptOther
    PROVE  /\ Curated(b, n, q)
           /\ Copied(s, b, g, p) => Copied(s, b, n, q)
<1> USE DEF WithRuns, WithPersons, WalkEnded, WithEntities, WithRecords, WithWorks, WithMentions, WithConcerts, WithRecordings
<1>1. /\ DOMAIN n = DOMAIN g
      /\ n.claims = g.claims /\ n.records = g.records /\ n.works = g.works /\ n.titles = g.titles
      /\ n.links = g.links /\ n.mentions = g.mentions /\ n.workEntities = g.workEntities
      /\ n.credits = g.credits /\ n.items = g.items /\ n.runs = g.runs
      /\ n.kinds = Insert(g.kinds, Restrict(s.kinds, ids \intersect DOMAIN s.kinds))
  BY DEF CopyEntities, Curated, EmptyGold
<1>2. DOMAIN n.kinds = ids \union DOMAIN g.kinds
  BY <1>1 DEF Restrict, Insert
<1>3. Curated(b, n, q)
  <2>1. Kept(b) = b.keptRoots \union b.keptOther
    BY DEF Kept
  <2> QED BY <1>1, <1>2, <2>1 DEF Curated
<1>4. ASSUME Copied(s, b, g, p) PROVE Copied(s, b, n, q)
  <2>1. RefersToRows(n)
    BY <1>1, <1>2, <1>4 DEF Copied, RefersToRows
  <2> QED BY <1>1, <1>4, <2>1 DEF Copied
<1> QED BY <1>3, <1>4

\* Who owns a copied record is kept, as itself or as its root; and InGold is kept or null.
LEMMA OwnersAreKept ==
    ASSUME NEW s, NEW b, NEW p, Stands(s), Selection(s, b, p), p \in WalkEnded
    PROVE  /\ \A e \in RecordOwners(b) : Root(b, e) \in Kept(b)
           /\ \A e : InGold(b, e) \in Kept(b) \union {None}
<1>1. \A e \in b.keptOther : Root(b, e) = e
  BY DEF Selection, KeptAreRoots
<1> QED BY <1>1 DEF RecordOwners, EnsembleMembers, Kept, InGold, Selection, KeptAreRoots

LEMMA RecordsAreCopied ==
    ASSUME NEW s, NEW b, NEW g, Stands(s), Selection(s, b, "records"), Curated(b, g, "records"),
           NEW n, n = CopyRecords(s, b, g)
    PROVE  /\ Curated(b, n, "insert claims")
           /\ Copied(s, b, g, "records") => Copied(s, b, n, "insert claims")
<1> USE DEF WithRuns, WithPersons, WalkEnded, WithEntities, WithRecords, WithWorks, WithMentions, WithConcerts, WithRecordings
<1> DEFINE repointed(r) == [r EXCEPT !.entity = Root(b, r.entity)]
           owned == {r \in s.records : r.entity \in RecordOwners(b)}
<1>1. /\ DOMAIN n = DOMAIN g
      /\ n.kinds = g.kinds /\ n.claims = g.claims /\ n.works = g.works /\ n.titles = g.titles
      /\ n.links = g.links /\ n.mentions = g.mentions /\ n.workEntities = g.workEntities
      /\ n.credits = g.credits /\ n.items = g.items /\ n.runs = g.runs
      /\ n.records = {repointed(r) : r \in owned}
  BY DEF CopyRecords, Curated, EmptyGold
<1>2. \A r \in owned : /\ repointed(r).id = r.id /\ repointed(r).run = r.run
                       /\ repointed(r).entity \in Kept(b) /\ r.run \in s.runs
  <2> SUFFICES ASSUME NEW r \in owned
               PROVE  /\ repointed(r).id = r.id /\ repointed(r).run = r.run
                      /\ repointed(r).entity \in Kept(b) /\ r.run \in s.runs
    OBVIOUS
  <2>1. r \in [id : Fields(s.records, "id"), entity : DOMAIN s.kinds \union {None}, run : s.runs]
    BY DEF Stands
  <2>2. Root(b, r.entity) \in Kept(b)
    BY OwnersAreKept
  <2> QED BY <2>1, <2>2
<1> HIDE DEF repointed
<1>3. Curated(b, n, "insert claims")
  <2>1. \A r \in n.records : r.entity \in Kept(b)
    BY <1>1, <1>2
  <2> QED BY <1>1, <2>1 DEF Curated
<1>4. ASSUME Copied(s, b, g, "records") PROVE Copied(s, b, n, "insert claims")
  <2>1. \A r \in n.records : r.entity \in DOMAIN n.kinds /\ r.run \in n.runs
    <3> SUFFICES ASSUME NEW o \in owned PROVE repointed(o).entity \in DOMAIN n.kinds /\ repointed(o).run \in n.runs
      BY <1>1
    <3> QED BY <1>1, <1>2, <1>4 DEF Copied, Curated
  <2>2. g.claims = {}
    BY DEF Curated
  <2>3. RefersToRows(n)
    BY <1>1, <1>4, <2>1, <2>2 DEF Copied, RefersToRows
  <2>4. \A r \in s.records : r.entity \in RecordOwners(b) => r.id \in Fields(n.records, "id")
    <3> SUFFICES ASSUME NEW r \in owned PROVE \E x \in n.records : x.id = r.id
      BY DEF Fields
    <3> QED BY <1>1, <1>2
  <2> QED BY <1>1, <1>4, <2>3, <2>4 DEF Copied
<1> QED BY <1>3, <1>4

LEMMA ClaimsAreInserted ==
    ASSUME NEW s, NEW b, NEW g, Selection(s, b, "insert claims"), Curated(b, g, "insert claims"),
           NEW n, n = [g EXCEPT !.claims = b.rows]
    PROVE  /\ Curated(b, n, "works")
           /\ Copied(s, b, g, "insert claims") => Copied(s, b, n, "works")
<1> USE DEF WithRuns, WithPersons, WalkEnded, WithEntities, WithRecords, WithWorks, WithMentions, WithConcerts, WithRecordings
<1>1. /\ DOMAIN n = DOMAIN g
      /\ n.kinds = g.kinds /\ n.records = g.records /\ n.works = g.works /\ n.titles = g.titles
      /\ n.links = g.links /\ n.mentions = g.mentions /\ n.workEntities = g.workEntities
      /\ n.credits = g.credits /\ n.items = g.items /\ n.runs = g.runs
      /\ n.claims = b.rows
  BY DEF Curated, EmptyGold
<1>2. \A row \in b.rows :
        row.subject \in Kept(b) /\ (row.object = None \/ row.object \in Kept(b))
  BY DEF Selection, RowsAreKept
<1>3. Curated(b, n, "works")
  BY <1>1, <1>2 DEF Curated
<1>4. ASSUME Copied(s, b, g, "insert claims") PROVE Copied(s, b, n, "works")
  <2>1. \A row \in n.claims :
            /\ {row.subject, row.object} \subseteq DOMAIN n.kinds \union {None}
            /\ row.record \in {r.id : r \in n.records} \union {None}
    BY <1>1, <1>2, <1>4 DEF Copied, Recorded, Curated, Fields
  <2>2. RefersToRows(n)
    BY <1>1, <1>4, <2>1 DEF Copied, RefersToRows
  <2> QED BY <1>1, <1>4, <2>2 DEF Copied
<1> QED BY <1>3, <1>4

LEMMA WorksAreCopied ==
    ASSUME NEW s, NEW b, NEW g, Stands(s), Selection(s, b, "works"), Curated(b, g, "works"),
           NEW n, n = CopyWorks(s, b, g)
    PROVE  /\ Curated(b, n, "titles")
           /\ Copied(s, b, g, "works") => Copied(s, b, n, "titles")
<1> USE DEF WithRuns, WithPersons, WalkEnded, WithEntities, WithRecords, WithWorks, WithMentions, WithConcerts, WithRecordings
<1>1. /\ DOMAIN n = DOMAIN g
      /\ n.kinds = g.kinds /\ n.claims = g.claims /\ n.records = g.records /\ n.titles = {}
      /\ n.links = {} /\ n.mentions = NoRows /\ n.workEntities = {}
      /\ n.credits = g.credits /\ n.items = g.items /\ n.runs = g.runs
      /\ n.works = [w \in DOMAIN s.works |-> InGold(b, s.works[w])]
  BY DEF CopyWorks, Curated, EmptyGold
<1>2. Range(n.works) \subseteq Kept(b) \union {None}
  <2>1. \A e : InGold(b, e) \in Kept(b) \union {None}
    BY OwnersAreKept
  <2> QED BY <1>1, <2>1 DEF Range
<1>3. Curated(b, n, "titles")
  BY <1>1, <1>2 DEF Curated, Range
<1>4. ASSUME Copied(s, b, g, "works") PROVE Copied(s, b, n, "titles")
  <2>1. Range(n.works) \subseteq DOMAIN n.kinds \union {None}
    BY <1>1, <1>2, <1>4 DEF Copied, Curated
  <2>2. DOMAIN NoRows = {} /\ Range(NoRows) = {}
    BY DEF NoRows, Range
  <2>3. RefersToRows(g)
    BY <1>4 DEF Copied
  <2>4. g.mentions = NoRows /\ g.items = {}
    BY DEF Curated
  <2>5. RefersToRows(n)
    BY <1>1, <2>1, <2>2, <2>3, <2>4 DEF RefersToRows
  <2> QED BY <1>1, <1>4, <2>5 DEF Copied
<1> QED BY <1>3, <1>4

LEMMA TitlesAreCopied ==
    ASSUME NEW s, NEW b, NEW g, Stands(s), Curated(b, g, "titles"), NEW n, n = [g EXCEPT !.titles = s.titles]
    PROVE  /\ Curated(b, n, "links")
           /\ Copied(s, b, g, "titles") => Copied(s, b, n, "links")
<1> USE DEF WithRuns, WithPersons, WalkEnded, WithEntities, WithRecords, WithWorks, WithMentions, WithConcerts, WithRecordings
<1>1. /\ DOMAIN n = DOMAIN g
      /\ n.kinds = g.kinds /\ n.claims = g.claims /\ n.records = g.records /\ n.works = g.works
      /\ n.links = g.links /\ n.mentions = g.mentions /\ n.workEntities = g.workEntities
      /\ n.credits = g.credits /\ n.items = g.items /\ n.runs = g.runs
      /\ n.titles = s.titles
  BY DEF Curated, EmptyGold
<1>2. Curated(b, n, "links")
  BY <1>1 DEF Curated
<1>3. ASSUME Copied(s, b, g, "titles") PROVE Copied(s, b, n, "links")
  <2>1. n.titles \subseteq DOMAIN n.works
    BY <1>1, <1>3 DEF Copied, Stands
  <2>2. RefersToRows(n)
    BY <1>1, <1>3, <2>1 DEF Copied, RefersToRows
  <2> QED BY <1>1, <1>3, <2>2 DEF Copied
<1> QED BY <1>2, <1>3

LEMMA LinksAreCopied ==
    ASSUME NEW s, NEW b, NEW g, Stands(s), Curated(b, g, "links"), NEW n, n = [g EXCEPT !.links = s.links]
    PROVE  /\ Curated(b, n, "mentions")
           /\ Copied(s, b, g, "links") => Copied(s, b, n, "mentions")
<1> USE DEF WithRuns, WithPersons, WalkEnded, WithEntities, WithRecords, WithWorks, WithMentions, WithConcerts, WithRecordings
<1>1. /\ DOMAIN n = DOMAIN g
      /\ n.kinds = g.kinds /\ n.claims = g.claims /\ n.records = g.records /\ n.works = g.works
      /\ n.titles = g.titles /\ n.mentions = g.mentions /\ n.workEntities = g.workEntities
      /\ n.credits = g.credits /\ n.items = g.items /\ n.runs = g.runs
      /\ n.links = s.links
  BY DEF Curated, EmptyGold
<1>2. Curated(b, n, "mentions")
  BY <1>1 DEF Curated
<1>3. ASSUME Copied(s, b, g, "links") PROVE Copied(s, b, n, "mentions")
  <2>1. \A l \in n.links : l[1] \in DOMAIN n.works /\ l[2] \in DOMAIN n.works
    BY <1>1, <1>3 DEF Copied, Stands
  <2>2. UNION {{l[1], l[2]} : l \in n.links} \subseteq DOMAIN n.works
    BY <2>1
  <2>3. RefersToRows(n)
    BY <1>1, <1>3, <2>2 DEF Copied, RefersToRows
  <2> QED BY <1>1, <1>3, <2>3 DEF Copied
<1> QED BY <1>2, <1>3

LEMMA MentionsAreCopied ==
    ASSUME NEW s, NEW b, NEW g, Stands(s), Selection(s, b, "mentions"), Curated(b, g, "mentions"),
           NEW n, n = CopyMentions(s, b, g)
    PROVE  /\ Curated(b, n, "work entities")
           /\ Copied(s, b, g, "mentions") => Copied(s, b, n, "work entities")
<1> USE DEF WithRuns, WithPersons, WalkEnded, WithEntities, WithRecords, WithWorks, WithMentions, WithConcerts, WithRecordings
<1> DEFINE copy(m) == [s.mentions[m] EXCEPT !.composer = InGold(b, s.mentions[m].composer)]
<1>1. /\ DOMAIN n = DOMAIN g
      /\ n.kinds = g.kinds /\ n.claims = g.claims /\ n.records = g.records /\ n.works = g.works
      /\ n.titles = g.titles /\ n.links = g.links /\ n.workEntities = g.workEntities
      /\ n.credits = g.credits /\ n.items = g.items /\ n.runs = g.runs
      /\ n.mentions = [m \in DOMAIN s.mentions |-> copy(m)]
  BY DEF CopyMentions, Curated, EmptyGold
<1>2. Curated(b, n, "work entities")
  BY <1>1 DEF Curated
<1>3. \A m \in DOMAIN s.mentions : /\ copy(m).composer \in Kept(b) \union {None}
                                   /\ copy(m).work \in DOMAIN s.works \union {None}
                                   /\ copy(m).run \in s.runs
  <2> SUFFICES ASSUME NEW m \in DOMAIN s.mentions
               PROVE  /\ copy(m).composer \in Kept(b) \union {None}
                      /\ copy(m).work \in DOMAIN s.works \union {None}
                      /\ copy(m).run \in s.runs
    OBVIOUS
  <2>1. s.mentions[m] \in [composer : DOMAIN s.kinds \union {None}, work : DOMAIN s.works \union {None},
                           title : Fields(Range(s.mentions), "title"), run : s.runs]
    BY DEF Stands
  <2>2. InGold(b, s.mentions[m].composer) \in Kept(b) \union {None}
    BY OwnersAreKept
  <2> QED BY <2>1, <2>2
<1> HIDE DEF copy
<1>4. ASSUME Copied(s, b, g, "mentions") PROVE Copied(s, b, n, "work entities")
  <2>1. \A m \in Range(n.mentions) : /\ m.composer \in DOMAIN n.kinds \union {None}
                                     /\ m.work \in DOMAIN n.works \union {None}
                                     /\ m.run \in n.runs
    BY <1>1, <1>3, <1>4 DEF Copied, Curated, Range
  <2>2. g.items = {}
    BY DEF Curated
  <2>3. RefersToRows(n)
    BY <1>1, <1>4, <2>1, <2>2 DEF Copied, RefersToRows
  <2> QED BY <1>1, <1>4, <2>3 DEF Copied
<1> QED BY <1>2, <1>4

LEMMA WorkEntitiesAreCopied ==
    ASSUME NEW s, NEW b, NEW g, Stands(s), Selection(s, b, "work entities"), Curated(b, g, "work entities"),
           NEW n, n = CopyWorkEntities(s, b, g)
    PROVE  /\ Curated(b, n, "concerts")
           /\ Copied(s, b, g, "work entities") => Copied(s, b, n, "concerts")
<1> USE DEF WithRuns, WithPersons, WalkEnded, WithEntities, WithRecords, WithWorks, WithMentions, WithConcerts, WithRecordings
<1> DEFINE repointed(l) == [l EXCEPT !.entity = Root(b, l.entity)]
           linked == {l \in s.workEntities : Root(b, l.entity) \in Kept(b)}
<1>1. /\ DOMAIN n = DOMAIN g
      /\ n.kinds = g.kinds /\ n.claims = g.claims /\ n.records = g.records /\ n.works = g.works
      /\ n.titles = g.titles /\ n.links = g.links /\ n.mentions = g.mentions
      /\ n.credits = g.credits /\ n.items = g.items /\ n.runs = g.runs
      /\ n.workEntities = {repointed(l) : l \in linked}
  BY DEF CopyWorkEntities, Curated, EmptyGold
<1>2. Curated(b, n, "concerts")
  BY <1>1 DEF Curated
<1>3. \A l \in linked : repointed(l).entity \in Kept(b) /\ repointed(l).work \in DOMAIN s.works
  <2> SUFFICES ASSUME NEW l \in linked PROVE repointed(l).entity \in Kept(b) /\ repointed(l).work \in DOMAIN s.works
    OBVIOUS
  <2>1. l \in [work : DOMAIN s.works, entity : DOMAIN s.kinds, source : Fields(s.workEntities, "source")]
    BY DEF Stands
  <2> QED BY <2>1
<1> HIDE DEF repointed
<1>4. ASSUME Copied(s, b, g, "work entities") PROVE Copied(s, b, n, "concerts")
  <2>1. \A l \in n.workEntities : l.entity \in DOMAIN n.kinds /\ l.work \in DOMAIN n.works
    <3> SUFFICES ASSUME NEW l \in linked PROVE repointed(l).entity \in DOMAIN n.kinds /\ repointed(l).work \in DOMAIN n.works
      BY <1>1
    <3> QED BY <1>1, <1>3, <1>4 DEF Copied, Curated
  <2>2. RefersToRows(n)
    BY <1>1, <1>4, <2>1 DEF Copied, RefersToRows
  <2> QED BY <1>1, <1>4, <2>2 DEF Copied
<1> QED BY <1>2, <1>4

\* The credits and items of a kind are added, each credit to the root of whom it names.
LEMMA EventsAreCopied ==
    ASSUME NEW s, NEW b, NEW g, NEW kind, NEW p, NEW q, Stands(s), Selection(s, b, p), Curated(b, g, p),
           (p = "concerts" /\ q = "recordings") \/ (p = "recordings" /\ q = "programmes"),
           NEW n, n = CopyEvents(s, b, g, kind)
    PROVE  /\ Curated(b, n, q)
           /\ Copied(s, b, g, p) => Copied(s, b, n, q)
           /\ CreditsCopied(s, b, n, kind)
           /\ g.credits \subseteq n.credits
<1> USE DEF WithRuns, WithPersons, WalkEnded, WithEntities, WithRecords, WithWorks, WithMentions, WithConcerts, WithRecordings
<1> DEFINE copy(c) == [c EXCEPT !.entity = InGold(b, c.entity)]
           credits == {c \in s.credits : s.events[c.event] = kind}
           items == {i \in s.items : s.events[i.event] = kind}
<1>1. /\ DOMAIN n = DOMAIN g
      /\ n.kinds = g.kinds /\ n.claims = g.claims /\ n.records = g.records /\ n.works = g.works
      /\ n.titles = g.titles /\ n.links = g.links /\ n.mentions = g.mentions /\ n.workEntities = g.workEntities
      /\ n.runs = g.runs
      /\ n.credits = g.credits \union {copy(c) : c \in credits} /\ n.items = g.items \union items
  BY DEF CopyEvents, Curated, EmptyGold
<1>2. \A c \in credits : copy(c).entity \in Kept(b) \union {None}
  <2> SUFFICES ASSUME NEW c \in credits PROVE copy(c).entity \in Kept(b) \union {None}
    OBVIOUS
  <2>1. c \in [event : DOMAIN s.events, entity : DOMAIN s.kinds \union {None}, role : Fields(s.credits, "role")]
    BY DEF Stands
  <2>2. InGold(b, c.entity) \in Kept(b) \union {None}
    BY OwnersAreKept
  <2> QED BY <2>1, <2>2
<1>3. CreditsCopied(s, b, n, kind)
  BY <1>1 DEF CreditsCopied
<1> HIDE DEF copy
<1>4. \A c \in n.credits : c.entity = None \/ c.entity \in Kept(b)
  <2>1. \A c \in g.credits : c.entity = None \/ c.entity \in Kept(b)
    BY DEF Curated
  <2> QED BY <1>1, <1>2, <2>1
<1>5. Curated(b, n, q)
  BY <1>1, <1>4 DEF Curated
<1>6. ASSUME Copied(s, b, g, p) PROVE Copied(s, b, n, q)
  <2>1. \A c \in n.credits : c.entity \in DOMAIN n.kinds \union {None}
    BY <1>1, <1>4, <1>6 DEF Copied, Curated
  <2>2. \A i \in n.items : i.mention \in DOMAIN n.mentions
    BY <1>1, <1>6 DEF Copied, Stands, RefersToRows
  <2>3. RefersToRows(n)
    BY <1>1, <1>6, <2>1, <2>2 DEF Copied, RefersToRows
  <2> QED BY <1>1, <1>6, <2>3 DEF Copied
<1> QED BY <1>1, <1>3, <1>5, <1>6

\* A recount, and whatever leaves the tables that are referred to as they are.
LEMMA SameRowsStand ==
    ASSUME NEW s, NEW b, NEW g, NEW n, NEW p, NEW q, p \in WithRecordings, q \in WithRecordings,
           DOMAIN n = DOMAIN g,
           \A table \in DOMAIN EmptyGold \ {"connections", "programmes", "made"} : n[table] = g[table]
    PROVE  /\ Curated(b, g, p) => Curated(b, n, q)
           /\ RefersToRows(g) => RefersToRows(n)
           /\ Copied(s, b, g, p) => Copied(s, b, n, q)
           /\ Credited(s, b, g, p) => Credited(s, b, n, q)
<1> USE DEF WithRuns, WithPersons, WalkEnded, WithEntities, WithRecords, WithWorks, WithMentions, WithConcerts, WithRecordings
<1>1. /\ n.kinds = g.kinds /\ n.claims = g.claims /\ n.records = g.records /\ n.works = g.works
      /\ n.titles = g.titles /\ n.links = g.links /\ n.mentions = g.mentions /\ n.workEntities = g.workEntities
      /\ n.runs = g.runs /\ n.credits = g.credits /\ n.items = g.items
  BY DEF EmptyGold
<1>2. RefersToRows(g) => RefersToRows(n)
  BY <1>1 DEF RefersToRows
<1>3. Curated(b, g, p) => Curated(b, n, q)
  BY <1>1 DEF Curated
<1>4. Copied(s, b, g, p) => Copied(s, b, n, q)
  BY <1>1, <1>2 DEF Copied
<1>5. Credited(s, b, g, p) => Credited(s, b, n, q)
  BY <1>1 DEF Credited, CreditsCopied
<1> QED BY <1>2, <1>3, <1>4, <1>5

----------------------------------------------------------------------------
(* Whom rule 1 counts *)

\* What is counted depends on the roots only.
LEMMA CountsOfRoots ==
    ASSUME NEW s, NEW b, NEW n, n.roots = b.roots
    PROVE  /\ \A e : Root(n, e) = Root(b, e)
           /\ AppearanceCounts(s, n) = AppearanceCounts(s, b)
<1>1. \A e : Root(n, e) = Root(b, e)
  BY DEF Root
<1>2. Roots(n, DOMAIN s.kinds) = Roots(b, DOMAIN s.kinds)
  BY <1>1 DEF Roots
<1>3. \A r, kind : CreditedOn(s, n, r, kind) = CreditedOn(s, b, r, kind)
  BY <1>1 DEF CreditedOn
<1>4. AppearanceCounts(s, n) = AppearanceCounts(s, b)
  BY <1>2, <1>3 DEF AppearanceCounts
<1> QED BY <1>1, <1>4

LEMMA AppearancesOfCounts ==
    ASSUME NEW b, NEW n, NEW candidates, NEW least, n.roots = b.roots, n.counts = b.counts
    PROVE  AppearanceRoots(n, candidates, least) = AppearanceRoots(b, candidates, least)
<1>1. \A e : Root(n, e) = Root(b, e)
  BY DEF Root
<1>2. Roots(n, candidates) = Roots(b, candidates)
  BY <1>1 DEF Roots
<1>3. \A r : Count(n, r) = Count(b, r)
  BY DEF Count
<1> QED BY <1>2, <1>3 DEF AppearanceRoots

\* A build begins with the links, the entities and the counts of its silver.
LEMMA OpenCounts ==
    ASSUME NEW s, NEW config
    PROVE  Evidenced(s, OpenBuild(s, config), "persons")
<1> DEFINE b == NewBuild(s, config)
           n == OpenBuild(s, config)
<1>1. /\ n.roots = b.roots /\ n.counts = AppearanceCounts(s, b) /\ n.config = config
      /\ n.roots = (IF config.collapse THEN s.canonical ELSE NoRows)
      /\ n.persons = OfKind(s, "person") /\ n.ensembles = OfKind(s, "ensemble")
  BY DEF OpenBuild, NewBuild
<1>2. n.counts = AppearanceCounts(s, n)
  <2> HIDE DEF b, n
  <2> QED BY <1>1, CountsOfRoots
<1> QED BY <1>1, <1>2 DEF Evidenced, Opened, Selected, Judged, WithRuns, WithPersons, WalkEnded, WithEntities, WithRecords, WithWorks, WithMentions, WithConcerts, WithRecordings

\* It goes on with them.
LEMMA OpenedStays ==
    ASSUME NEW s, NEW b, NEW n, Opened(s, b), n.roots = b.roots, n.counts = b.counts, n.config = b.config,
           n.persons = b.persons, n.ensembles = b.ensembles
    PROVE  Opened(s, n)
<1>1. n.counts = AppearanceCounts(s, n)
  BY CountsOfRoots DEF Opened
<1> QED BY <1>1 DEF Opened

\* Who is on events enough is kept, whatever else a person is kept for, and whatever silver
\* says of works and sitelinks by then.
LEMMA PersonsEvidenced ==
    ASSUME NEW s, NEW now, NEW b, Selection(now, b, "persons"), Evidenced(s, b, "persons")
    PROVE  Evidenced(s, SelectPersons(now, b), "ensembles")
<1> DEFINE n == SelectPersons(now, b)
<1>1. /\ n.roots = b.roots /\ n.counts = b.counts /\ n.config = b.config /\ n.persons = b.persons
      /\ n.ensembles = b.ensembles
  BY DEF SelectPersons, Selection, NewBuild
<1>2. AppearanceRoots(b, b.persons, b.config.persons) \subseteq n.keptRoots
  BY DEF SelectPersons, Selection, NewBuild, AppearanceRoots
<1> HIDE DEF n
<1>3. Opened(s, n)
  BY <1>1, OpenedStays DEF Evidenced
<1>4. AppearanceRoots(n, n.persons, n.config.persons) \subseteq n.keptRoots
  BY <1>1, <1>2, AppearancesOfCounts
<1> QED BY <1>3, <1>4 DEF n, Evidenced, Judged, WithRuns, WithPersons, WalkEnded, WithEntities, WithRecords, WithWorks, WithMentions, WithConcerts, WithRecordings

LEMMA EnsemblesEvidenced ==
    ASSUME NEW s, NEW now, NEW b, Selection(now, b, "ensembles"), Evidenced(s, b, "ensembles")
    PROVE  Evidenced(s, SelectEnsembles(b), "runs")
<1> DEFINE n == SelectEnsembles(b)
           billed(x) == AppearanceRoots(x, x.ensembles, x.config.ensembles)
<1>1. /\ n.roots = b.roots /\ n.counts = b.counts /\ n.config = b.config /\ n.persons = b.persons
      /\ n.ensembles = b.ensembles /\ n.keptRoots = b.keptRoots
  BY DEF SelectEnsembles, Selection, NewBuild
<1>2. /\ billed(b) \subseteq n.keptEnsembles
      /\ b.config.evidence => Roots(b, b.ensembles) \ billed(b) \subseteq n.unevidenced
  BY DEF SelectEnsembles, Selection, NewBuild, AppearanceRoots, Roots
<1>3. AppearanceRoots(b, b.persons, b.config.persons) \subseteq b.keptRoots
  BY DEF Evidenced, Selected
<1> HIDE DEF n
<1>4. Opened(s, n)
  BY <1>1, OpenedStays DEF Evidenced
<1>5. billed(n) = billed(b) /\ Roots(n, n.ensembles) = Roots(b, b.ensembles)
  <2>1. billed(n) = billed(b)
    BY <1>1, AppearancesOfCounts
  <2>2. \A e : Root(n, e) = Root(b, e)
    BY <1>1 DEF Root
  <2> QED BY <1>1, <2>1, <2>2 DEF Roots
<1>6. AppearanceRoots(n, n.persons, n.config.persons) \subseteq n.keptRoots
  BY <1>1, <1>3, AppearancesOfCounts
<1>7. /\ billed(n) \subseteq n.keptEnsembles
      /\ n.config.evidence => Roots(n, n.ensembles) \ billed(n) \subseteq n.unevidenced
  BY <1>1, <1>2, <1>5
<1> QED
  <2>1. /\ AppearanceRoots(n, n.ensembles, n.config.ensembles) \subseteq n.keptEnsembles
        /\ n.config.evidence =>
             Roots(n, n.ensembles) \ AppearanceRoots(n, n.ensembles, n.config.ensembles) \subseteq n.unevidenced
    BY <1>7
  <2> HIDE DEF n, billed
  <2>2. Evidenced(s, n, "runs")
    BY <1>4, <1>6, <2>1 DEF Evidenced
  <2> QED BY <2>2 DEF n

\* Other phases keep what is evidenced.
LEMMA EvidenceStays ==
    ASSUME NEW s, NEW b, NEW n, NEW p, NEW q, Evidenced(s, b, p), q \in Judged, p \in Judged,
           n.roots = b.roots, n.counts = b.counts, n.config = b.config, n.persons = b.persons,
           n.ensembles = b.ensembles, n.keptRoots = b.keptRoots, n.keptEnsembles = b.keptEnsembles,
           n.unevidenced = b.unevidenced
    PROVE  Evidenced(s, n, q)
<1> DEFINE billed(x) == AppearanceRoots(x, x.ensembles, x.config.ensembles)
<1>1. Opened(s, n)
  BY OpenedStays DEF Evidenced
<1>2. billed(n) = billed(b) /\ Roots(n, n.ensembles) = Roots(b, b.ensembles)
  <2>1. billed(n) = billed(b)
    BY AppearancesOfCounts
  <2>2. \A e : Root(n, e) = Root(b, e)
    BY DEF Root
  <2> QED BY <2>1, <2>2 DEF Roots
<1>3. AppearanceRoots(n, n.persons, n.config.persons) \subseteq n.keptRoots
  BY AppearancesOfCounts DEF Evidenced, Selected
<1>4. /\ billed(n) \subseteq n.keptEnsembles
      /\ n.config.evidence => Roots(n, n.ensembles) \ billed(n) \subseteq n.unevidenced
  BY <1>2 DEF Evidenced
<1> QED BY <1>1, <1>3, <1>4 DEF Evidenced

\* Credits once copied stay.
LEMMA CreditsOnceCopied ==
    ASSUME NEW s, NEW b, NEW n, NEW g, NEW h, NEW p, NEW q, Credited(s, b, g, p),
           p \in WithConcerts \/ q \in WithConcerts => n = b, g.credits \subseteq h.credits,
           q \in WithConcerts => p \in WithConcerts \/ CreditsCopied(s, n, h, "concert"),
           q \in WithRecordings => p \in WithRecordings \/ CreditsCopied(s, n, h, "recording")
    PROVE  Credited(s, n, h, q)
<1>1. ASSUME NEW kind, CreditsCopied(s, b, g, kind), n = b PROVE CreditsCopied(s, n, h, kind)
  BY <1>1 DEF CreditsCopied
<1>2. q \in WithConcerts => CreditsCopied(s, n, h, "concert")
  BY <1>1 DEF Credited
<1>3. q \in WithRecordings => CreditsCopied(s, n, h, "recording")
  BY <1>1 DEF Credited, WithConcerts
<1> QED BY <1>2, <1>3 DEF Credited

----------------------------------------------------------------------------
(* The steps of a promote *)

LEMMA SilverStands == IInv => Stands(silver)
  BY SilverAssumption DEF SilverAssumption, IInv, Progress

LEMMA AtStage ==
    ASSUME IInv, NEW p \in Stages \ {"idle", "published"}, phase = p
    PROVE  status = "running" /\ Stage = p /\ (~disturbed => silver = before) /\ Evidenced(before, build, p)
  BY DEF IInv, Progress, Stage, Published, Stages, Selected, Judged, WithRuns, WithPersons, WalkEnded, WithEntities,
         WithRecords, WithWorks, WithMentions, WithConcerts, WithRecordings

LEMMA RunningAt ==
    ASSUME IInv, NEW p \in {"persons", "ensembles", "others"}, At(p)
    PROVE  Stage = p /\ Evidenced(before, build, p)
<1>1. phase = p
  BY DEF At
<1>2. p \in Stages \ {"idle", "published"}
  BY DEF Stages, Selected, Judged, WithRuns, WithPersons, WalkEnded
<1> QED BY <1>1, <1>2, AtStage

\* A phase that writes nothing.
LEMMA UnwrittenStep ==
    ASSUME IInv, NEW p \in Stages \ {"idle", "published"}, NEW q \in Stages \ {"idle", "published"},
           At(p), Unwritten(q),
           Selection(silver, build', q), Curated(build', gold, q),
           Copied(silver, build, gold, p) => Copied(silver, build', gold, q),
           Credited(silver, build, gold, p) => Credited(silver, build', gold, q),
           Evidenced(before, build', q)
    PROVE  IInv'
<1>1. /\ phase = p /\ phase' = q /\ gold' = gold /\ status' = status
      /\ backend' = backend /\ silver' = silver /\ disturbed' = disturbed /\ before' = before /\ live' = live
  BY DEF At, Unwritten, history
<1>2. status = "running" /\ Stage = p /\ (~disturbed => silver = before)
  BY <1>1, AtStage
<1>3. Stage' = q
  BY <1>1, <1>2 DEF Stage, Published
<1>4. Progress'
  BY <1>1, <1>2, <1>3 DEF IInv, Progress, Published
<1>5. p # "idle"
  OBVIOUS
<1> QED BY <1>1, <1>2, <1>3, <1>4, <1>5 DEF IInv

\* A phase that writes rows, which Postgres may refuse.
LEMMA WrittenStep ==
    ASSUME IInv, NEW p \in Stages \ {"idle", "published"}, NEW q \in Stages \ {"idle", "published"}, NEW g,
           At(p), Written(g, q),
           Selection(silver, build', q), Curated(build', g, q),
           Copied(silver, build, gold, p) => Copied(silver, build', g, q),
           Credited(silver, build, gold, p) => Credited(silver, build', g, q),
           Evidenced(before, build', q)
    PROVE  IInv'
<1>1. /\ phase = p /\ backend' = backend /\ silver' = silver /\ disturbed' = disturbed /\ before' = before /\ live' = live
  BY DEF At, history
<1>2. status = "running" /\ Stage = p /\ (~disturbed => silver = before)
  BY <1>1, AtStage
<1>3. CASE backend = "postgres" /\ ~RefersToRows(g)
  <2>1. gold' = EmptyGold /\ phase' = "idle" /\ status' = "failed"
    BY <1>3 DEF Written
  <2>2. Stage' = "idle" /\ "idle" \notin WithRuns
    BY <2>1 DEF Stage, Published, WithRuns, WithPersons, WalkEnded, WithEntities, WithRecords, WithWorks, WithMentions, WithConcerts, WithRecordings
  <2>3. disturbed
    <3> SUFFICES ASSUME ~disturbed PROVE FALSE
      OBVIOUS
    <3>1. Copied(silver, build, gold, p)
      BY <1>2 DEF IInv
    <3> QED BY <3>1, <1>3 DEF Copied
  <2>4. DOMAIN EmptyGold = DOMAIN EmptyGold /\ [EmptyGold EXCEPT !.made = 0] = EmptyGold
    BY DEF EmptyGold
  <2>5. Curated(build', EmptyGold, "idle") /\ RefersToRows(EmptyGold)
    BY <2>2, <2>4, EmptyIsCurated
  <2>6. Selection(silver, build', "idle")
    BY CopiesSelectNothing
  <2>7. Progress'
    BY <1>1, <2>1, <2>2 DEF IInv, Progress, Published, Stages
  <2> QED BY <1>1, <2>1, <2>2, <2>3, <2>5, <2>6, <2>7 DEF IInv
<1>4. CASE ~(backend = "postgres" /\ ~RefersToRows(g))
  <2>1. gold' = g /\ phase' = q /\ status' = status
    BY <1>4 DEF Written
  <2>2. Stage' = q
    BY <1>2, <2>1 DEF Stage, Published
  <2>3. Progress'
    BY <1>1, <1>2, <2>1, <2>2 DEF IInv, Progress, Published
  <2>4. p # "idle"
    OBVIOUS
  <2> QED BY <1>1, <1>2, <1>4, <2>1, <2>2, <2>3, <2>4 DEF IInv
<1> QED BY <1>3, <1>4

LEMMA InitHolds == Init => IInv
<1> SUFFICES ASSUME Init PROVE IInv
  OBVIOUS
<1>1. silver \in SilverStates /\ Stands(silver)
  BY SilverAssumption DEF SilverAssumption, Init
<1>2. Stage = "idle" /\ "idle" \notin WithRuns
  BY DEF Init, Stage, Published, WithRuns, WithPersons, WalkEnded, WithEntities, WithRecords, WithWorks, WithMentions, WithConcerts, WithRecordings
<1>3. Progress
  BY <1>1, <1>2 DEF Init, Progress, Published, Stages
<1>4. Selection(silver, build, "idle")
  BY <1>1, OpenSelects DEF Init
<1>5. [gold EXCEPT !.made = 0] = EmptyGold /\ DOMAIN gold = DOMAIN EmptyGold
  <2>1. gold = EmptyGold
    BY DEF Init
  <2>2. [EmptyGold EXCEPT !.made = 0] = EmptyGold
    BY DEF EmptyGold
  <2> QED BY <2>1, <2>2
<1>6. Curated(build, gold, "idle") /\ RefersToRows(gold)
  BY <1>2, <1>5, EmptyIsCurated
<1> QED BY <1>2, <1>3, <1>4, <1>6 DEF Init, IInv

\* A gold that has only been made is empty.
LEMMA EmptyButMade ==
    ASSUME NEW g, NEW m, g = [EmptyGold EXCEPT !.made = m]
    PROVE  [g EXCEPT !.made = 0] = EmptyGold /\ DOMAIN g = DOMAIN EmptyGold
<1> DEFINE n == [g EXCEPT !.made = 0]
<1>1. DOMAIN g = DOMAIN EmptyGold
  OBVIOUS
<1>2. DOMAIN n = DOMAIN EmptyGold
  BY <1>1
<1>3. \A table \in DOMAIN EmptyGold : n[table] = EmptyGold[table]
  <2> TAKE table \in DOMAIN EmptyGold
  <2>1. CASE table = "made"
    <3>1. EmptyGold.made = 0
      BY DEF EmptyGold
    <3> QED BY <1>1, <2>1, <3>1
  <2>2. CASE table # "made"
    BY <1>1, <2>2
  <2> QED BY <2>1, <2>2
<1>4. EmptyGold = [table \in DOMAIN EmptyGold |-> EmptyGold[table]]
  BY DEF EmptyGold
<1>5. n = [table \in DOMAIN n |-> n[table]]
  BY <1>1
<1> HIDE DEF n
<1>6. n = EmptyGold
  BY <1>2, <1>3, <1>4, <1>5
<1> QED BY <1>1, <1>6 DEF n

LEMMA StartStep == IInv /\ Start => IInv'
<1> SUFFICES ASSUME IInv, Start PROVE IInv'
  OBVIOUS
<1>1. PICK config \in Configs : build' = OpenBuild(silver, config @@ FromJson)
  BY DEF Start
<1>2. PICK c : c = config @@ FromJson
  OBVIOUS
<1>3. /\ build' = OpenBuild(silver, c) /\ phase' = "persons" /\ status' = "running" /\ disturbed' = FALSE
      /\ before' = silver /\ silver' = silver /\ backend' = backend /\ live' = live
      /\ gold' = [EmptyGold EXCEPT !.made = spent']
  BY <1>1, <1>2 DEF Start
<1>4. Stage' = "persons" /\ "persons" \notin WithRuns
  BY <1>3 DEF Stage, Published, WithRuns, WithPersons, WalkEnded, WithEntities, WithRecords, WithWorks, WithMentions, WithConcerts, WithRecordings
<1>5. Selection(silver, build', "persons") /\ Recorded(silver, build')
  BY <1>3, SilverStands, OpenSelects
<1>6. [gold' EXCEPT !.made = 0] = EmptyGold /\ DOMAIN gold' = DOMAIN EmptyGold
  BY <1>3, EmptyButMade
<1>7. Curated(build', gold', "persons") /\ RefersToRows(gold')
  BY <1>4, <1>6, EmptyIsCurated
<1>8. Evidenced(silver, build', "persons")
  BY <1>3, OpenCounts
<1>9. Copied(silver, build', gold', "persons") /\ Credited(silver, build', gold', "persons")
  BY <1>5, <1>7 DEF Copied, Credited, WithRuns, WithPersons, WalkEnded, WithEntities, WithRecords, WithWorks, WithMentions, WithConcerts, WithRecordings
<1>10. Progress'
  BY <1>3, <1>4 DEF IInv, Progress, Published, Grown, Stages, Selected
<1> QED BY <1>3, <1>4, <1>5, <1>7, <1>8, <1>9, <1>10 DEF IInv

\* The phases that select.
LEMMA SelectingStep == IInv /\ (Persons \/ Ensembles \/ CollectClaims \/ Walk \/ Literals) => IInv'
<1> USE DEF Stages, Selected, Judged, WithRuns, WithPersons, WalkEnded, WithEntities, WithRecords, WithWorks, WithMentions, WithConcerts, WithRecordings
<1> SUFFICES ASSUME IInv, Persons \/ Ensembles \/ CollectClaims \/ Walk \/ Literals PROVE IInv'
  OBVIOUS
<1>1. Stands(silver)
  BY SilverStands
<1>2. CASE Persons
  <2>1. At("persons") /\ build' = SelectPersons(silver, build) /\ Unwritten("ensembles") /\ Stage = "persons" /\ Evidenced(before, build, "persons")
    <3>1. At("persons") /\ build' = SelectPersons(silver, build) /\ Unwritten("ensembles")
      BY <1>2 DEF Persons
    <3> QED BY <3>1, RunningAt
  <2>2. Selection(silver, build, "persons") /\ Curated(build, gold, "persons")
    BY <2>1 DEF IInv
  <2>3. Selection(silver, build', "ensembles") /\ Recorded(silver, build')
    BY <1>1, <2>1, <2>2, SelectPersonsSelects
  <2>4. Curated(build', gold, "ensembles")
    <3>1. [gold EXCEPT !.made = 0] = EmptyGold /\ DOMAIN gold = DOMAIN EmptyGold
      BY <2>2 DEF Curated
    <3> QED BY <3>1, EmptyIsCurated
  <2>5. Copied(silver, build, gold, "persons") => Copied(silver, build', gold, "ensembles")
    BY <2>3, SelectingCopiesNothing
  <2>6. Evidenced(before, build', "ensembles")
    BY <2>1, <2>2, PersonsEvidenced
  <2>7. Credited(silver, build', gold, "ensembles")
    BY DEF Credited
  <2> QED BY <2>1, <2>3, <2>4, <2>5, <2>6, <2>7, UnwrittenStep
<1>3. CASE Ensembles
  <2>1. At("ensembles") /\ build' = SelectEnsembles(build) /\ Unwritten("runs") /\ Stage = "ensembles" /\ Evidenced(before, build, "ensembles")
    <3>1. At("ensembles") /\ build' = SelectEnsembles(build) /\ Unwritten("runs")
      BY <1>3 DEF Ensembles
    <3> QED BY <3>1, RunningAt
  <2>2. Selection(silver, build, "ensembles") /\ Curated(build, gold, "ensembles")
    BY <2>1 DEF IInv
  <2>3. Selection(silver, build', "runs") /\ Recorded(silver, build')
    BY <1>1, <2>1, <2>2, SelectEnsemblesSelects
  <2>4. Curated(build', gold, "runs")
    <3>1. [gold EXCEPT !.made = 0] = EmptyGold /\ DOMAIN gold = DOMAIN EmptyGold
      BY <2>2 DEF Curated
    <3> QED BY <3>1, EmptyIsCurated
  <2>5. Copied(silver, build, gold, "ensembles") => Copied(silver, build', gold, "runs")
    BY <2>3, SelectingCopiesNothing
  <2>6. Evidenced(before, build', "runs")
    BY <2>1, <2>2, EnsemblesEvidenced
  <2>7. Credited(silver, build', gold, "runs")
    BY DEF Credited
  <2> QED BY <2>1, <2>3, <2>4, <2>5, <2>6, <2>7, UnwrittenStep
<1>4. ASSUME NEW p \in {"claims", "walk", "literals"}, NEW q \in {"walk", "literals", "others"},
             At(p), Unwritten(q), Selection(silver, build', q), Recorded(silver, build) => Recorded(silver, build'),
             Kept(build) \subseteq Kept(build'), build'.unevidenced = build.unevidenced,
             build'.roots = build.roots, build'.counts = build.counts, build'.config = build.config,
             build'.persons = build.persons, build'.ensembles = build.ensembles,
             build'.keptRoots = build.keptRoots, build'.keptEnsembles = build.keptEnsembles
      PROVE  IInv'
  <2>1. Stage = p /\ Evidenced(before, build, p)
    BY <1>4, AtStage DEF At
  <2>2. Curated(build, gold, p)
    BY <2>1 DEF IInv
  <2>3. Curated(build', gold, q)
    BY <1>4, <2>2, KeepingMore
  <2>4. Copied(silver, build, gold, p) => Copied(silver, build', gold, q)
    <3>1. Copied(silver, build, gold, p) => Recorded(silver, build')
      BY <1>4 DEF Copied
    <3> QED BY <1>4, <3>1, SelectingCopiesNothing
  <2>5. Evidenced(before, build', q)
    BY <1>4, <2>1, EvidenceStays
  <2>6. Credited(silver, build', gold, q)
    BY <1>4 DEF Credited
  <2> QED BY <1>4, <2>3, <2>4, <2>5, <2>6, UnwrittenStep
<1>5. CASE CollectClaims
  <2>1. At("claims") /\ build' = CollectPersonClaims(silver, build) /\ Unwritten("walk") /\ Stage = "claims"
    BY <1>5, AtStage DEF CollectClaims, At
  <2>2. Selection(silver, build, "claims")
    BY <2>1 DEF IInv
  <2>3. Selection(silver, build', "walk") /\ (Recorded(silver, build) => Recorded(silver, build'))
    BY <1>1, <2>1, <2>2, CollectSelects
  <2>4. /\ build'.roots = build.roots /\ build'.counts = build.counts /\ build'.config = build.config
        /\ build'.persons = build.persons /\ build'.ensembles = build.ensembles
        /\ build'.keptRoots = build.keptRoots /\ build'.keptEnsembles = build.keptEnsembles
        /\ build'.unevidenced = build.unevidenced
        /\ build'.keptOther = build.keptOther
    BY <2>1, <2>2 DEF CollectPersonClaims, Selection, NewBuild
  <2> QED BY <1>4, <2>1, <2>3, <2>4 DEF Kept
<1>6. CASE Walk /\ build.frontier # {}
  <2>1. At("walk") /\ build' = WalkRound(silver, build) /\ Unwritten("walk") /\ Stage = "walk"
    BY <1>6, AtStage DEF Walk, At
  <2>2. Selection(silver, build, "walk")
    BY <2>1 DEF IInv
  <2>3. Selection(silver, build', "walk") /\ (Recorded(silver, build) => Recorded(silver, build'))
    BY <1>1, <2>1, <2>2, WalkRoundSelects
  <2>4. /\ build'.roots = build.roots /\ build'.counts = build.counts /\ build'.config = build.config
        /\ build'.persons = build.persons /\ build'.ensembles = build.ensembles
        /\ build'.keptRoots = build.keptRoots /\ build'.keptEnsembles = build.keptEnsembles
        /\ build'.unevidenced = build.unevidenced
        /\ build.keptOther \subseteq build'.keptOther
    BY <2>1, <2>2 DEF WalkRound, Selection, NewBuild
  <2> QED BY <1>4, <2>1, <2>3, <2>4 DEF Kept
<1>7. CASE Walk /\ ~(build.frontier # {})
  <2>1. At("walk") /\ build' = WalkEnd(build) /\ Unwritten("literals") /\ Stage = "walk"
    BY <1>7, AtStage DEF Walk, At
  <2>2. Selection(silver, build, "walk")
    BY <2>1 DEF IInv
  <2>3. Selection(silver, build', "literals") /\ (Recorded(silver, build) => Recorded(silver, build'))
    BY <1>1, <2>1, <2>2, WalkEndSelects
  <2>4. /\ build'.roots = build.roots /\ build'.counts = build.counts /\ build'.config = build.config
        /\ build'.persons = build.persons /\ build'.ensembles = build.ensembles
        /\ build'.keptRoots = build.keptRoots /\ build'.keptEnsembles = build.keptEnsembles
        /\ build'.unevidenced = build.unevidenced
        /\ build.keptOther \subseteq build'.keptOther
    BY <2>1, <2>2 DEF WalkEnd, Selection, NewBuild
  <2> QED BY <1>4, <2>1, <2>3, <2>4 DEF Kept
<1>8. CASE Literals
  <2>1. At("literals") /\ build' = CollectLiterals(silver, build) /\ Unwritten("others") /\ Stage = "literals"
    BY <1>8, AtStage DEF Literals, At
  <2>2. Selection(silver, build, "literals")
    BY <2>1 DEF IInv
  <2>3. Selection(silver, build', "others") /\ (Recorded(silver, build) => Recorded(silver, build'))
    BY <1>1, <2>1, <2>2, LiteralsSelect
  <2>4. /\ build'.roots = build.roots /\ build'.counts = build.counts /\ build'.config = build.config
        /\ build'.persons = build.persons /\ build'.ensembles = build.ensembles
        /\ build'.keptRoots = build.keptRoots /\ build'.keptEnsembles = build.keptEnsembles
        /\ build'.unevidenced = build.unevidenced
        /\ build'.keptOther = build.keptOther
    BY <2>1, <2>2 DEF CollectLiterals, Selection, NewBuild
  <2> QED BY <1>4, <2>1, <2>3, <2>4 DEF Kept
<1> QED BY <1>2, <1>3, <1>5, <1>6, <1>7, <1>8

\* What gold has copied depends on what a build keeps, and not on its rows.
LEMMA DropCopiesNothing ==
    ASSUME NEW s, NEW b, Selection(s, b, "others"), NEW n, n = DropPrunedObjects(b)
    PROVE  /\ \A g : Curated(b, g, "records") => Curated(n, g, "records")
           /\ \A g : Copied(s, b, g, "records") => Copied(s, n, g, "records")
           /\ /\ n.roots = b.roots /\ n.counts = b.counts /\ n.config = b.config /\ n.persons = b.persons
              /\ n.ensembles = b.ensembles /\ n.keptRoots = b.keptRoots /\ n.keptEnsembles = b.keptEnsembles
              /\ n.unevidenced = b.unevidenced
<1>1. /\ n.roots = b.roots /\ n.counts = b.counts /\ n.config = b.config /\ n.persons = b.persons
      /\ n.ensembles = b.ensembles /\ n.keptRoots = b.keptRoots /\ n.keptEnsembles = b.keptEnsembles
      /\ n.unevidenced = b.unevidenced /\ n.rows \subseteq b.rows
      /\ n.keptMembers = b.keptMembers /\ n.keptOther = b.keptOther
  BY DEF DropPrunedObjects, Selection, NewBuild
<1>2. Kept(n) = Kept(b)
  BY <1>1 DEF Kept
<1>3. RecordOwners(n) = RecordOwners(b)
  BY <1>1 DEF RecordOwners, EnsembleMembers, Root
<1> QED BY <1>1, <1>2, <1>3 DEF Curated, Copied, Recorded

\* The phases that copy, and leave the build as it is.
LEMMA CopyStep ==
    ASSUME IInv, NEW p, NEW q, NEW g, At(p), Written(g, q), build' = build,
           \/ p = "runs" /\ q = "kept persons"
           \/ p = "kept persons" /\ q = "claims"
           \/ p \in WithEntities \ {"published"} /\ q \in WithEntities \ {"published"},
           Curated(build, g, q), Copied(silver, build, gold, p) => Copied(silver, build, g, q),
           gold.credits \subseteq g.credits,
           q \in WithConcerts => p \in WithConcerts \/ CreditsCopied(silver, build, g, "concert"),
           q \in WithRecordings => p \in WithRecordings \/ CreditsCopied(silver, build, g, "recording")
    PROVE  IInv'
<1> USE DEF Stages, Selected, Judged, WithRuns, WithPersons, WalkEnded, WithEntities, WithRecords, WithWorks, WithMentions, WithConcerts, WithRecordings
<1>1. /\ p \in Stages \ {"idle", "published"} /\ q \in Stages \ {"idle", "published"}
      /\ p \in Judged /\ q \in Judged
  OBVIOUS
<1>2. Stage = p /\ Evidenced(before, build, p)
  BY <1>1, AtStage DEF At
<1>3. Selection(silver, build, p)
  BY <1>2 DEF IInv
<1>4. Selection(silver, build, q)
  BY <1>3, CopiesSelectNothing
<1>5. Evidenced(before, build, q)
  BY <1>1, <1>2, EvidenceStays
<1>6. Credited(silver, build, gold, p) => Credited(silver, build, g, q)
  BY CreditsOnceCopied
<1> QED BY <1>1, <1>4, <1>5, <1>6, WrittenStep

\* What a phase writes keeps the credits that are there.
LEMMA CreditsStay ==
    ASSUME NEW s, NEW b, NEW g, NEW p, Curated(b, g, p),
           NEW n, \/ \E ids : n = CopyEntities(s, b, g, ids)
                  \/ n = [g EXCEPT !.runs = s.runs]
                  \/ n = CopyRecords(s, b, g)
                  \/ n = [g EXCEPT !.claims = b.rows]
                  \/ n = CopyWorks(s, b, g)
                  \/ n = [g EXCEPT !.titles = s.titles]
                  \/ n = [g EXCEPT !.links = s.links]
                  \/ n = CopyMentions(s, b, g)
                  \/ n = CopyWorkEntities(s, b, g)
                  \/ n = RecountProgrammes(g)
    PROVE  g.credits \subseteq n.credits
<1>0. "credits" \in DOMAIN g
  BY DEF Curated, EmptyGold
<1>1. CASE \E ids : n = CopyEntities(s, b, g, ids)
  <2>1. PICK ids : n = CopyEntities(s, b, g, ids)
    BY <1>1
  <2> QED BY <1>0, <2>1 DEF CopyEntities
<1>2. CASE n = [g EXCEPT !.runs = s.runs]
  BY <1>0, <1>2
<1>3. CASE n = CopyRecords(s, b, g)
  BY <1>0, <1>3 DEF CopyRecords
<1>4. CASE n = [g EXCEPT !.claims = b.rows]
  BY <1>0, <1>4
<1>5. CASE n = CopyWorks(s, b, g)
  BY <1>0, <1>5 DEF CopyWorks
<1>6. CASE n = [g EXCEPT !.titles = s.titles] \/ n = [g EXCEPT !.links = s.links]
  BY <1>0, <1>6
<1>7. CASE n = CopyMentions(s, b, g)
  BY <1>0, <1>7 DEF CopyMentions
<1>8. CASE n = CopyWorkEntities(s, b, g)
  BY <1>0, <1>8 DEF CopyWorkEntities
<1>9. CASE n = RecountProgrammes(g)
  BY <1>0, <1>9 DEF RecountProgrammes
<1> QED BY <1>1, <1>2, <1>3, <1>4, <1>5, <1>6, <1>7, <1>8, <1>9

LEMMA CopyRunsStep == IInv /\ CopyRuns => IInv'
<1> SUFFICES ASSUME IInv, CopyRuns PROVE IInv'
  OBVIOUS
<1>1. PICK g : g = [gold EXCEPT !.runs = silver.runs]
  OBVIOUS
<1>2. At("runs") /\ Written(g, "kept persons") /\ build' = build
  BY <1>1 DEF CopyRuns
<1> USE DEF Stages, Selected, Judged, WithRuns, WithPersons, WalkEnded, WithEntities, WithRecords, WithWorks, WithMentions, WithConcerts, WithRecordings
<1>3. Stage = "runs"
  BY <1>2, AtStage DEF At
<1>4. Curated(build, gold, "runs")
  BY <1>3 DEF IInv
<1>5. Curated(build, g, "kept persons") /\ (Copied(silver, build, gold, "runs") => Copied(silver, build, g, "kept persons"))
  BY <1>1, <1>4, RunsAreCopied
<1>6. gold.credits \subseteq g.credits
  BY <1>1, <1>4, CreditsStay
<1> QED BY <1>2, <1>5, <1>6, CopyStep

LEMMA CopyPersonsStep == IInv /\ CopyPersons => IInv'
<1> SUFFICES ASSUME IInv, CopyPersons PROVE IInv'
  OBVIOUS
<1>1. PICK g : g = CopyEntities(silver, build, gold, build.keptRoots)
  OBVIOUS
<1>2. At("kept persons") /\ Written(g, "claims") /\ build' = build
  BY <1>1 DEF CopyPersons
<1> USE DEF Stages, Selected, Judged, WithRuns, WithPersons, WalkEnded, WithEntities, WithRecords, WithWorks, WithMentions, WithConcerts, WithRecordings
<1>3. Stage = "kept persons"
  BY <1>2, AtStage DEF At
<1>4. Curated(build, gold, "kept persons") /\ Selection(silver, build, "kept persons")
  BY <1>3 DEF IInv
<1>5. build.keptRoots \subseteq Kept(build) /\ build.keptRoots \subseteq DOMAIN silver.kinds
  <2>1. build.keptRoots \subseteq Kept(build)
    BY DEF Kept
  <2> QED BY <1>4, <2>1, KeptLemma, SilverStands DEF Selection
<1>6. Curated(build, g, "claims") /\ (Copied(silver, build, gold, "kept persons") => Copied(silver, build, g, "claims"))
  BY <1>1, <1>4, <1>5, EntitiesAreCopied
<1>7. gold.credits \subseteq g.credits
  <2>1. \E ids : g = CopyEntities(silver, build, gold, ids)
    BY <1>1
  <2> QED BY <1>4, <2>1, CreditsStay
<1> QED BY <1>2, <1>6, <1>7, CopyStep

LEMMA CopyOthersStep == IInv /\ CopyOthers => IInv'
<1> SUFFICES ASSUME IInv, CopyOthers PROVE IInv'
  OBVIOUS
<1>1. PICK g : g = CopyEntities(silver, build, gold, build.keptOther)
  OBVIOUS
<1>2. PICK n : n = DropPrunedObjects(build)
  OBVIOUS
<1>3. At("others") /\ Written(g, "records") /\ build' = n
  BY <1>1, <1>2 DEF CopyOthers
<1> USE DEF Stages, Selected, Judged, WithRuns, WithPersons, WalkEnded, WithEntities, WithRecords, WithWorks, WithMentions, WithConcerts, WithRecordings
<1>4. Stage = "others" /\ Evidenced(before, build, "others")
  BY <1>3, RunningAt
<1>5. Curated(build, gold, "others") /\ Selection(silver, build, "others")
  BY <1>4 DEF IInv
<1>6. build.keptOther \subseteq Kept(build) /\ build.keptOther \subseteq DOMAIN silver.kinds
  <2>1. build.keptOther \subseteq Kept(build)
    BY DEF Kept
  <2> QED BY <1>5, <2>1, KeptLemma, SilverStands DEF Selection
<1>7. Curated(build, g, "records") /\ (Copied(silver, build, gold, "others") => Copied(silver, build, g, "records"))
  BY <1>1, <1>5, <1>6, EntitiesAreCopied
<1>8. Curated(n, g, "records") /\ (Copied(silver, build, gold, "others") => Copied(silver, n, g, "records"))
  BY <1>2, <1>5, <1>7, DropCopiesNothing
<1>9. Selection(silver, n, "records")
  BY <1>2, <1>5, SilverStands, DropSelects
<1>10. gold.credits \subseteq g.credits
  <2>1. \E ids : g = CopyEntities(silver, build, gold, ids)
    BY <1>1
  <2> QED BY <1>5, <2>1, CreditsStay
<1>11. Evidenced(before, n, "records")
  <2>1. /\ n.roots = build.roots /\ n.counts = build.counts /\ n.config = build.config /\ n.persons = build.persons
        /\ n.ensembles = build.ensembles /\ n.keptRoots = build.keptRoots /\ n.keptEnsembles = build.keptEnsembles
        /\ n.unevidenced = build.unevidenced
    BY <1>2, <1>5, DropCopiesNothing
  <2> QED BY <1>4, <2>1, EvidenceStays
<1>12. Credited(silver, n, g, "records")
  BY DEF Credited
<1> QED BY <1>3, <1>8, <1>9, <1>11, <1>12, WrittenStep

\* The phases that copy what refers to entities, each in a case of its own.
LEMMA RowsStep ==
    IInv /\ (Records \/ InsertClaims \/ Works \/ Titles \/ Links \/ Mentions \/ WorkEntities \/ Concerts \/ Recordings) => IInv'
<1> SUFFICES ASSUME IInv,
                    Records \/ InsertClaims \/ Works \/ Titles \/ Links \/ Mentions \/ WorkEntities \/ Concerts \/ Recordings
             PROVE  IInv'
  OBVIOUS
<1> USE DEF Stages, Selected, Judged, WithRuns, WithPersons, WalkEnded, WithEntities, WithRecords, WithWorks, WithMentions, WithConcerts, WithRecordings
<1>1. Stands(silver)
  BY SilverStands
<1>2. ASSUME NEW p \in WithEntities \ {"published"}, At(p)
      PROVE  Selection(silver, build, p) /\ Curated(build, gold, p)
  <2>1. Stage = p
    BY <1>2, AtStage DEF At
  <2> QED BY <2>1 DEF IInv
<1>3. CASE Records
  <2>1. PICK g : g = CopyRecords(silver, build, gold)
    OBVIOUS
  <2>2. At("records") /\ Written(g, "insert claims") /\ build' = build
    BY <1>3, <2>1 DEF Records
  <2>3. Selection(silver, build, "records") /\ Curated(build, gold, "records")
    BY <1>2, <2>2
  <2>4. Curated(build, g, "insert claims") /\ (Copied(silver, build, gold, "records") => Copied(silver, build, g, "insert claims"))
    BY <1>1, <2>1, <2>3, RecordsAreCopied
  <2>5. gold.credits \subseteq g.credits
    BY <2>1, <2>3, CreditsStay
  <2> QED BY <2>2, <2>4, <2>5, CopyStep
<1>4. CASE InsertClaims
  <2>1. PICK g : g = [gold EXCEPT !.claims = build.rows]
    OBVIOUS
  <2>2. At("insert claims") /\ Written(g, "works") /\ build' = build
    BY <1>4, <2>1 DEF InsertClaims
  <2>3. Selection(silver, build, "insert claims") /\ Curated(build, gold, "insert claims")
    BY <1>2, <2>2
  <2>4. Curated(build, g, "works") /\ (Copied(silver, build, gold, "insert claims") => Copied(silver, build, g, "works"))
    BY <1>1, <2>1, <2>3, ClaimsAreInserted
  <2>5. gold.credits \subseteq g.credits
    <3> HIDE DEF WithRuns, WithPersons, WalkEnded, WithEntities, WithRecords, WithWorks, WithMentions, WithConcerts, WithRecordings
    <3>1. "credits" \in DOMAIN gold
      BY <2>3 DEF Curated, EmptyGold
    <3> QED BY <2>1, <3>1 DEF CopyRecords
  <2> QED BY <2>2, <2>4, <2>5, CopyStep
<1>5. CASE Works
  <2>1. PICK g : g = CopyWorks(silver, build, gold)
    OBVIOUS
  <2>2. At("works") /\ Written(g, "titles") /\ build' = build
    BY <1>5, <2>1 DEF Works
  <2>3. Selection(silver, build, "works") /\ Curated(build, gold, "works")
    BY <1>2, <2>2
  <2>4. Curated(build, g, "titles") /\ (Copied(silver, build, gold, "works") => Copied(silver, build, g, "titles"))
    BY <1>1, <2>1, <2>3, WorksAreCopied
  <2>5. gold.credits \subseteq g.credits
    BY <2>1, <2>3, CreditsStay
  <2> QED BY <2>2, <2>4, <2>5, CopyStep
<1>6. CASE Titles
  <2>1. PICK g : g = [gold EXCEPT !.titles = silver.titles]
    OBVIOUS
  <2>2. At("titles") /\ Written(g, "links") /\ build' = build
    BY <1>6, <2>1 DEF Titles
  <2>3. Selection(silver, build, "titles") /\ Curated(build, gold, "titles")
    BY <1>2, <2>2
  <2>4. Curated(build, g, "links") /\ (Copied(silver, build, gold, "titles") => Copied(silver, build, g, "links"))
    BY <1>1, <2>1, <2>3, TitlesAreCopied
  <2>5. gold.credits \subseteq g.credits
    BY <2>1, <2>3, CreditsStay
  <2> QED BY <2>2, <2>4, <2>5, CopyStep
<1>7. CASE Links
  <2>1. PICK g : g = [gold EXCEPT !.links = silver.links]
    OBVIOUS
  <2>2. At("links") /\ Written(g, "mentions") /\ build' = build
    BY <1>7, <2>1 DEF Links
  <2>3. Selection(silver, build, "links") /\ Curated(build, gold, "links")
    BY <1>2, <2>2
  <2>4. Curated(build, g, "mentions") /\ (Copied(silver, build, gold, "links") => Copied(silver, build, g, "mentions"))
    BY <1>1, <2>1, <2>3, LinksAreCopied
  <2>5. gold.credits \subseteq g.credits
    BY <2>1, <2>3, CreditsStay
  <2> QED BY <2>2, <2>4, <2>5, CopyStep
<1>8. CASE Mentions
  <2>1. PICK g : g = CopyMentions(silver, build, gold)
    OBVIOUS
  <2>2. At("mentions") /\ Written(g, "work entities") /\ build' = build
    BY <1>8, <2>1 DEF Mentions
  <2>3. Selection(silver, build, "mentions") /\ Curated(build, gold, "mentions")
    BY <1>2, <2>2
  <2>4. Curated(build, g, "work entities") /\ (Copied(silver, build, gold, "mentions") => Copied(silver, build, g, "work entities"))
    BY <1>1, <2>1, <2>3, MentionsAreCopied
  <2>5. gold.credits \subseteq g.credits
    BY <2>1, <2>3, CreditsStay
  <2> QED BY <2>2, <2>4, <2>5, CopyStep
<1>9. CASE WorkEntities
  <2>1. PICK g : g = CopyWorkEntities(silver, build, gold)
    OBVIOUS
  <2>2. At("work entities") /\ Written(g, "concerts") /\ build' = build
    BY <1>9, <2>1 DEF WorkEntities
  <2>3. Selection(silver, build, "work entities") /\ Curated(build, gold, "work entities")
    BY <1>2, <2>2
  <2>4. Curated(build, g, "concerts") /\ (Copied(silver, build, gold, "work entities") => Copied(silver, build, g, "concerts"))
    BY <1>1, <2>1, <2>3, WorkEntitiesAreCopied
  <2>5. gold.credits \subseteq g.credits
    BY <2>1, <2>3, CreditsStay
  <2> QED BY <2>2, <2>4, <2>5, CopyStep
<1>10. CASE Concerts
  <2>1. PICK g : g = CopyEvents(silver, build, gold, "concert")
    OBVIOUS
  <2>2. At("concerts") /\ Written(g, "recordings") /\ build' = build
    BY <1>10, <2>1 DEF Concerts
  <2>3. Selection(silver, build, "concerts") /\ Curated(build, gold, "concerts")
    BY <1>2, <2>2
  <2>4. /\ Curated(build, g, "recordings")
        /\ Copied(silver, build, gold, "concerts") => Copied(silver, build, g, "recordings")
        /\ CreditsCopied(silver, build, g, "concert")
        /\ gold.credits \subseteq g.credits
    <3> HIDE DEF WithRuns, WithPersons, WalkEnded, WithEntities, WithRecords, WithWorks, WithMentions, WithConcerts, WithRecordings
    <3>1. PICK p, q, kind : p = "concerts" /\ q = "recordings" /\ kind = "concert"
      OBVIOUS
    <3>2. Selection(silver, build, p) /\ Curated(build, gold, p) /\ g = CopyEvents(silver, build, gold, kind)
      BY <2>1, <2>3, <3>1
    <3> QED BY <1>1, <3>1, <3>2, EventsAreCopied
  <2> QED BY <2>2, <2>4, CopyStep
<1>11. CASE Recordings
  <2>1. PICK g : g = CopyEvents(silver, build, gold, "recording")
    OBVIOUS
  <2>2. At("recordings") /\ Written(g, "programmes") /\ build' = build
    BY <1>11, <2>1 DEF Recordings
  <2>3. Selection(silver, build, "recordings") /\ Curated(build, gold, "recordings")
    BY <1>2, <2>2
  <2>4. /\ Curated(build, g, "programmes")
        /\ Copied(silver, build, gold, "recordings") => Copied(silver, build, g, "programmes")
        /\ CreditsCopied(silver, build, g, "recording")
        /\ gold.credits \subseteq g.credits
    <3> HIDE DEF WithRuns, WithPersons, WalkEnded, WithEntities, WithRecords, WithWorks, WithMentions, WithConcerts, WithRecordings
    <3>1. PICK p, q, kind : p = "recordings" /\ q = "programmes" /\ kind = "recording"
      OBVIOUS
    <3>2. Selection(silver, build, p) /\ Curated(build, gold, p) /\ g = CopyEvents(silver, build, gold, kind)
      BY <2>1, <2>3, <3>1
    <3> QED BY <1>1, <3>1, <3>2, EventsAreCopied
  <2> QED BY <2>2, <2>4, CopyStep
<1> QED BY <1>3, <1>4, <1>5, <1>6, <1>7, <1>8, <1>9, <1>10, <1>11

\* The recount of programmes changes no row that is referred to.
LEMMA ProgrammesStep == IInv /\ Programmes => IInv'
<1> SUFFICES ASSUME IInv, Programmes PROVE IInv'
  OBVIOUS
<1>1. PICK g : g = RecountProgrammes(gold)
  OBVIOUS
<1>2. At("programmes") /\ Written(g, "publish") /\ build' = build
  BY <1>1 DEF Programmes
<1> USE DEF Stages, Selected, Judged, WithRuns, WithPersons, WalkEnded, WithEntities, WithRecords, WithWorks, WithMentions, WithConcerts, WithRecordings
<1>3. Stage = "programmes"
  BY <1>2, AtStage DEF At
<1>4. Selection(silver, build, "programmes") /\ Curated(build, gold, "programmes")
  BY <1>3 DEF IInv
<1>5. DOMAIN g = DOMAIN gold /\ DOMAIN gold = DOMAIN EmptyGold
  BY <1>1, <1>4 DEF RecountProgrammes, Curated
<1>6. \A table \in DOMAIN EmptyGold \ {"connections", "programmes", "made"} : g[table] = gold[table]
  BY <1>1, <1>5 DEF RecountProgrammes
<1>7. /\ Curated(build, g, "publish")
      /\ Copied(silver, build, gold, "programmes") => Copied(silver, build, g, "publish")
  BY <1>4, <1>5, <1>6, SameRowsStand
<1>8. gold.credits \subseteq g.credits
  BY <1>1, <1>4, CreditsStay
<1> QED BY <1>2, <1>7, <1>8, CopyStep

\* The swap.
LEMMA PublishStep == IInv /\ Publish => IInv'
<1> SUFFICES ASSUME IInv, Publish PROVE IInv'
  OBVIOUS
<1>1. /\ phase = "publish" /\ live' = gold /\ status' = "complete" /\ phase' = "idle" /\ backend' = backend
      /\ silver' = silver /\ disturbed' = disturbed /\ before' = before /\ build' = build /\ gold' = gold
  BY DEF Publish, history
<1> USE DEF Stages, Selected, Judged, WithRuns, WithPersons, WalkEnded, WithEntities, WithRecords, WithWorks, WithMentions, WithConcerts, WithRecordings
<1>2. Stage = "publish" /\ Stage' = "published" /\ Evidenced(before, build, "publish")
  <2>1. Stage = "publish"
    BY <1>1, AtStage
  <2> QED BY <1>1, <2>1 DEF IInv, Stage, Published
<1>3. Progress'
  <2>1. DOMAIN gold = DOMAIN EmptyGold
    BY DEF IInv, Curated
  <2> QED BY <1>1, <1>2, <2>1 DEF IInv, Progress, Published
<1>4. Selection(silver, build, "published")
  BY <1>2, CopiesSelectNothing DEF IInv
<1>5. /\ Curated(build, gold, "published")
      /\ Copied(before, build, gold, "publish") => Copied(before, build, gold, "published")
      /\ Credited(before, build, gold, "publish") => Credited(before, build, gold, "published")
  BY <1>2, SameRowsStand DEF IInv
<1>6. Evidenced(before, build, "published")
  BY <1>2, EvidenceStays
<1> QED BY <1>1, <1>2, <1>3, <1>4, <1>5, <1>6 DEF IInv

\* A commit disturbs the promote that is under way, and no more.
LEMMA CommitStep == IInv /\ LoadsCommit => IInv'
<1> SUFFICES ASSUME IInv, LoadsCommit PROVE IInv'
  OBVIOUS
<1>1. PICK c \in Late : silver' = Committed(silver, c)
  BY DEF LoadsCommit
<1>2. /\ disturbed' = (disturbed \/ phase # "idle") /\ before' = before /\ backend' = backend /\ phase' = phase
      /\ build' = build /\ gold' = gold /\ live' = live /\ status' = status
  BY DEF LoadsCommit, promote
<1>3. PICK s : s = Committed(silver, c)
  OBVIOUS
<1>4. s \in SilverStates /\ Grown(silver, s)
  BY <1>3, SilverAssumption DEF SilverAssumption, IInv, Progress
<1>5. phase # "idle" => Grown(before, s)
  BY <1>4 DEF IInv, Progress, Grown
<1>6. Stage' = Stage
  BY <1>2 DEF Stage, Published
<1>7. Selection(s, build, Stage)
  BY <1>4, GrowthKeepsSelection DEF IInv
<1>8. Progress'
  BY <1>1, <1>2, <1>3, <1>4, <1>5, <1>6 DEF IInv, Progress, Published
<1>9. ~disturbed' => ~disturbed
  BY <1>2
<1> QED BY <1>1, <1>2, <1>3, <1>6, <1>7, <1>8, <1>9 DEF IInv

\* An edit of the rule 1 file, an export but for the snapshot it stores, and no step at all.
LEMMA OtherSteps ==
    ASSUME IInv, silver' = silver, backend' = backend, disturbed' = disturbed, before' = before, phase' = phase, build' = build,
           gold' = gold, status' = status,
           DOMAIN live' = DOMAIN live,
           \A table \in DOMAIN EmptyGold \ {"connections"} : live'[table] = live[table]
    PROVE  IInv'
<1>1. Stage' = Stage
  BY DEF Stage, Published
<1>2. Progress'
  BY <1>1 DEF IInv, Progress, Published
<1> QED BY <1>1, <1>2 DEF IInv

LEMMA StepLemma == IInv /\ [ExportNext]_allVars => IInv'
<1> SUFFICES ASSUME IInv, [ExportNext]_allVars PROVE IInv'
  OBVIOUS
<1>1. CASE LoadsCommit
  BY <1>1, CommitStep
<1>2. CASE Step
  BY <1>2, StartStep, SelectingStep, CopyRunsStep, CopyPersonsStep, CopyOthersStep, RowsStep, ProgrammesStep, PublishStep DEF Step
<1>3. ASSUME UNCHANGED <<silver, backend, history, promote>> PROVE IInv'
  BY <1>3, OtherSteps DEF promote, history
<1>4. CASE Edits
  BY <1>4, <1>3 DEF Edits
<1>5. ASSUME NEW x \in Exporters, Snapshot(x) PROVE IInv'
  <2>1. /\ silver' = silver /\ backend' = backend /\ disturbed' = disturbed /\ before' = before
        /\ phase' = phase /\ build' = build
        /\ gold' = gold /\ status' = status
        /\ live' = live \/ live' = [live EXCEPT !.connections = Snapshots]
    BY <1>5 DEF Snapshot, history
  <2>2. DOMAIN live = DOMAIN EmptyGold
    BY DEF IInv, Progress
  <2>3. DOMAIN live' = DOMAIN live
    BY <2>1
  <2>4. \A table \in DOMAIN EmptyGold \ {"connections"} : live'[table] = live[table]
    BY <2>1, <2>2
  <2> QED BY <2>1, <2>3, <2>4, OtherSteps
<1>6. ASSUME NEW x \in Exporters, Reset(x) \/ Again(x) \/ Stop(x) PROVE IInv'
  BY <1>6, <1>3 DEF Reset, Again, Stop, unspent, vars
<1>7. ASSUME NEW x \in Exporters, \/ CreateEntities(x) \/ CreateWorks(x) \/ CreateEvents(x) \/ RelateWorks(x)
                                  \/ RelateEvents(x) \/ RelateClaims(x) \/ Annotate(x)
      PROVE IInv'
  <2>1. UNCHANGED vars
    BY <1>7 DEF CreateEntities, CreateWorks, CreateEvents, RelateWorks, RelateEvents, RelateClaims, Annotate, CreateNodes, Relate, Moves
  <2> QED BY <2>1, <1>3 DEF vars
<1>8. CASE KumuEdges \/ KumuElements
  BY <1>8, <1>3 DEF KumuEdges, KumuElements, unspent, vars
<1>9. CASE UNCHANGED allVars
  BY <1>9, <1>3 DEF allVars, vars
<1> QED BY <1>1, <1>2, <1>4, <1>5, <1>6, <1>7, <1>8, <1>9 DEF ExportNext, Export, Next

\* Whatever loads, edits, promotes and exports do and in whatever order, what is kept is
\* roots, gold speaks of nothing else, and a promote that nobody disturbs has copied what
\* later rows refer to (promote.py's order of phases, _selection.py, _claims.py, _copy.py).
THEOREM Invariant == ExportSpec => []IInv
<1>1. ExportInit => IInv
  BY InitHolds DEF ExportInit
<1> QED BY <1>1, StepLemma, PTL DEF ExportSpec

----------------------------------------------------------------------------
(* What a promote must do *)

\* A promote that nobody disturbs does not fail, and what is published refers to no row
\* that is missing; on Postgres, whatever commits meanwhile (promote.py, _copy.py).
THEOREM PromotesStand == ExportSpec => []PromoteStands
<1>1. IInv => PromoteStands
  <2> SUFFICES ASSUME IInv, Published, ~disturbed \/ backend = "postgres" PROVE RefersToRows(live)
    BY DEF IInv, PromoteStands
  <2>1. Stage = "published" /\ "published" \in WithRecordings /\ Stage # "idle"
    BY DEF Stage, WithRecordings
  <2>2. RefersToRows(gold) /\ DOMAIN live = DOMAIN gold
    BY <2>1 DEF IInv, Copied, Curated, Progress
  <2>3. \A table \in DOMAIN EmptyGold \ {"connections", "programmes", "made"} : live[table] = gold[table]
    BY DEF IInv, Progress
  <2> QED BY <2>1, <2>2, <2>3, SameRowsStand
<1> QED BY <1>1, Invariant, PTL

\* A published build goes by the links, the entities and the credits of the silver it began on.
LEMMA PublishedGoesByBefore ==
    ASSUME IInv, Published
    PROVE  /\ Stage = "published" /\ Stands(before) /\ RootsOf(before, build)
           /\ build.persons = OfKind(before, "person") /\ build.ensembles = OfKind(before, "ensemble")
           /\ build.counts = AppearanceCounts(before, build)
           /\ \A e : Canonical(e) = Root(build, e)
           /\ AppearanceRoots(build, build.persons, build.config.persons) \subseteq build.keptRoots
           /\ AppearanceRoots(build, build.ensembles, build.config.ensembles) \subseteq build.keptEnsembles
           /\ build.config.evidence =>
                Roots(build, build.ensembles) \ AppearanceRoots(build, build.ensembles, build.config.ensembles)
                \subseteq build.unevidenced
<1>1. Stage = "published" /\ Stands(before)
  BY SilverAssumption DEF SilverAssumption, IInv, Progress, Stage
<1>2. Evidenced(before, build, "published") /\ Opened(before, build)
  BY <1>1 DEF IInv, Evidenced
<1>3. \A e : Canonical(e) = Root(build, e)
  BY <1>2 DEF Opened, Canonical, Root, NoRows
<1>4. RootsOf(before, build)
  BY <1>1, <1>2 DEF Opened, RootsOf, Stands, NoRows
<1>5. "published" \in Selected /\ "published" \in Judged
  BY DEF Selected, Judged, WithRuns, WithPersons, WalkEnded, WithEntities, WithRecords, WithWorks, WithMentions, WithConcerts, WithRecordings
<1> QED BY <1>1, <1>2, <1>3, <1>4, <1>5 DEF Opened, Evidenced

\* Rule 1 counts the events on which any spelling of a name is credited, once each.
LEMMA BilledIsCounted ==
    ASSUME Stands(before), RootsOf(before, build), NEW e \in DOMAIN before.kinds, NEW kind,
           build.counts = AppearanceCounts(before, build), \A x : Canonical(x) = Root(build, x)
    PROVE  /\ Billed(e, kind) = Cardinality(CreditedOn(before, build, Root(build, e), kind))
           /\ Count(build, Root(build, e)) =
                [concerts |-> Cardinality(CreditedOn(before, build, Root(build, e), "concert")),
                 recordings |-> Cardinality(CreditedOn(before, build, Root(build, e), "recording"))]
<1>1. \A c \in before.credits : c.entity \in Spellings(e) <=> c.entity # None /\ Root(build, c.entity) = Root(build, e)
  BY DEF Spellings, Stands
<1>2. {c \in before.credits : c.entity \in Spellings(e) /\ before.events[c.event] = kind}
      = {c \in before.credits : /\ c.entity # None /\ Root(build, c.entity) = Root(build, e)
                                /\ before.events[c.event] = kind}
  BY <1>1
<1>3. Billed(e, kind) = Cardinality(CreditedOn(before, build, Root(build, e), kind))
  BY <1>2 DEF Billed, CreditedOn
<1>4. Root(build, e) \in Roots(build, DOMAIN before.kinds)
  BY DEF Roots
<1> QED BY <1>3, <1>4 DEF Count, AppearanceCounts

\* Whatever commits while gold is built: of what silver had when the promote began, no spelling
\* of another entity is in gold and no ensemble that was billed too little; and every entity
\* that gold speaks of is in gold (_selection.py, _claims.py, _copy.py).
THEOREM CurationStays == ExportSpec => []CurationHolds
<1>1. IInv => CurationHolds
  <2> SUFFICES ASSUME IInv, Published
               PROVE  /\ \A e \in DOMAIN live.kinds \intersect DOMAIN before.kinds :
                            /\ Canonical(e) = e
                            /\ build.config.evidence /\ before.kinds[e] = "ensemble" => Enough(e)
                      /\ Spoken \ {None} \subseteq DOMAIN live.kinds
    BY DEF CurationHolds
  <2>1. /\ live.kinds = gold.kinds /\ live.claims = gold.claims /\ live.credits = gold.credits
        /\ live.works = gold.works /\ live.records = gold.records
    BY DEF IInv, Progress, EmptyGold
  <2>2. Stage = "published" /\ Stage \in WithEntities
    BY PublishedGoesByBefore DEF WithEntities, WithRecords, WithWorks, WithMentions, WithConcerts, WithRecordings
  <2>3. DOMAIN gold.kinds = Kept(build)
    BY <2>2 DEF IInv, Curated
  <2>4. /\ Kept(build) \subseteq {e \in DOMAIN silver.kinds : Root(build, e) = e}
        /\ Kept(build) \intersect build.unevidenced = {}
    BY SilverStands, KeptLemma DEF IInv, Selection
  <2>5. ASSUME NEW e \in DOMAIN live.kinds \intersect DOMAIN before.kinds
        PROVE  /\ Canonical(e) = e
               /\ build.config.evidence /\ before.kinds[e] = "ensemble" => Enough(e)
    <3>1. e \in Kept(build) /\ Root(build, e) = e /\ e \notin build.unevidenced
      BY <2>1, <2>3, <2>4
    <3>2. Canonical(e) = e
      BY <3>1, PublishedGoesByBefore
    <3>3. ASSUME build.config.evidence, before.kinds[e] = "ensemble" PROVE Enough(e)
      <4>1. e \in Roots(build, build.ensembles)
        <5>1. e \in build.ensembles
          BY <3>3, PublishedGoesByBefore DEF OfKind
        <5> QED BY <3>1, <5>1 DEF Roots
      <4>2. e \in AppearanceRoots(build, build.ensembles, build.config.ensembles)
        BY <3>1, <3>3, <4>1, PublishedGoesByBefore
      <4>3. /\ Count(build, e).concerts = Billed(e, "concert")
            /\ Count(build, e).recordings = Billed(e, "recording")
        BY <3>1, BilledIsCounted, PublishedGoesByBefore
      <4> QED BY <3>3, <4>2, <4>3 DEF Enough, AppearanceRoots
    <3> QED BY <3>2, <3>3
  <2>6. Spoken \ {None} \subseteq DOMAIN live.kinds
    <3>1. /\ \A row \in gold.claims : row.subject \in Kept(build) /\ (row.object = None \/ row.object \in Kept(build))
          /\ \A r \in gold.records : r.entity \in Kept(build)
          /\ \A c \in gold.credits : c.entity = None \/ c.entity \in Kept(build)
          /\ \A w \in DOMAIN gold.works : gold.works[w] = None \/ gold.works[w] \in Kept(build)
      BY DEF IInv, Curated
    <3>2. UNION {{row.subject, row.object} : row \in live.claims} \subseteq Kept(build) \union {None}
      BY <2>1, <3>1
    <3>3. {c.entity : c \in live.credits} \union Range(live.works) \union Fields(live.records, "entity")
          \subseteq Kept(build) \union {None}
      BY <2>1, <3>1 DEF Range, Fields
    <3>4. Spoken \subseteq Kept(build) \union {None}
      <4> DEFINE spoken == UNION {{row.subject, row.object} : row \in live.claims}
      <4>1. Spoken = spoken \union {c.entity : c \in live.credits} \union Range(live.works)
                     \union Fields(live.records, "entity")
        BY DEF Spoken
      <4> HIDE DEF spoken
      <4> QED BY <3>2, <3>3, <4>1 DEF spoken
    <3> QED BY <2>1, <2>3, <3>4
  <2> QED BY <2>5, <2>6
<1> QED BY <1>1, Invariant, PTL

\* A linked credit of whoever is billed often enough is linked in gold, to the root of the
\* spelling it names (_selection.py's counts, _copy.py's copy_concerts and copy_recordings).
THEOREM CreditsStaySaid == ExportSpec => []CreditsSurvive
<1>1. IInv => CreditsSurvive
  <2> SUFFICES ASSUME IInv, Published, ~disturbed, NEW c \in before.credits, c.entity # None,
                      before.kinds[c.entity] \in {"person", "ensemble"}, Enough(c.entity)
               PROVE  [c EXCEPT !.entity = Canonical(c.entity)] \in live.credits
    BY DEF CreditsSurvive
  <2> DEFINE e == c.entity
             r == Root(build, e)
  <2>1. /\ Stands(before) /\ RootsOf(before, build) /\ Canonical(e) = r
        /\ build.persons = OfKind(before, "person") /\ build.ensembles = OfKind(before, "ensemble")
    BY PublishedGoesByBefore
  <2>2. KeptAreRoots(silver, build, "published") /\ Credited(before, build, gold, "published")
    BY PublishedGoesByBefore DEF IInv, Selection
  <2>3. CreditsCopied(before, build, gold, "concert") /\ CreditsCopied(before, build, gold, "recording")
    BY <2>2 DEF Credited, WithConcerts, WithRecordings
  <2>4. build.keptEnsembles \subseteq Kept(build) /\ build.keptRoots \subseteq Kept(build)
    BY <2>2 DEF KeptAreRoots, Kept, WalkEnded, WithEntities, WithRecords, WithWorks, WithMentions, WithConcerts, WithRecordings
  <2>5. e \in DOMAIN before.kinds /\ c.event \in DOMAIN before.events /\ before.events[c.event] \in {"concert", "recording"}
    BY <2>1 DEF Stands
  <2>6. /\ Count(build, r).concerts = Billed(e, "concert")
        /\ Count(build, r).recordings = Billed(e, "recording")
    BY <2>5, BilledIsCounted, PublishedGoesByBefore
  <2>7. r \in Kept(build)
    <3>1. CASE before.kinds[e] = "person"
      <4>1. r \in Roots(build, build.persons)
        BY <2>1, <2>5, <3>1 DEF OfKind, Roots
      <4>2. r \in AppearanceRoots(build, build.persons, build.config.persons)
        BY <2>6, <3>1, <4>1 DEF Enough, AppearanceRoots
      <4> QED BY <2>4, <4>2, PublishedGoesByBefore
    <3>2. CASE before.kinds[e] = "ensemble"
      <4>1. r \in Roots(build, build.ensembles)
        BY <2>1, <2>5, <3>2 DEF OfKind, Roots
      <4>2. r \in AppearanceRoots(build, build.ensembles, build.config.ensembles)
        BY <2>6, <3>2, <4>1 DEF Enough, AppearanceRoots
      <4> QED BY <2>4, <4>2, PublishedGoesByBefore
    <3> QED BY <3>1, <3>2
  <2>8. [c EXCEPT !.entity = InGold(build, c.entity)] \in gold.credits
    BY <2>3, <2>5 DEF CreditsCopied
  <2>9. InGold(build, c.entity) = r
    BY <2>7 DEF InGold
  <2>10. live.credits = gold.credits
    BY DEF IInv, Progress, EmptyGold
  <2> QED BY <2>1, <2>8, <2>9, <2>10
<1> QED BY <1>1, Invariant, PTL

----------------------------------------------------------------------------
(* What an export that runs alone makes of gold *)

\* Rows of a set come once each, and those of two sets do that have none in common.
LEMMA RowsOnce ==
    ASSUME NEW S
    PROVE  DOMAIN SetToBag(S) = S /\ \A r \in S : SetToBag(S)[r] = 1
BY DEF SetToBag

LEMMA RowsOfBoth ==
    ASSUME NEW A, NEW B, DOMAIN A \intersect DOMAIN B = {}, \A r \in DOMAIN A : A[r] = 1, \A r \in DOMAIN B : B[r] = 1
    PROVE  DOMAIN (A (+) B) = DOMAIN A \union DOMAIN B /\ \A r \in DOMAIN A \union DOMAIN B : (A (+) B)[r] = 1
BY DEF (+), BagToSet, BagIn

\* Rows that come once each.
Once(rows, S) == DOMAIN rows = S /\ \A r \in S : rows[r] = 1
Disjoint(S, T) == S \intersect T = {}
LEMMA RowsOfSets ==
    ASSUME NEW S, NEW T, Disjoint(S, T)
    PROVE  Once(SetToBag(S) (+) SetToBag(T), S \union T)
<1>1. PICK A, B : A = SetToBag(S) /\ B = SetToBag(T)
  OBVIOUS
<1>2. DOMAIN A = S /\ DOMAIN B = T /\ (\A r \in DOMAIN A : A[r] = 1) /\ (\A r \in DOMAIN B : B[r] = 1)
  BY <1>1, RowsOnce
<1>3. DOMAIN (A (+) B) = DOMAIN A \union DOMAIN B /\ \A r \in DOMAIN A \union DOMAIN B : (A (+) B)[r] = 1
  BY <1>2, RowsOfBoth DEF Disjoint
<1> QED
  BY <1>1, <1>2, <1>3 DEF Once

\* What relationships say of gold stays said when there are more of them.
LEMMA HeardOfMore ==
    ASSUME NEW g, NEW type, NEW rels, NEW more, rels \subseteq more, Heard(g, type, rels)
    PROVE  Heard(g, type, more)
<1>1. \A t, from, to : Joined(rels, t, from, to) => Joined(more, t, from, to)
  BY DEF Joined
<1>2. \A t, from, to, role : (\E r \in rels : <<r.type, r.from, r.to, r.role>> = <<t, from, to, role>>)
                              => \E r \in more : <<r.type, r.from, r.to, r.role>> = <<t, from, to, role>>
  OBVIOUS
<1> QED
  BY <1>1, <1>2 DEF Heard

\* A batch of relationships of types that the graph does not have yet.
Matching(rows) == {r \in DOMAIN rows : {r.from, r.to} \subseteq DOMAIN graph.nodes}
LEMMA BatchSays ==
    ASSUME NEW g, NEW types, NEW more, NEW rows, types \intersect more = {},
           DOMAIN graph = DOMAIN EmptyGraph, Says(g, types),
           \A r \in DOMAIN rows : rows[r] = 1 /\ r.type \in more,
           \A r \in Matching(rows) : Told(g, r),
           \A type \in more : Heard(g, type, Matching(rows)),
           graph' = [graph EXCEPT !.rels = @ (+) Matched(rows)]
    PROVE  /\ \A r \in BagToSet(graph'.rels) : r.type \in types \union more /\ Copies(graph', r) = 1 /\ Told(g, r)
           /\ \A type \in types \union more : Heard(g, type, BagToSet(graph'.rels))
           /\ DOMAIN graph' = DOMAIN EmptyGraph /\ graph'.nodes = graph.nodes
<1> DEFINE A == graph.rels
           B == Matched(rows)
<1>1. DOMAIN B = Matching(rows) /\ \A r \in DOMAIN B : B[r] = 1
  BY DEF Matched, Matching, BagToSet
<1>2. \A r \in DOMAIN A : r.type \in types /\ A[r] = 1 /\ Told(g, r)
  BY DEF Says, Copies, BagIn, BagToSet
<1>3. DOMAIN A \intersect DOMAIN B = {}
  BY <1>1, <1>2 DEF Matching
<1>4. graph'.rels = A (+) B /\ DOMAIN graph' = DOMAIN EmptyGraph /\ graph'.nodes = graph.nodes
  BY DEF EmptyGraph
<1>5. \A type \in types : Heard(g, type, DOMAIN A)
  BY DEF Says, BagToSet
<1> HIDE DEF A, B
<1>6. DOMAIN (A (+) B) = DOMAIN A \union DOMAIN B /\ \A r \in DOMAIN A \union DOMAIN B : (A (+) B)[r] = 1
  BY <1>1, <1>2, <1>3, RowsOfBoth
<1>7. \A r \in BagToSet(graph'.rels) : r.type \in types \union more /\ Copies(graph', r) = 1 /\ Told(g, r)
  BY <1>1, <1>2, <1>4, <1>6 DEF BagToSet, Copies, BagIn, Matching
<1>8. \A type \in types \union more : Heard(g, type, BagToSet(graph'.rels))
  <2> SUFFICES ASSUME NEW type \in types \union more PROVE Heard(g, type, DOMAIN A \union DOMAIN B)
    BY <1>4, <1>6 DEF BagToSet
  <2>1. CASE type \in types
    BY <1>5, <2>1, HeardOfMore
  <2>2. CASE type \in more
    BY <1>1, <2>2, HeardOfMore
  <2> QED
    BY <2>1, <2>2
<1> QED
  BY <1>4, <1>7, <1>8

LEMMA RelFields ==
    ASSUME NEW type, NEW from, NEW to
    PROVE  /\ Rel(type, from, to).type = type /\ Rel(type, from, to).from = from /\ Rel(type, from, to).to = to
           /\ DOMAIN Rel(type, from, to) = {"type", "from", "to", "times", "sources", "role"}
BY DEF Rel

\* What the rows of gold say, of nodes that are all there.
LEMMA WorkRowsSay ==
    ASSUME NEW g, DOMAIN graph.nodes = Nodes(g), NEW rows, rows = ComposedByRows(g) (+) WorkLinkRows(g)
    PROVE  /\ \A r \in DOMAIN rows : rows[r] = 1 /\ r.type \in {"composed_by", "derived_from"}
           /\ \A r \in Matching(rows) : Told(g, r)
           /\ \A type \in {"composed_by", "derived_from"} : Heard(g, type, Matching(rows))
<1> DEFINE A == {Rel("composed_by", w, g.works[w]) : w \in {w \in DOMAIN g.works : g.works[w] \in EntityNodes(g)}}
           B == {Rel("derived_from", l[1], l[2]) : l \in g.links}
<1>1. \A r \in A : r.type = "composed_by" /\ \E w \in DOMAIN g.works : g.works[w] \in EntityNodes(g) /\ r.from = w /\ r.to = g.works[w]
  BY DEF Rel
<1>2. \A r \in B : r.type = "derived_from" /\ \E l \in g.links : r.from = l[1] /\ r.to = l[2]
  BY DEF Rel
<1>3. \A w \in DOMAIN g.works : g.works[w] \in EntityNodes(g) =>
        \E r \in A : r.type = "composed_by" /\ r.from = w /\ r.to = g.works[w]
  <2> SUFFICES ASSUME NEW w \in DOMAIN g.works, g.works[w] \in EntityNodes(g)
               PROVE  \E r \in A : r.type = "composed_by" /\ r.from = w /\ r.to = g.works[w]
    OBVIOUS
  <2>1. Rel("composed_by", w, g.works[w]) \in A
    OBVIOUS
  <2> QED
    BY <2>1, RelFields
<1>4. \A l \in g.links : \E r \in B : r.type = "derived_from" /\ r.from = l[1] /\ r.to = l[2]
  <2> SUFFICES ASSUME NEW l \in g.links
               PROVE  \E r \in B : r.type = "derived_from" /\ r.from = l[1] /\ r.to = l[2]
    OBVIOUS
  <2>1. Rel("derived_from", l[1], l[2]) \in B
    OBVIOUS
  <2> QED
    BY <2>1, RelFields
<1>5. rows = SetToBag(A) (+) SetToBag(B)
  BY DEF ComposedByRows, WorkLinkRows
<1> HIDE DEF A, B
<1>6. A \intersect B = {}
  BY <1>1, <1>2
<1>7. DOMAIN rows = A \union B /\ \A r \in DOMAIN rows : rows[r] = 1
  <2>1. Disjoint(A, B)
    BY <1>6 DEF Disjoint
  <2>2. Once(rows, A \union B)
    BY <1>5, <2>1, RowsOfSets
  <2> QED
    BY <2>2 DEF Once
<1>8. \A r \in DOMAIN rows : Told(g, r) /\ r.type \in {"composed_by", "derived_from"}
  BY <1>1, <1>2, <1>7 DEF Told
<1>9. Heard(g, "composed_by", Matching(rows))
  BY <1>3, <1>7 DEF Heard, Joined, Matching, Nodes
<1>10. Heard(g, "derived_from", Matching(rows))
  BY <1>4, <1>7 DEF Heard, Joined, Matching
<1> QED
  BY <1>7, <1>8, <1>9, <1>10 DEF Matching

LEMMA EventRowsSay ==
    ASSUME NEW g, DOMAIN graph.nodes = Nodes(g), NEW rows, rows = PerformedInRows(g) (+) ProgrammedRows(g)
    PROVE  /\ \A r \in DOMAIN rows : rows[r] = 1 /\ r.type \in {"performed_in", "programmed"}
           /\ \A r \in Matching(rows) : Told(g, r)
           /\ \A type \in {"performed_in", "programmed"} : Heard(g, type, Matching(rows))
<1> DEFINE Linked == {c \in g.credits : c.entity \in EntityNodes(g)}
           Pairs == {p \in {i.event : i \in g.items} \X ({m.work : m \in Range(g.mentions)} \ {None}) :
                        ItemsOf(g, p[1], p[2]) # {}}
           RelC(c) == [Rel("performed_in", c.entity, c.event) EXCEPT !.role = c.role]
           RelP(p) == [Rel("programmed", p[1], p[2]) EXCEPT !.times = Cardinality(ItemsOf(g, p[1], p[2]))]
           A == {RelC(c) : c \in Linked}
           B == {RelP(p) : p \in Pairs}
<1>1. \A c : RelC(c).type = "performed_in" /\ RelC(c).from = c.entity /\ RelC(c).to = c.event /\ RelC(c).role = c.role
  BY DEF Rel
<1>2. \A p : RelP(p).type = "programmed" /\ RelP(p).from = p[1] /\ RelP(p).to = p[2]
             /\ RelP(p).times = Cardinality(ItemsOf(g, p[1], p[2]))
  BY DEF Rel
<1>3. \A r : r \in A <=> \E c \in Linked : r = RelC(c)
  OBVIOUS
<1>4. \A r : r \in B <=> \E p \in Pairs : r = RelP(p)
  OBVIOUS
<1>5. rows = SetToBag(A) (+) SetToBag(B)
  BY DEF PerformedInRows, ProgrammedRows
<1> HIDE DEF A, B, RelC, RelP
<1>6. A \intersect B = {}
  <2>1. \A r \in A : r.type = "performed_in"
    BY <1>1, <1>3
  <2>2. \A r \in B : r.type = "programmed"
    BY <1>2, <1>4
  <2> QED
    BY <2>1, <2>2
<1>7. DOMAIN rows = A \union B /\ \A r \in DOMAIN rows : rows[r] = 1
  <2>1. Disjoint(A, B)
    BY <1>6 DEF Disjoint
  <2>2. Once(rows, A \union B)
    BY <1>5, <2>1, RowsOfSets
  <2> QED
    BY <2>2 DEF Once
<1>8. \A r \in DOMAIN rows : Told(g, r) /\ r.type \in {"performed_in", "programmed"}
  <2>1. ASSUME NEW r \in A PROVE Told(g, r) /\ r.type = "performed_in"
    <3>1. PICK c \in g.credits : r = RelC(c)
      BY <1>3, <2>1
    <3>2. r.type = "performed_in" /\ <<c.entity, c.event, c.role>> = <<r.from, r.to, r.role>>
      BY <1>1, <3>1
    <3> QED
      BY <3>2 DEF Told
  <2>2. ASSUME NEW r \in B PROVE Told(g, r) /\ r.type = "programmed"
    <3>1. PICK p : r = RelP(p)
      BY <1>4, <2>2
    <3>2. r.type = "programmed" /\ r.times = Cardinality(ItemsOf(g, r.from, r.to))
      BY <1>2, <3>1
    <3> QED
      BY <3>2 DEF Told
  <2> QED
    BY <1>7, <2>1, <2>2
<1>9. Heard(g, "performed_in", Matching(rows))
  <2> SUFFICES ASSUME NEW c \in g.credits, c.entity \in EntityNodes(g), c.event \in DOMAIN g.events
               PROVE  \E r \in Matching(rows) :
                        <<r.type, r.from, r.to, r.role>> = <<"performed_in", c.entity, c.event, c.role>>
    BY DEF Heard
  <2>1. RelC(c) \in DOMAIN rows
    BY <1>3, <1>7
  <2>2. RelC(c) \in Matching(rows)
    BY <1>1, <2>1 DEF Matching, Nodes
  <2> QED
    BY <1>1, <2>2
<1>10. Heard(g, "programmed", Matching(rows))
  <2> SUFFICES ASSUME NEW i \in g.items, NEW work \in DOMAIN g.works \ {None}, i.event \in DOMAIN g.events,
                      i \in ItemsOf(g, i.event, work)
               PROVE  Joined(Matching(rows), "programmed", i.event, work)
    BY DEF Heard
  <2> DEFINE p == <<i.event, work>>
  <2>1. work \in {m.work : m \in Range(g.mentions)}
    BY DEF ItemsOf, Range
  <2>2. p \in Pairs /\ p[1] = i.event /\ p[2] = work
    BY <2>1
  <2> HIDE DEF p
  <2>3. RelP(p) \in DOMAIN rows
    BY <1>4, <1>7, <2>2
  <2>4. RelP(p) \in Matching(rows)
    BY <1>2, <2>2, <2>3 DEF Matching, Nodes
  <2> QED
    BY <1>2, <2>2, <2>4 DEF Joined
<1> QED
  BY <1>7, <1>8, <1>9, <1>10 DEF Matching

LEMMA ClaimRowsSay ==
    ASSUME NEW g, DOMAIN graph.nodes = Nodes(g), NEW rows, rows = ClaimRows(g)
    PROVE  /\ \A r \in DOMAIN rows : rows[r] = 1 /\ r.type \in ClaimTypes
           /\ \A r \in Matching(rows) : Told(g, r)
           /\ \A type \in ClaimTypes : Heard(g, type, Matching(rows))
<1> DEFINE Claimed == {t \in ObjectClaims(g) : t[2] \in ClaimTypes /\ {t[1], t[3]} \subseteq EntityNodes(g)}
           RelT(t) == [Rel(t[2], t[1], t[3]) EXCEPT !.sources = Cardinality(SourcesOf(g, t))]
           A == {RelT(t) : t \in Claimed}
<1>1. \A t : RelT(t).type = t[2] /\ RelT(t).from = t[1] /\ RelT(t).to = t[3]
  BY DEF Rel
<1>2. \A r : r \in A <=> \E t \in Claimed : r = RelT(t)
  OBVIOUS
<1>3. rows = SetToBag(A)
  BY DEF ClaimRows
<1> HIDE DEF A, RelT
<1>4. DOMAIN rows = A /\ \A r \in DOMAIN rows : rows[r] = 1
  BY <1>3, RowsOnce
<1>5. \A r \in DOMAIN rows : Told(g, r) /\ r.type \in ClaimTypes
  <2> SUFFICES ASSUME NEW r \in A PROVE Told(g, r) /\ r.type \in ClaimTypes
    BY <1>4
  <2>1. PICK t \in Claimed : r = RelT(t)
    BY <1>2
  <2>2. PICK p \in g.claims : t = <<p.subject, p.predicate, p.object>>
    BY DEF ObjectClaims
  <2>3. r.type \in ClaimTypes /\ <<p.subject, p.predicate, p.object>> = <<r.from, r.type, r.to>>
    BY <1>1, <2>1, <2>2
  <2> QED
    BY <2>3 DEF Told, ClaimTypes
<1>6. ASSUME NEW type \in ClaimTypes PROVE Heard(g, type, Matching(rows))
  <2> SUFFICES ASSUME NEW p \in g.claims, p.predicate = type, p.object # None, {p.subject, p.object} \subseteq EntityNodes(g)
               PROVE  Joined(Matching(rows), type, p.subject, p.object)
    BY DEF Heard, ClaimTypes
  <2> DEFINE t == <<p.subject, p.predicate, p.object>>
  <2>1. t \in ObjectClaims(g)
    BY DEF ObjectClaims
  <2>2. t \in Claimed /\ t[1] = p.subject /\ t[2] = type /\ t[3] = p.object
    BY <2>1
  <2> HIDE DEF t
  <2>3. RelT(t) \in DOMAIN rows
    BY <1>2, <1>4, <2>2
  <2>4. RelT(t) \in Matching(rows)
    BY <1>1, <2>2, <2>3 DEF Matching, Nodes
  <2> QED
    BY <1>1, <2>2, <2>4 DEF Joined
<1> QED
  BY <1>4, <1>5, <1>6 DEF Matching

\* A step of an exporter disturbs all the others.
Holds(x, step) == held[x] = live /\ DOMAIN graph.nodes = NodesAt(live, step) /\ Says(live, TypesAt(step))
LEMMA ExporterMoved ==
    ASSUME ExportInv, NEW x \in Exporters, NEW next \in Steps, at' = [at EXCEPT ![x] = next],
           DOMAIN graph' = DOMAIN EmptyGraph,
           DOMAIN held' = Exporters /\ held' = [y \in Exporters |-> held'[y]],
           \A y \in Exporters \ {x} : ~alone'[y],
           next # "idle" /\ alone'[x] => Holds(x, next)'
    PROVE  ExportInv'
<1>1. at' \in [Exporters -> Steps] /\ at'[x] = next
  BY DEF ExportInv
<1>2. ASSUME NEW y \in Exporters, alone'[y], at'[y] # "idle" PROVE Holds(y, at[y])'
  <2>1. y = x
    BY <1>2
  <2> QED
    BY <1>1, <1>2, <2>1 DEF Holds
<1> QED
  BY <1>1, <1>2 DEF ExportInv, Holds

LEMMA ResetStep == ASSUME ExportInv, NEW x \in Exporters, Reset(x) PROVE ExportInv'
<1>1. /\ graph' = EmptyGraph /\ at' = [at EXCEPT ![x] = "entities"] /\ held' = [held EXCEPT ![x] = live] /\ live' = live
      /\ alone' = [y \in Exporters |-> y = x /\ \A z \in Exporters \ {x} : at[z] = "idle"]
  BY DEF Reset, unspent, promote
<1>2. Holds(x, "entities")'
  <2>1. held'[x] = live'
    BY <1>1 DEF ExportInv
  <2>2. DOMAIN graph'.nodes = {} /\ BagToSet(graph'.rels) = {}
    BY <1>1 DEF EmptyGraph, NoRows, EmptyBag, BagToSet, SetToBag
  <2>3. Says(live, {})'
    BY <2>2 DEF Says
  <2>4. NodesAt(live, "entities")' = {} /\ TypesAt("entities") = {}
    BY DEF NodesAt, TypesAt
  <2> QED
    BY <2>1, <2>2, <2>3, <2>4 DEF Holds
<1>3. DOMAIN held' = Exporters /\ held' = [y \in Exporters |-> held'[y]]
  BY <1>1 DEF ExportInv
<1>4. "entities" \in Steps
  BY DEF Steps
<1>5. \A y \in Exporters \ {x} : ~alone'[y]
  BY <1>1
<1> QED
  BY <1>1, <1>2, <1>3, <1>4, <1>5, ExporterMoved

LEMMA StopStep == ASSUME ExportInv, NEW x \in Exporters, Again(x) \/ Snapshot(x) \/ Stop(x) PROVE ExportInv'
<1>1. \E next \in {"idle", "snapshot"} : at' = [at EXCEPT ![x] = next] /\ (next = "idle" \/ ~alone'[x])
  BY DEF Again, Snapshot, Stop
<1>2. graph' = graph /\ \E g : held' = [held EXCEPT ![x] = g]
  BY DEF Again, Snapshot, Stop
<1>3. \A y \in Exporters \ {x} : ~alone'[y]
  BY DEF Again, Snapshot, Stop
<1>4. PICK next \in Steps : at' = [at EXCEPT ![x] = next] /\ (next = "idle" \/ ~alone'[x])
  BY <1>1 DEF Steps
<1>5. DOMAIN held' = Exporters /\ held' = [y \in Exporters |-> held'[y]]
  BY <1>2 DEF ExportInv
<1>6. DOMAIN graph' = DOMAIN EmptyGraph
  BY <1>2 DEF ExportInv
<1> QED
  BY <1>3, <1>4, <1>5, <1>6, ExporterMoved

\* A step of an export that goes on is one of gold as it is.
LEMMA GoesOn ==
    ASSUME ExportInv, NEW x \in Exporters, NEW here \in Steps \ {"idle"}, NEW next \in Steps, Moves(x, here, next), UNCHANGED held,
           DOMAIN graph' = DOMAIN EmptyGraph,
           next # "idle" /\ Holds(x, here) /\ GoldOf(x) = live => DOMAIN graph'.nodes = NodesAt(live, next) /\ Says(live, TypesAt(next))'
    PROVE  ExportInv'
<1>1. at[x] = here /\ at' = [at EXCEPT ![x] = next] /\ live' = live /\ held' = held
      /\ alone' = [y \in Exporters |-> y = x /\ alone[x]]
  BY DEF Moves, vars, promote
<1>2. next # "idle" /\ alone'[x] => Holds(x, next)'
  <2> SUFFICES ASSUME next # "idle", alone'[x] PROVE Holds(x, next)'
    OBVIOUS
  <2>1. alone[x] /\ at[x] # "idle"
    BY <1>1
  <2>2. Holds(x, here)
    BY <1>1, <2>1 DEF ExportInv, Holds
  <2>3. GoldOf(x) = live
    BY <2>2 DEF Holds, GoldOf
  <2>4. DOMAIN graph'.nodes = NodesAt(live, next) /\ Says(live, TypesAt(next))'
    BY <2>2, <2>3
  <2>5. NodesAt(live, next)' = NodesAt(live, next)
    BY <1>1 DEF NodesAt, Nodes, EntityNodes
  <2> QED
    BY <1>1, <2>2, <2>4, <2>5 DEF Holds
<1>3. DOMAIN held' = Exporters /\ held' = [y \in Exporters |-> held'[y]]
  BY <1>1 DEF ExportInv
<1>4. \A y \in Exporters \ {x} : ~alone'[y]
  BY <1>1
<1> QED
  BY <1>1, <1>2, <1>3, <1>4, ExporterMoved

\* Nodes are created where none is yet, or the export ends.
LEMMA NodesStep ==
    ASSUME ExportInv, NEW x \in Exporters, CreateEntities(x) \/ CreateWorks(x) \/ CreateEvents(x)
    PROVE  ExportInv'
<1>1. ASSUME NEW here \in {"entities", "works", "events"}, NEW nodes, NEW next \in {"works", "events", "relate"},
             CreateNodes(x, here, nodes, next), TypesAt(next) = {},
             GoldOf(x) = live => NodesAt(live, next) = NodesAt(live, here) \union DOMAIN nodes
      PROVE  ExportInv'
  <2> DEFINE free == DOMAIN nodes \intersect DOMAIN graph.nodes = {}
  <2>0. PICK to : to = IF free THEN next ELSE "idle"
    OBVIOUS
  <2>1. Moves(x, here, to) /\ UNCHANGED held
        /\ graph' = IF free THEN [graph EXCEPT !.nodes = Insert(@, nodes)] ELSE graph
    BY <1>1, <2>0 DEF CreateNodes
  <2>2. to \in Steps /\ here \in Steps \ {"idle"}
    BY <2>0, <1>1 DEF Steps
  <2>3. /\ DOMAIN graph' = DOMAIN EmptyGraph /\ graph'.rels = graph.rels
        /\ free => DOMAIN graph'.nodes = DOMAIN graph.nodes \union DOMAIN nodes
    BY <2>1 DEF ExportInv, EmptyGraph, Insert
  <2>4. live' = live
    BY <2>1 DEF Moves, vars, promote
  <2>5. to # "idle" /\ Holds(x, here) /\ GoldOf(x) = live =>
            DOMAIN graph'.nodes = NodesAt(live, to) /\ Says(live, TypesAt(to))'
    <3> SUFFICES ASSUME to # "idle", Holds(x, here), GoldOf(x) = live
                 PROVE  DOMAIN graph'.nodes = NodesAt(live, to) /\ Says(live, TypesAt(to))'
      OBVIOUS
    <3>1. free /\ to = next
      BY <2>0
    <3>2. DOMAIN graph'.nodes = NodesAt(live, to)
      BY <1>1, <2>3, <3>1 DEF Holds
    <3>3. BagToSet(graph.rels) = {}
      BY DEF Holds, Says, TypesAt
    <3>4. Says(live, {})'
      BY <2>3, <3>3 DEF Says
    <3> QED
      BY <1>1, <3>1, <3>2, <3>4
  <2> QED
    BY <2>1, <2>2, <2>3, <2>5, GoesOn
<1>2. TypesAt("works") = {} /\ TypesAt("events") = {} /\ TypesAt("relate") = {}
  BY DEF TypesAt
<1>3. /\ NodesAt(live, "works") = NodesAt(live, "entities") \union EntityNodes(live)
      /\ NodesAt(live, "events") = NodesAt(live, "works") \union DOMAIN live.works
      /\ NodesAt(live, "relate") = NodesAt(live, "events") \union DOMAIN live.events
  BY DEF NodesAt, Nodes
<1>4. CASE CreateEntities(x)
  <2>1. DOMAIN Restrict(GoldOf(x).kinds, EntityNodes(GoldOf(x))) = EntityNodes(GoldOf(x))
    BY DEF Restrict
  <2> QED
    BY <1>1, <1>2, <1>3, <1>4, <2>1 DEF CreateEntities
<1>5. CASE CreateWorks(x)
  BY <1>1, <1>2, <1>3, <1>5 DEF CreateWorks
<1>6. CASE CreateEvents(x)
  BY <1>1, <1>2, <1>3, <1>6 DEF CreateEvents
<1> QED
  BY <1>4, <1>5, <1>6

\* Relationships are made when all nodes are there.
LEMMA RelsStep ==
    ASSUME ExportInv, NEW x \in Exporters, RelateWorks(x) \/ RelateEvents(x) \/ RelateClaims(x)
    PROVE  ExportInv'
<1>1. ASSUME NEW here \in {"relate", "perform", "claim"}, NEW rows, NEW next \in {"perform", "claim", "annotate"}, NEW more,
             Relate(x, here, rows, next), TypesAt(next) = TypesAt(here) \union more, TypesAt(here) \intersect more = {},
             GoldOf(x) = live /\ DOMAIN graph.nodes = Nodes(live) =>
                /\ \A r \in DOMAIN rows : rows[r] = 1 /\ r.type \in more
                /\ \A r \in Matching(rows) : Told(live, r)
                /\ \A type \in more : Heard(live, type, Matching(rows))
      PROVE  ExportInv'
  <2>1. Moves(x, here, next) /\ UNCHANGED held /\ graph' = [graph EXCEPT !.rels = @ (+) Matched(rows)]
    BY <1>1 DEF Relate
  <2>2. next \in Steps /\ here \in Steps \ {"idle"} /\ next # "idle"
    BY DEF Steps
  <2>3. DOMAIN graph = DOMAIN EmptyGraph /\ DOMAIN graph' = DOMAIN EmptyGraph /\ graph'.nodes = graph.nodes
    BY <2>1 DEF ExportInv, EmptyGraph
  <2>4. live' = live
    BY <2>1 DEF Moves, vars, promote
  <2>5. NodesAt(live, here) = Nodes(live) /\ NodesAt(live, next) = Nodes(live)
    BY DEF NodesAt
  <2>6. Holds(x, here) /\ GoldOf(x) = live => DOMAIN graph'.nodes = NodesAt(live, next) /\ Says(live, TypesAt(next))'
    <3> SUFFICES ASSUME Holds(x, here), GoldOf(x) = live
                 PROVE  DOMAIN graph'.nodes = NodesAt(live, next) /\ Says(live, TypesAt(next))'
      OBVIOUS
    <3>1. DOMAIN graph.nodes = Nodes(live) /\ Says(live, TypesAt(here))
      BY <2>5 DEF Holds
    <3>2. /\ \A r \in BagToSet(graph'.rels) : r.type \in TypesAt(next) /\ Copies(graph', r) = 1 /\ Told(live, r)
          /\ \A type \in TypesAt(next) : Heard(live, type, BagToSet(graph'.rels))
      BY <1>1, <2>1, <2>3, <3>1, BatchSays
    <3>3. Says(live, TypesAt(next))'
      BY <2>4, <3>2 DEF Says, Told, Heard, EntityNodes, ItemsOf, Nodes, Copies
    <3> QED
      BY <2>3, <2>5, <3>1, <3>3
  <2> QED
    BY <2>1, <2>2, <2>3, <2>6, GoesOn
<1>2. /\ TypesAt("relate") = {}
      /\ TypesAt("perform") = TypesAt("relate") \union {"composed_by", "derived_from"}
      /\ TypesAt("claim") = TypesAt("perform") \union {"performed_in", "programmed"}
      /\ TypesAt("annotate") = TypesAt("claim") \union ClaimTypes
      /\ TypesAt("perform") \intersect {"performed_in", "programmed"} = {}
      /\ TypesAt("claim") \intersect ClaimTypes = {}
  BY DEF TypesAt, RelTypes, ClaimTypes
<1>3. CASE RelateWorks(x)
  <2> DEFINE rows == ComposedByRows(GoldOf(x)) (+) WorkLinkRows(GoldOf(x))
  <2>1. Relate(x, "relate", rows, "perform")
    BY <1>3 DEF RelateWorks
  <2>2. GoldOf(x) = live /\ DOMAIN graph.nodes = Nodes(live) =>
            /\ \A r \in DOMAIN rows : rows[r] = 1 /\ r.type \in {"composed_by", "derived_from"}
            /\ \A r \in Matching(rows) : Told(live, r)
            /\ \A type \in {"composed_by", "derived_from"} : Heard(live, type, Matching(rows))
    BY WorkRowsSay
  <2> HIDE DEF rows
  <2> QED
    BY <1>1, <1>2, <2>1, <2>2
<1>4. CASE RelateEvents(x)
  <2> DEFINE rows == PerformedInRows(GoldOf(x)) (+) ProgrammedRows(GoldOf(x))
  <2>1. Relate(x, "perform", rows, "claim")
    BY <1>4 DEF RelateEvents
  <2>2. GoldOf(x) = live /\ DOMAIN graph.nodes = Nodes(live) =>
            /\ \A r \in DOMAIN rows : rows[r] = 1 /\ r.type \in {"performed_in", "programmed"}
            /\ \A r \in Matching(rows) : Told(live, r)
            /\ \A type \in {"performed_in", "programmed"} : Heard(live, type, Matching(rows))
    BY EventRowsSay
  <2> HIDE DEF rows
  <2> QED
    BY <1>1, <1>2, <2>1, <2>2
<1>5. CASE RelateClaims(x)
  <2> DEFINE rows == ClaimRows(GoldOf(x))
  <2>1. Relate(x, "claim", rows, "annotate")
    BY <1>5 DEF RelateClaims
  <2>2. GoldOf(x) = live /\ DOMAIN graph.nodes = Nodes(live) =>
            /\ \A r \in DOMAIN rows : rows[r] = 1 /\ r.type \in ClaimTypes
            /\ \A r \in Matching(rows) : Told(live, r)
            /\ \A type \in ClaimTypes : Heard(live, type, Matching(rows))
    BY ClaimRowsSay
  <2> HIDE DEF rows
  <2> QED
    BY <1>1, <1>2, <2>1, <2>2
<1> QED
  BY <1>3, <1>4, <1>5

LEMMA AnnotateStep == ASSUME ExportInv, NEW x \in Exporters, Annotate(x) PROVE ExportInv'
<1>1. Moves(x, "annotate", "snapshot") /\ UNCHANGED held /\ live' = live
  BY DEF Annotate, Moves, vars, promote
<1>2. DOMAIN graph' = DOMAIN EmptyGraph /\ graph'.nodes = graph.nodes /\ graph'.rels = graph.rels
  BY DEF Annotate, ExportInv, EmptyGraph
<1>3. TypesAt("annotate") = RelTypes /\ TypesAt("snapshot") = RelTypes
      /\ NodesAt(live, "annotate") = NodesAt(live, "snapshot")
  BY DEF TypesAt, NodesAt
<1>4. Says(live, RelTypes) => Says(live, RelTypes)'
  BY <1>1, <1>2 DEF Says, Told, Heard, EntityNodes, ItemsOf, Nodes, Copies, BagIn
<1>5. Holds(x, "annotate") => DOMAIN graph'.nodes = NodesAt(live, "snapshot") /\ Says(live, TypesAt("snapshot"))'
  BY <1>2, <1>3, <1>4 DEF Holds
<1>6. "snapshot" \in Steps /\ "annotate" \in Steps \ {"idle"}
  BY DEF Steps
<1> QED
  BY <1>1, <1>2, <1>5, <1>6, GoesOn

\* What publishes another gold leaves no export alone, and what does not changes none of it.
LEMMA ExportInvStep == ExportInv /\ [ExportNext]_allVars => ExportInv'
<1> SUFFICES ASSUME ExportInv, [ExportNext]_allVars PROVE ExportInv'
  OBVIOUS
<1>1. ASSUME UNCHANGED <<graph, at, held>>, (live' = live /\ alone' = alone) \/ alone' = [x \in Exporters |-> FALSE]
      PROVE  ExportInv'
  <2>1. CASE live' = live /\ alone' = alone
    <3>1. \A types : Says(live, types) => Says(live, types)'
      BY <1>1, <2>1 DEF Says, Told, Heard, EntityNodes, ItemsOf, Nodes, Copies, BagIn
    <3>2. \A step : NodesAt(live, step)' = NodesAt(live, step)
      BY <2>1 DEF NodesAt, Nodes, EntityNodes
    <3>3. ASSUME NEW x \in Exporters, alone'[x], at'[x] # "idle" PROVE Holds(x, at[x])'
      <4>1. Holds(x, at[x])
        BY <1>1, <2>1, <3>3 DEF ExportInv, Holds
      <4> QED
        BY <1>1, <2>1, <3>1, <3>2, <4>1 DEF Holds
    <3> QED
      BY <1>1, <3>3 DEF ExportInv, Holds
  <2>2. CASE alone' = [x \in Exporters |-> FALSE]
    BY <1>1, <2>2 DEF ExportInv
  <2> QED
    BY <1>1, <2>1, <2>2
<1>2. CASE KumuEdges \/ KumuElements
  BY <1>1, <1>2 DEF KumuEdges, KumuElements, unspent, vars, promote
<1>3. CASE /\ Next
           /\ IF live' # live
              THEN alone' = [x \in Exporters |-> FALSE] /\ kumu' = [kumu EXCEPT !.alone = FALSE]
              ELSE UNCHANGED <<alone, kumu>>
           /\ UNCHANGED <<graph, at, held>>
  BY <1>1, <1>3
<1>4. CASE UNCHANGED allVars
  BY <1>1, <1>4 DEF allVars, vars, promote, exporting
<1> QED
  BY <1>2, <1>3, <1>4, ResetStep, StopStep, NodesStep, RelsStep, AnnotateStep DEF ExportNext, Export

\* An export that no other export and no promote disturbs leaves in Neo4j what gold says: its
\* entities, works and events once each, and each relationship of a fact whose two sides are
\* there, whatever loads, edits and promotes do meanwhile (load.py, rows.py).
THEOREM GraphSaysGold == ExportSpec => []GraphIsTheGold
<1>1. ExportInit => ExportInv
  BY DEF ExportInit, ExportInv, Steps
<1>2. ExportInv => GraphIsTheGold
  <2>1. TypesAt("snapshot") = RelTypes /\ NodesAt(live, "snapshot") = Nodes(live)
    BY DEF TypesAt, NodesAt
  <2> QED
    BY <2>1 DEF ExportInv, GraphIsTheGold
<1> QED
  BY <1>1, <1>2, ExportInvStep, PTL DEF ExportSpec
=============================================================================
