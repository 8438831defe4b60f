------------------------------- MODULE Works --------------------------------
(***************************************************************************)
(* The works of silver: a load matches mentions against candidates it read *)
(* when it began, while reviewers decide, composers are linked as one      *)
(* person, and refreshing what is derived folds duplicates.                *)
(*                                                                         *)
(* A document of a load is a transaction here (IngestRuns has the batches).*)
(* Titles a work was seen under take the path of its identifiers and are   *)
(* left out; so is which source stated an identifier.                      *)
(***************************************************************************)
EXTENDS WorkFolding, SequencesExt

CONSTANTS
    MaxWorks,       \* bound: the works that are ever made
    MaxLoads,       \* bound: the loads that ever start
    MaxCommands,    \* bound: the reviews, rematches and dedupes that ever run
    Mentions,       \* (source, external id)
    Feeds,          \* the documents a mention may be sighted as
    Absent,
    Clusterings,    \* what dedupe_persons may make of the composers
    Enforced        \* the database refuses a row that refers to nothing (Postgres)

\* A document: its heading, what it states beside it, and the items it says it is part of.
Document ==
    [composer : Composers \union {Nobody}, title : Titles, stated : SUBSET Identifiers,
     opus : Opuses \union {0}, premiere : Seq(Nat)]

ASSUME BoundsAssumption == MaxWorks \in Nat \ {0} /\ MaxLoads \in Nat /\ MaxCommands \in Nat
ASSUME MentionsAssumption == IsFiniteSet(Mentions)
ASSUME FeedsAssumption == \A m \in Mentions : Feeds[m] \subseteq Document
\* date_parts: a month and a day have two digits.
ASSUME PremieresAssumption ==
    \A m \in Mentions : \A d \in Feeds[m] :
        Len(d.premiere) \in 0 .. 3 /\ \A i \in 2 .. Len(d.premiere) : d.premiere[i] < 100
ASSUME AbsentAssumption == Absent \notin UNION {Feeds[m] : m \in Mentions}
ASSUME ClusteringsAssumption ==
    \A k \in Clusterings : k \in [Composers -> Composers] /\ \A c \in Composers : k[k[c]] = k[c]
ASSUME EnforcedAssumption == Enforced \in BOOLEAN

Ids == 1 .. MaxWorks
Statuses == {"auto_matched", "needs_review", "created", "manual_matched"}
None == 0
Docs == UNION {Feeds[m] : m \in Mentions}
Work == [composer : Composers \union {Nobody}, title : Titles, premiere : Seq(Nat)]
Row == [doc : Docs, work : Ids \union {None}, status : Statuses, candidate : Ids \union {None}]

VARIABLES
    works,      \* the rows of works
    stored,     \* <<work, identifier>> rows
    mentions,
    canonicalOf,\* the person each composer is filed under
    load,       \* what the load under way holds, or Absent
    made,       \* how many works were ever made: their ids are never used again
    loads,      \* how many loads ever started
    commands,   \* how many commands ever ran
    told,       \* history: the premieres ever stated of a work or of what folded into it
    overlapped, \* history: something else was committed while a load was under way
    settled     \* history: nothing was committed since a fold, which folded composerless works or not

db == <<works, stored, mentions, canonicalOf, made>>
bounded == <<loads, commands>>
history == <<told, overlapped, settled>>
vars == <<db, load, bounded, history>>

Groups == Composers \union {Nobody}
Key(canonical, c) == IF c = Nobody THEN Nobody ELSE canonical[c]
Candidate == [composer : Groups, features : Features, at : Nat]
Caches ==
    [seen : [Mentions -> Docs \union {Absent}], canonical : [Composers -> Composers],
     groups : [Groups -> UNION {[D -> Candidate] : D \in SUBSET Ids}], dates : [Ids -> Seq(Nat)]]

TypeOK ==
    /\ DOMAIN works \subseteq Ids /\ \A w \in DOMAIN works : works[w] \in Work
    /\ stored \subseteq Ids \X Identifiers
    /\ mentions \in [Mentions -> Row \union {Absent}]
    /\ canonicalOf \in Clusterings
    /\ load \in Caches \union {Absent}
    /\ made \in 0 .. MaxWorks /\ DOMAIN works \subseteq 1 .. made
    /\ loads \in 0 .. MaxLoads /\ commands \in 0 .. MaxCommands
    /\ told \in [Ids -> SUBSET Seq(Nat)]
    /\ overlapped \in BOOLEAN /\ settled \in {"no", "within", "composerless"}

Init ==
    /\ works = [w \in {} |-> 0]
    /\ stored = {}
    /\ mentions = [m \in Mentions |-> Absent]
    /\ canonicalOf = [c \in Composers |-> c]
    /\ load = Absent
    /\ made = 0 /\ loads = 0 /\ commands = 0
    /\ told = [w \in Ids |-> {}]
    /\ overlapped = FALSE /\ settled = "no"

-----------------------------------------------------------------------------
(* What the database says of its works.                                    *)

\* A title, and what the source states: a derived work's numbers are its parent's.
MentionFeatures(d) ==
    LET f == TitleFeatures[d.title]
        external == {i \in d.stated : i[1] \in ExternalSchemes}
        numbers == d.stated \ external
        opus == IF f.opus # 0 THEN f.opus ELSE d.opus
    IN  IF f.derivation = Original
        THEN [f EXCEPT !.ids = f.ids \union d.stated, !.opus = opus]
        ELSE [f EXCEPT !.ids = external, !.parents = f.parents \union numbers, !.opus = opus]

StoredFor(w) == {s[2] : s \in {t \in stored : t[1] = w}}
FeaturesOf(w) == WithIdentifiers(TitleFeatures[works[w].title], StoredFor(w))

\* candidate_rows: every work, in no order the query asks for: by id or the other way round
\* here (a bound), which tells apart who comes first of any two that score the same.
Listings ==
    {[w \in DOMAIN works |->
        [composer |-> works[w].composer, features |-> FeaturesOf(w), at |-> place[w]]] :
            place \in {[w \in Ids |-> w], [w \in Ids |-> MaxWorks - w]}}

InGroups(rows, canonical) ==
    [k \in Groups |-> Restrict(rows, {w \in DOMAIN rows : Key(canonical, rows[w].composer) = k})]

WorkFor(d) == [composer |-> d.composer, title |-> d.title, premiere |-> NoDate]
RowFor(d, r) == [doc |-> d, work |-> r.work, status |-> r.status, candidate |-> r.candidate]

\* resolve and new_work: the decision for a mention, and the work it makes.
DecisionFrom(best, new) ==
    LET status == Classify(best.score)
    IN  [status |-> status,
         work |-> CASE status = "auto_matched" -> best.work
                    [] status = "needs_review" -> None
                    [] status = "created" -> new,
         candidate |-> IF status = "created" THEN None ELSE best.work]

Decide(f, candidates, new) == DecisionFrom(BestMatch(f, candidates), new)

Overlaps == overlapped' = (overlapped \/ load # Absent)

\* A command starts and commits in one step.
Command ==
    /\ commands < MaxCommands
    /\ commands' = commands + 1
    /\ Overlaps
    /\ UNCHANGED loads

-----------------------------------------------------------------------------
(* A load.                                                                 *)

StartLoad ==
    /\ load = Absent
    /\ loads < MaxLoads
    /\ loads' = loads + 1
    /\ \E rows \in Listings :
         load' = [seen |-> [m \in Mentions |-> IF mentions[m] = Absent THEN Absent ELSE mentions[m].doc],
                  canonical |-> canonicalOf,
                  groups |-> InGroups(rows, canonicalOf),
                  dates |-> [w \in Ids |-> IF w \in DOMAIN works THEN works[w].premiere ELSE NoDate]]
    /\ UNCHANGED <<db, commands, history>>

\* What a mention is decided to be against the caches of the load.
Decision(d) ==
    Decide(MentionFeatures(d), load.groups[Key(load.canonical, d.composer)], made + 1)

\* The caches learn the work that was made, and what the matched work is now known by.
Learn(m, d, r) ==
    LET key == Key(load.canonical, d.composer)
        f == MentionFeatures(d)
        grown == IF r.status = "created" THEN Enlist(load.groups[key], r.work, d.composer, f) ELSE load.groups[key]
    IN  load' = [load EXCEPT
            !.seen[m] = d,
            !.groups[key] = RefreshCandidate(grown, r.work, f.ids),
            !.dates = IF r.work # None /\ d.premiere # NoDate /\ Supersedes(d.premiere, load.dates[r.work])
                      THEN Put(load.dates, r.work, d.premiere) ELSE load.dates]

\* _ingest_work_mention: a new mention, or one whose content changed; the same path for both.
Sight(m, d) ==
    /\ load # Absent /\ load.seen[m] # d
    /\ \E r \in {Decision(d)} :
       LET entered == IF r.status = "created" THEN Put(works, r.work, WorkFor(d)) ELSE works
           dated == /\ r.work \in DOMAIN entered /\ d.premiere # NoDate
                    /\ Supersedes(d.premiere, load.dates[r.work])
       IN  /\ r.status = "created" => made < MaxWorks
           /\ made' = IF r.status = "created" THEN made + 1 ELSE made
           /\ Enforced => {r.work, r.candidate} \ {None} \subseteq DOMAIN entered
           /\ works' = IF dated THEN [entered EXCEPT ![r.work].premiere = d.premiere] ELSE entered
           /\ stored' = IF r.work = None THEN stored
                        ELSE stored \union ({r.work} \X MentionFeatures(d).ids)
           /\ mentions' = [mentions EXCEPT ![m] = RowFor(d, r)]
           /\ Learn(m, d, r)
           /\ told' = IF r.work # None /\ d.premiere # NoDate
                      THEN [told EXCEPT ![r.work] = @ \union {d.premiere}] ELSE told
    /\ settled' = "no"
    /\ UNCHANGED <<canonicalOf, bounded, overlapped>>

\* The work was folded away under the load: the insert fails, and the load with it.
SightRefused(m, d) ==
    /\ load # Absent /\ load.seen[m] # d
    /\ Enforced
    /\ \E r \in {Decision(d)} : r.status # "created" /\ ~({r.work, r.candidate} \ {None} \subseteq DOMAIN works)
    /\ load' = Absent
    /\ UNCHANGED <<db, bounded, history>>

EndLoad ==
    /\ load # Absent
    /\ load' = Absent
    /\ UNCHANGED <<db, bounded, history>>

-----------------------------------------------------------------------------
(* Reviewers (cli work_cmds.py).                                           *)

\* review --accept: any mention, any work.
Accept(m, w) ==
    /\ mentions[m] # Absent
    /\ w \in DOMAIN works
    /\ mentions' = [mentions EXCEPT ![m].work = w, ![m].status = "manual_matched"]
    /\ settled' = "no"
    /\ Command
    /\ UNCHANGED <<works, stored, canonicalOf, made, load, told>>

\* review --new: from the title alone; what the source stated beside it is not kept.
NewWork(m) ==
    /\ mentions[m] # Absent
    /\ made < MaxWorks
    /\ made' = made + 1
    /\ LET d == mentions[m].doc
       IN  works' = Put(works, made', WorkFor(d))
    /\ mentions' = [mentions EXCEPT ![m].work = made', ![m].status = "manual_matched"]
    /\ settled' = "no"
    /\ Command
    /\ UNCHANGED <<stored, canonicalOf, load, told>>

\* One mention of rematch, against the candidates as they have become.
RematchAs(state, m, r) ==
    LET d == state.mentions[m].doc
        f == MentionFeatures(d)
        key == Key(canonicalOf, d.composer)
        isNew == r.status = "created"
        grown == IF isNew THEN Enlist(state.groups[key], r.work, d.composer, f) ELSE state.groups[key]
    IN  [works |-> IF isNew THEN Put(state.works, r.work, WorkFor(d)) ELSE state.works,
         stored |-> IF r.work = None THEN state.stored ELSE state.stored \union ({r.work} \X f.ids),
         mentions |-> [state.mentions EXCEPT ![m] = RowFor(d, r)],
         made |-> IF isNew THEN state.made + 1 ELSE state.made,
         groups |-> [state.groups EXCEPT ![key] = RefreshCandidate(grown, r.work, f.ids)]]

RematchOne(state, m) ==
    LET d == state.mentions[m].doc
    IN  RematchAs(state, m, Decide(MentionFeatures(d), state.groups[Key(canonicalOf, d.composer)], state.made + 1))

RematchAll(start, order) ==
    LET after[n \in 0 .. Len(order)] == IF n = 0 THEN start ELSE RematchOne(after[n - 1], order[n])
    IN  after[Len(order)]

\* rematch: the mentions that wait for review, one after the other, in one transaction.
Rematch ==
    LET pending == {m \in Mentions : mentions[m] # Absent /\ mentions[m].status = "needs_review"}
        start(rows) == [works |-> works, stored |-> stored, mentions |-> mentions, made |-> made,
                        groups |-> InGroups(rows, canonicalOf)]
    IN  /\ pending # {}
        /\ made + Cardinality(pending) <= MaxWorks
        /\ \E end \in {RematchAll(start(rows), order) : rows \in Listings, order \in SetToSeqs(pending)} :
             /\ works' = end.works /\ stored' = end.stored
             /\ mentions' = end.mentions /\ made' = end.made
        /\ settled' = "no"
        /\ Command
        /\ UNCHANGED <<canonicalOf, load, told>>

\* dedupe-persons or a review of persons changes who is one person.
Dedupe(k) ==
    /\ k # canonicalOf
    /\ canonicalOf' = k
    /\ settled' = "no"
    /\ Command
    /\ UNCHANGED <<works, stored, mentions, made, load, told>>

-----------------------------------------------------------------------------
(* The pass of refresh_derived that folds works.                           *)

\* Mutant: only the match of a mention follows the work, not the reviewer's candidate.
MoveMatches(row, final) ==
    IF row = Absent THEN row
    ELSE [row EXCEPT !.work = IF row.work \in DOMAIN final THEN final[row.work] ELSE row.work]

\* _move_rows: the match and the candidate of a mention follow the work.
MoveMention(row, final) ==
    LET moved(w) == IF w \in DOMAIN final THEN final[w] ELSE w
    IN  IF row = Absent THEN row
        ELSE [row EXCEPT !.work = moved(row.work), !.candidate = moved(row.candidate)]

\* _fold_works: the target keeps whichever premiere stands, one source after the other.
MovePremiere(w, final) ==
    LET after[v \in 0 .. MaxWorks] ==
            IF v = 0 THEN works[w].premiere
            ELSE IF /\ v \in DOMAIN final /\ final[v] = w /\ works[v].premiere # NoDate
                    /\ Supersedes(works[v].premiere, after[v - 1])
            THEN works[v].premiere
            ELSE after[v - 1]
    IN  after[MaxWorks]

FoldAlong(merges, final) ==
    LET gone == DOMAIN final
        into(w) == {w} \union {v \in gone : final[v] = w}
    IN  /\ works' = [w \in DOMAIN works \ gone |-> [works[w] EXCEPT !.premiere = MovePremiere(w, final)]]
        /\ stored' = {<<IF s[1] \in gone THEN final[s[1]] ELSE s[1], s[2]>> : s \in stored}
        /\ mentions' = [m \in Mentions |-> MoveMention(mentions[m], final)]
        /\ told' = [w \in Ids |-> IF w \in gone THEN {} ELSE UNION {told[v] : v \in into(w)}]
        /\ settled' = IF merges.all = merges.within THEN "within" ELSE "composerless"

Fold ==
    /\ \E merges \in {Merges(rows, canonicalOf) : rows \in Listings} :
        \E final \in {Resolve(merges.all)} : FoldAlong(merges, final)
    /\ Overlaps
    /\ UNCHANGED <<bounded, canonicalOf, made, load>>

-----------------------------------------------------------------------------

Next ==
    \/ StartLoad \/ EndLoad
    \/ \E m \in Mentions : \E d \in Feeds[m] : Sight(m, d) \/ SightRefused(m, d)
    \/ \E m \in Mentions, w \in Ids : Accept(m, w)
    \/ \E m \in Mentions : NewWork(m)
    \/ Rematch
    \/ \E k \in Clusterings : Dedupe(k)
    \/ Fold

Spec == Init /\ [][Next]_vars

-----------------------------------------------------------------------------
(* Properties.                                                             *)

\* Whatever folds and whoever reviews or loads meanwhile, no row of silver refers to a work
\* that was folded away: not a match, a reviewer's candidate or an identifier.
PointersResolve ==
    /\ \A m \in Mentions : mentions[m] # Absent =>
            {mentions[m].work, mentions[m].candidate} \subseteq DOMAIN works \union {None}
    /\ {s[1] : s \in stored} \subseteq DOMAIN works

\* merge.py:30-31 as it is written.
FoldIsIdempotent ==
    [][settled # "no" /\ settled' # "no" => DOMAIN works' = DOMAIN works]_vars

\* A date and how it compares, whatever precision it has.
Whole(date) == [i \in 1 .. 3 |-> IF i <= Len(date) THEN date[i] ELSE 9999]

\* The premiere of a work is the earliest, most precise one ever stated of it or of the works
\* folded into it, in whatever order they were stated ("Neither rule depends on the order the
\* sources arrive in", premiere.py:62), unless something was committed under a load.
PremiereIsBest ==
    ~overlapped => \A w \in DOMAIN works :
        /\ told[w] = {} => works[w].premiere = NoDate
        /\ told[w] # {} =>
            /\ works[w].premiere \in told[w]
            /\ \A d \in told[w] : ~EarlierParts(Whole(d), Whole(works[w].premiere))

\* The same, with a fold under a load, too.
PremiereSettles ==
    \A w \in DOMAIN works, d \in UNION {told[v] : v \in DOMAIN works} :
        d \in told[w] => works[w].premiere # NoDate /\ ~EarlierParts(Whole(d), Whole(works[w].premiere))

\* A part, arrangement or version never becomes the work it derives from, by matching or by
\* folding (match.py:8-9); only a reviewer puts it there.
DerivedStaysApart ==
    \A m \in Mentions :
        mentions[m] # Absent /\ mentions[m].status # "manual_matched" /\ mentions[m].work \in DOMAIN works =>
            TitleFeatures[mentions[m].doc.title].derivation = TitleFeatures[works[mentions[m].work].title].derivation

\* What a load matches against is what the next load would read, as long as nobody else
\* commits: works and identifiers "matches on them" in "this run or the next" (mentions.py:85-86).
CacheIsDatabase ==
    load # Absent /\ ~overlapped =>
        \A k \in Groups :
            {<<w, load.groups[k][w].features>> : w \in DOMAIN load.groups[k]} =
                {<<w, FeaturesOf(w)>> : w \in {v \in DOMAIN works : Key(load.canonical, works[v].composer) = k}}

=============================================================================
