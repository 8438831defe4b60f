---------------------------- MODULE GoldPromote ----------------------------
(***************************************************************************)
(* promote (composer_gold/promote.py): gold is built from silver in phases *)
(* and swapped in.  Silver is not held still meanwhile: its read lock only *)
(* keeps it from being swapped, each statement reads what is committed by  *)
(* then, and loads, dedupe passes and derive passes commit in between.     *)
(*                                                                         *)
(* A phase reads silver once here.  The build target (AtomicSwap and the   *)
(* modules that implement it) is the step Publish, or Fail.                *)
(***************************************************************************)
EXTENDS GoldCuration

CONSTANTS
    Silvers,        \* first states of silver
    SilverStates,   \* every state it may come to
    Configs,        \* the configs of a promote, with the rule 1 file's thresholds left out
    Thresholds,     \* what the rule 1 file may say
    Defaults,       \* what it says when it cannot be read
    Broken,         \* what a file that is not JSON says
    Editors,        \* requests that replace the rule 1 file
    Late,           \* the commits that may come: which rows of silver each drops and adds
    MaxSpent        \* bound: commits, edits, promotes and exports together

\* A commit of a load, a dedupe pass, a review or a derive pass: in each table some rows go
\* and some come.  A row that changes goes and comes.
Keyed == {"kinds", "canonical", "works", "mentions", "events"}
Committed(s, c) ==
    [table \in DOMAIN s |->
        IF table \in Keyed THEN Insert(Restrict(s[table], DOMAIN s[table] \ c.drops[table]), c.adds[table])
        ELSE (s[table] \ c.drops[table]) \union c.adds[table]]

\* No commit deletes an entity or changes what kind it is.
Grown(s, t) == \A e \in DOMAIN s.kinds : e \in DOMAIN t.kinds /\ t.kinds[e] = s.kinds[e]

\* Silver comes to no state whose references do not stand.
SilverAssumption ==
    /\ Silvers \subseteq SilverStates
    /\ \A s \in SilverStates : \A c \in Late : Committed(s, c) \in SilverStates /\ Grown(s, Committed(s, c))
    /\ \A s \in SilverStates : Stands(s)
ASSUME SilverAssumption

VARIABLES
    backend,        \* of gold: "sqlite" does not check references
    silver,
    spent,          \* of MaxSpent
    file,           \* rule1_config.json: thresholds, Broken or None
    draft,          \* rule1_config.json.tmp
    editor,         \* what each edit is at, and what it writes
    phase,          \* the phase of the build that comes next
    build,
    gold,           \* the staging database
    live,           \* the gold that is published
    status,         \* of the last promote, in its manifest
    before,         \* history: the silver the last promote began on
    disturbed       \* history: silver changed while it ran

edit == <<file, draft, editor>>
promote == <<phase, build, gold, live, status>>
history == <<before, disturbed>>
vars == <<backend, silver, spent, history, edit, promote>>

Init ==
    /\ backend \in {"sqlite", "postgres"}
    /\ silver \in Silvers
    /\ spent = 0
    /\ file \in Thresholds \union {None}
    /\ draft = None
    /\ editor = [e \in Editors |-> [step |-> "idle", sets |-> None]]
    /\ phase = "idle"
    /\ build = NewBuild(silver, [collapse |-> FALSE])
    /\ gold = EmptyGold
    /\ live = EmptyGold
    /\ status = "none"
    /\ before = silver
    /\ disturbed = FALSE

----------------------------------------------------------------------------
(* Silver moves on *)

Spend == spent < MaxSpent /\ spent' = spent + 1

LoadsCommit ==
    /\ Spend
    /\ \E c \in Late :
        /\ Committed(silver, c) # silver
        /\ silver' = Committed(silver, c)
    /\ disturbed' = (disturbed \/ phase # "idle")
    /\ UNCHANGED <<backend, before, edit, promote>>

----------------------------------------------------------------------------
(* The rule 1 file: PUT /admin/v1/rule1-config, in threads of the API *)

\* write_text truncates the file it is about to fill.
OpenDraft(e) ==
    /\ editor[e].step = "idle"
    /\ Spend
    /\ draft' = Broken
    /\ \E t \in Thresholds : editor' = [editor EXCEPT ![e] = [step |-> "open", sets |-> t]]
    /\ UNCHANGED file

WriteDraft(e) ==
    /\ editor[e].step = "open"
    /\ draft' = editor[e].sets
    /\ editor' = [editor EXCEPT ![e].step = "written"]
    /\ UNCHANGED <<file, spent>>

\* os.replace raises when another edit has taken the draft.
ReplaceFile(e) ==
    /\ editor[e].step = "written"
    /\ file' = IF draft = None THEN file ELSE draft
    /\ draft' = None
    /\ editor' = [editor EXCEPT ![e].step = IF draft = None THEN "failed" ELSE "done"]
    /\ UNCHANGED spent

Edits ==
    /\ \E e \in Editors : OpenDraft(e) \/ WriteDraft(e) \/ ReplaceFile(e)
    /\ UNCHANGED <<backend, silver, history, promote>>

\* Rule1Config.from_json
FromJson == IF file \in {None, Broken} THEN Defaults ELSE file

----------------------------------------------------------------------------
(* A promote *)

At(p) == phase = p /\ UNCHANGED <<backend, silver, spent, history, edit, live>>
Unwritten(next) == phase' = next /\ UNCHANGED <<gold, status>>

\* Postgres refuses rows that refer to rows that are not there, and the promote fails.
Written(g, next) ==
    LET refused == backend = "postgres" /\ ~RefersToRows(g) IN
    /\ gold' = IF refused THEN EmptyGold ELSE g
    /\ phase' = IF refused THEN "idle" ELSE next
    /\ status' = IF refused THEN "failed" ELSE status

Start ==
    /\ phase = "idle"
    /\ Spend
    /\ \E config \in Configs :
        build' = OpenBuild(silver, config @@ FromJson)
    /\ phase' = "persons"
    /\ gold' = [EmptyGold EXCEPT !.made = spent']
    /\ status' = "running"
    /\ before' = silver
    /\ disturbed' = FALSE
    /\ UNCHANGED <<backend, silver, edit, live>>

Persons == At("persons") /\ build' = SelectPersons(silver, build) /\ Unwritten("ensembles")
Ensembles == At("ensembles") /\ build' = SelectEnsembles(build) /\ Unwritten("runs")
CopyRuns == At("runs") /\ Written([gold EXCEPT !.runs = silver.runs], "kept persons") /\ UNCHANGED build
CopyPersons ==
    At("kept persons") /\ Written(CopyEntities(silver, build, gold, build.keptRoots), "claims") /\ UNCHANGED build
CollectClaims == At("claims") /\ build' = CollectPersonClaims(silver, build) /\ Unwritten("walk")
Walk ==
    /\ At("walk")
    /\ IF build.frontier # {} THEN build' = WalkRound(silver, build) /\ Unwritten("walk")
       ELSE build' = WalkEnd(build) /\ Unwritten("literals")
Literals == At("literals") /\ build' = CollectLiterals(silver, build) /\ Unwritten("others")
CopyOthers ==
    /\ At("others")
    /\ Written(CopyEntities(silver, build, gold, build.keptOther), "records")
    /\ build' = DropPrunedObjects(build)
Records == At("records") /\ Written(CopyRecords(silver, build, gold), "insert claims") /\ UNCHANGED build
InsertClaims == At("insert claims") /\ Written([gold EXCEPT !.claims = build.rows], "works") /\ UNCHANGED build
Works == At("works") /\ Written(CopyWorks(silver, build, gold), "titles") /\ UNCHANGED build
Titles ==
    At("titles") /\ Written([gold EXCEPT !.titles = silver.titles], "links") /\ UNCHANGED build
Links == At("links") /\ Written([gold EXCEPT !.links = silver.links], "mentions") /\ UNCHANGED build
Mentions == At("mentions") /\ Written(CopyMentions(silver, build, gold), "work entities") /\ UNCHANGED build
WorkEntities ==
    At("work entities") /\ Written(CopyWorkEntities(silver, build, gold), "concerts") /\ UNCHANGED build
Concerts == At("concerts") /\ Written(CopyEvents(silver, build, gold, "concert"), "recordings") /\ UNCHANGED build
Recordings ==
    At("recordings") /\ Written(CopyEvents(silver, build, gold, "recording"), "programmes") /\ UNCHANGED build
Programmes == At("programmes") /\ Written(RecountProgrammes(gold), "publish") /\ UNCHANGED build

\* The swap: readers see the new gold, which has no snapshot of connections yet.
Publish ==
    /\ phase = "publish"
    /\ live' = gold
    /\ status' = "complete"
    /\ phase' = "idle"
    /\ UNCHANGED <<backend, silver, spent, history, edit, build, gold>>

Step ==
    \/ Start \/ Persons \/ Ensembles \/ CopyRuns \/ CopyPersons \/ CollectClaims \/ Walk \/ Literals
    \/ CopyOthers \/ Records \/ InsertClaims \/ Works \/ Titles \/ Links \/ Mentions \/ WorkEntities
    \/ Concerts \/ Recordings \/ Programmes \/ Publish

Next == LoadsCommit \/ Edits \/ Step
Spec == Init /\ [][Next]_vars

----------------------------------------------------------------------------
(* What a promote must do *)

Published == status = "complete"

\* While silver stays as it is, a promote does not fail, and what it publishes has no
\* reference to a row that is missing; on Postgres that holds whatever commits meanwhile.
PromoteStands ==
    /\ ~disturbed => status # "failed"
    /\ Published /\ (~disturbed \/ backend = "postgres") => RefersToRows(live)

\* The spellings of one name, as silver linked them when the promote began, and whether
\* they are on enough events of a kind together.
Canonical(e) == IF build.config.collapse /\ e \in DOMAIN before.canonical THEN before.canonical[e] ELSE e
Spellings(e) == {x \in DOMAIN before.kinds : Canonical(x) = Canonical(e)}
Billed(e, kind) ==
    Cardinality({c.event : c \in {c \in before.credits :
        c.entity \in Spellings(e) /\ before.events[c.event] = kind}})
Enough(e) ==
    LET least == IF before.kinds[e] = "person" THEN build.config.persons ELSE build.config.ensembles
    IN Billed(e, "concert") >= least.concerts \/ Billed(e, "recording") >= least.recordings

\* Whatever commits while gold is built: nothing that silver linked to another spelling when
\* the promote began is in gold, no ensemble of then without enough credits of then is, and
\* every entity that gold speaks of is in gold, on SQLite as on Postgres.  Of an ensemble that
\* is committed meanwhile nobody asks for credits (see LateEnsemblesAreBilled).
Spoken ==
    (UNION {{p.subject, p.object} : p \in live.claims}) \union {c.entity : c \in live.credits}
    \union Range(live.works) \union Fields(live.records, "entity")
CurationHolds ==
    Published =>
        /\ \A e \in DOMAIN live.kinds \intersect DOMAIN before.kinds :
            /\ Canonical(e) = e
            /\ build.config.evidence /\ before.kinds[e] = "ensemble" => Enough(e)
        /\ Spoken \ {None} \subseteq DOMAIN live.kinds

\* A credit of silver that is linked is linked in gold, to the one row of all the
\* spellings of its name, when these are on enough events of that kind together.
CreditsSurvive ==
    Published /\ ~disturbed =>
        \A c \in before.credits :
            c.entity # None /\ before.kinds[c.entity] \in {"person", "ensemble"} /\ Enough(c.entity)
                => [c EXCEPT !.entity = Canonical(c.entity)] \in live.credits

\* An ensemble is in gold for a credit (contradicted for one that is committed between the
\* selection of ensembles and the walk: see README).
LateEnsemblesAreBilled ==
    Published /\ build.config.evidence =>
        \A e \in DOMAIN live.kinds : live.kinds[e] = "ensemble" => \E c \in silver.credits : Canonical(c.entity) = e

\* A person is in gold for evidence of its own (contradicted: see README).
NobodyComesBack ==
    Published => \A e \in DOMAIN live.kinds : live.kinds[e] = "person" => e \in build.keptRoots

\* Nobody reads the half of a file (contradicted when two edits meet: see README).
NoHalfFile == file # Broken

----------------------------------------------------------------------------
(* The inductive invariant behind PromoteStands, CurationHolds and CreditsSurvive. *)

\* Where the last promote is: the phases that have come, by what they leave behind.
Stage == IF Published THEN "published" ELSE phase
WithRecordings == {"programmes", "publish", "published"}
WithConcerts == {"recordings"} \union WithRecordings
WithMentions == {"work entities", "concerts"} \union WithConcerts
WithWorks == {"titles", "links", "mentions"} \union WithMentions
WithRecords == {"insert claims", "works"} \union WithWorks
WithEntities == {"records"} \union WithRecords
WalkEnded == {"literals", "others"} \union WithEntities
WithPersons == {"claims", "walk"} \union WalkEnded
WithRuns == {"kept persons"} \union WithPersons
Judged == {"runs"} \union WithRuns
Selected == {"ensembles"} \union Judged
Stages == {"idle", "persons"} \union Selected

\* A build speaks of the roots there were when it began, and of their credits.
Opened(s, b) ==
    /\ b.roots = (IF b.config.collapse THEN s.canonical ELSE NoRows)
    /\ b.persons = OfKind(s, "person") /\ b.ensembles = OfKind(s, "ensemble")
    /\ b.counts = AppearanceCounts(s, b)

\* Its roots are there whatever silver has come to.
RootsOf(s, b) ==
    /\ b.persons \subseteq OfKind(s, "person") /\ b.ensembles \subseteq OfKind(s, "ensemble")
    /\ \A e \in DOMAIN b.roots :
        /\ e \in DOMAIN s.kinds
        /\ b.roots[e] \in DOMAIN s.kinds \ DOMAIN b.roots
        /\ s.kinds[b.roots[e]] = s.kinds[e]

\* What is kept is a root, and no ensemble without a credit; rows are of what is kept.
KeptAreRoots(s, b, p) ==
    /\ b.keptRoots \subseteq Roots(b, b.persons)
    /\ b.keptMembers = {e \in b.persons : Root(b, e) \in b.keptRoots}
    /\ b.keptEnsembles \subseteq Roots(b, b.ensembles)
    /\ b.unevidenced \subseteq Roots(b, b.ensembles) \ b.keptEnsembles
    /\ b.frontier \union b.keptOther \subseteq {e \in DOMAIN s.kinds : Root(b, e) = e} \ b.unevidenced
    /\ b.other \subseteq DOMAIN s.kinds
    /\ p \in {"persons", "ensembles"} => b.frontier = {} /\ b.keptOther = {} /\ b.rows = {}
    /\ p \in WalkEnded => b.keptEnsembles \subseteq Kept(b)
RowsAreKept(b, p) ==
    \A row \in b.rows :
        /\ row.subject \in Kept(b)
        /\ p \in WithEntities => row.object = None \/ row.object \in Kept(b)
Selection(s, b, p) ==
    DOMAIN b = DOMAIN NewBuild(s, [collapse |-> FALSE]) /\ RootsOf(s, b) /\ KeptAreRoots(s, b, p) /\ RowsAreKept(b, p)

\* Gold has no row, and speaks of none, that is not kept; tables are filled in order, and
\* what is kept is in gold once entities are copied.
Curated(b, g, p) ==
    /\ DOMAIN g = DOMAIN EmptyGold
    /\ p \notin WithRuns => [g EXCEPT !.made = 0] = EmptyGold
    /\ p \notin WithRecords => g.claims = {}
    /\ p \notin WithWorks => /\ g.works = NoRows /\ g.titles = {} /\ g.links = {}
                            /\ g.mentions = NoRows /\ g.workEntities = {}
    /\ p \notin WithMentions => g.items = {}
    /\ DOMAIN g.kinds \subseteq Kept(b)
    /\ \A row \in g.claims : row.subject \in Kept(b) /\ (row.object = None \/ row.object \in Kept(b))
    /\ \A r \in g.records : r.entity \in Kept(b)
    /\ \A c \in g.credits : c.entity = None \/ c.entity \in Kept(b)
    /\ \A w \in DOMAIN g.works : g.works[w] = None \/ g.works[w] \in Kept(b)
    /\ p \in WithPersons => b.keptRoots \subseteq DOMAIN g.kinds
    /\ p \in WithEntities => Kept(b) \subseteq DOMAIN g.kinds

\* While silver stays as it is, gold has copied all that later rows refer to.
Recorded(s, b) ==
    \A row \in b.rows : row.record # None => \E r \in s.records : r.id = row.record /\ r.entity \in RecordOwners(b)
Copied(s, b, g, p) ==
    /\ RefersToRows(g)
    /\ Recorded(s, b)
    /\ p \in WithRuns => g.runs = s.runs
    /\ p \in WithRecords => \A r \in s.records : r.entity \in RecordOwners(b) => r.id \in Fields(g.records, "id")
    /\ p \in WithWorks => DOMAIN g.works = DOMAIN s.works
    /\ p \in WithMentions => DOMAIN g.mentions = DOMAIN s.mentions

\* And the credits of it.
CreditsCopied(s, b, g, kind) ==
    \A c \in s.credits : s.events[c.event] = kind => [c EXCEPT !.entity = InGold(b, @)] \in g.credits
Credited(s, b, g, p) ==
    /\ p \in WithConcerts => CreditsCopied(s, b, g, "concert")
    /\ p \in WithRecordings => CreditsCopied(s, b, g, "recording")

\* Who was billed often enough is kept, and no other ensemble that was there.
Evidenced(s, b, p) ==
    /\ Opened(s, b)
    /\ p \in Selected => AppearanceRoots(b, b.persons, b.config.persons) \subseteq b.keptRoots
    /\ p \in Judged =>
        /\ AppearanceRoots(b, b.ensembles, b.config.ensembles) \subseteq b.keptEnsembles
        /\ b.config.evidence =>
            Roots(b, b.ensembles) \ AppearanceRoots(b, b.ensembles, b.config.ensembles) \subseteq b.unevidenced

Progress ==
    /\ silver \in SilverStates /\ before \in SilverStates
    /\ phase # "idle" => Grown(before, silver)
    /\ ~disturbed /\ phase # "idle" => silver = before
    /\ Stage \in Stages
    /\ status \in {"none", "running", "failed", "complete"}
    /\ phase = "idle" <=> status # "running"
    /\ DOMAIN live = DOMAIN EmptyGold
    /\ Published => \A table \in DOMAIN EmptyGold \ {"connections"} : live[table] = gold[table]

IInv ==
    /\ Progress
    /\ Selection(silver, build, Stage)
    /\ Curated(build, gold, Stage)
    /\ Stage # "idle" => Evidenced(before, build, Stage)
    /\ backend = "postgres" => RefersToRows(gold)
    /\ ~disturbed => status # "failed"
    /\ ~disturbed /\ Stage # "idle" => Copied(before, build, gold, Stage) /\ Credited(before, build, gold, Stage)
=============================================================================
