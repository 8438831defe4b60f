-------------------------- MODULE IngestRunsProofs --------------------------
(***************************************************************************)
(* Proofs about IngestRuns, for any loads, sources and snapshots.  A step  *)
(* of a load does one of four things to the rows (RowStep): nothing, a     *)
(* rollback, a commit, or one write of a row nobody else has written.  So  *)
(* a load's own view of its rows survives the others, and it is that view, *)
(* not the table, that its caches and its count are true of.               *)
(***************************************************************************)
EXTENDS IngestRuns, FiniteSetTheorems, TLAPS

\* What a step of load r does to the rows: nothing; it gives up what it wrote;
\* it commits it; or it writes one document that no other load has written.
Kept(r) == rows' = rows /\ written' = written
GivenUp(r) == rows' = rows /\ written' = [written EXCEPT ![r] = Nothing]
Published(r) ==
    /\ rows' = [k \in Sources \X Ids |->
            IF k[1] = SourceOf[r] /\ written[r][k[2]] # NoRow
            THEN written[r][k[2]] ELSE rows[k]]
    /\ written' = [written EXCEPT ![r] = Nothing]
Wrote(r, i, row) ==
    /\ rows' = rows
    /\ written' = [written EXCEPT ![r][i] = row]
    /\ row \in Row /\ row.last = r
    /\ \A q \in SameSource(r) : written[q][i] = NoRow
    /\ Visible(r, i) = NoRow => row.first = r
    /\ Visible(r, i) # NoRow => row.first = Visible(r, i).first

LEMMA FeedsAreSequences ==
    \A f \in Feeds \union {<<>>} : f \in Seq(Doc) /\ Len(f) \in Nat
<1> TAKE f \in Feeds \union {<<>>}
<1>1. CASE f \in Feeds
  BY <1>1, FeedsAssumption
<1>2. CASE f = <<>>
  BY <1>2
<1> QED
  BY <1>1, <1>2

LEMMA ItemIsDoc ==
    ASSUME TypeOK, NEW r \in Runs, More(r)
    PROVE  /\ Item(r) \in Doc
           /\ Item(r).id \in Ids /\ Item(r).content \in Contents
           /\ Item(r).entity \in Names /\ Item(r).objects \in SUBSET Names
           /\ seen[r] + 1 \in 1..Len(feed[r])
<1>1. feed[r] \in Seq(Doc)
  BY FeedsAreSequences DEF TypeOK
<1>2. seen[r] \in Nat /\ seen[r] < Len(feed[r])
  BY DEF TypeOK, More
<1>3. Len(feed[r]) \in Nat
  BY <1>1
<1>4. seen[r] + 1 \in 1..Len(feed[r])
  BY <1>2, <1>3
<1>5. Item(r) \in Doc
  BY <1>1, <1>4 DEF Item
<1> QED
  BY <1>4, <1>5 DEF Doc

LEMMA RowsAre ==
    ASSUME TypeOK, NEW r \in Runs, NEW i \in Ids
    PROVE  /\ Key(r, i) \in Sources \X Ids
           /\ Key(r, i)[1] = SourceOf[r] /\ Key(r, i)[2] = i
           /\ rows[Key(r, i)] \in Row \union {NoRow}
           /\ written[r][i] \in Row \union {NoRow}
           /\ Visible(r, i) \in Row \union {NoRow}
<1>1. Key(r, i) \in Sources \X Ids /\ Key(r, i)[1] = SourceOf[r] /\ Key(r, i)[2] = i
  BY SourceOfAssumption DEF Key
<1>2. rows[Key(r, i)] \in Row \union {NoRow} /\ written[r][i] \in Row \union {NoRow}
  BY <1>1 DEF TypeOK
<1> QED
  BY <1>1, <1>2 DEF Visible

\* What writing a document does: a new one is stored as first seen by this load,
\* a known one keeps the load that was, and both are in the cache afterwards.
LEMMA StoreStep ==
    ASSUME IInv, NEW r \in Runs, IngestNew(r) \/ IngestKnown(r)
    PROVE  /\ More(r) /\ pc[r] = "loop"
           /\ known' = [known EXCEPT ![r][Item(r).id] = Item(r).content]
           /\ seen' = [seen EXCEPT ![r] = @ + 1]
           /\ UNCHANGED <<feed, alone, log>>
           /\ \E row \in Row :
                /\ Wrote(r, Item(r).id, row)
                /\ \/ row.content = Item(r).content
                   \/ row.content = Visible(r, Item(r).id).content /\ known[r][Item(r).id] = Item(r).content
           /\ IngestNew(r) => Visible(r, Item(r).id) = NoRow /\ new' = [new EXCEPT ![r] = @ + 1]
           /\ IngestKnown(r) => Visible(r, Item(r).id) # NoRow /\ new' = new
<1> USE DEF database, counters, caches, transaction
<1> DEFINE i == Item(r).id
<1>1. TypeOK
  BY DEF IInv
<1>2. /\ More(r) /\ pc[r] = "loop" /\ UNCHANGED <<feed, alone, log>>
      /\ known' = [known EXCEPT ![r][Item(r).id] = Item(r).content]
      /\ seen' = [seen EXCEPT ![r] = @ + 1]
  BY DEF IngestNew, IngestKnown, More, Store, Passed
<1>3. i \in Ids /\ Item(r).content \in Contents /\ Item(r).entity \in Names
  BY <1>1, <1>2, ItemIsDoc
<1>4. \A q \in SameSource(r) : written[q][i] = NoRow
  BY DEF IngestNew, IngestKnown, WaitsForRow
<1>5. CacheIsStored(r)
  BY DEF IInv
<1>6. CASE IngestNew(r)
  <2> DEFINE row == [content |-> Item(r).content, entity |-> Item(r).entity, first |-> r, last |-> r]
  <2>1. known[r][i] = NoRow /\ rows[Key(r, i)] = NoRow
    BY <1>6 DEF IngestNew
  <2>2. written[r][i] = NoRow
    BY <1>2, <1>3, <1>5, <2>1 DEF CacheIsStored
  <2>3. Visible(r, i) = NoRow
    BY <2>1, <2>2 DEF Visible
  <2>4. row \in Row /\ row.first = r /\ row.last = r /\ row.content = Item(r).content
    BY <1>3 DEF Row
  <2>5. rows' = rows /\ written' = [written EXCEPT ![r][i] = row] /\ new' = [new EXCEPT ![r] = @ + 1]
    BY <1>6 DEF IngestNew, Store
  <2>6. ~IngestKnown(r)
    BY <2>1 DEF IngestKnown
  <2> HIDE DEF row
  <2>7. Wrote(r, i, row)
    BY <1>4, <2>3, <2>4, <2>5 DEF Wrote
  <2> QED
    BY <1>2, <2>3, <2>4, <2>5, <2>6, <2>7
<1>7. CASE IngestKnown(r)
  <2> DEFINE row == [Visible(r, i) EXCEPT
                        !.content = IF Changed(r) THEN Item(r).content ELSE @,
                        !.entity = IF ReadsEntity(r) THEN Item(r).entity ELSE @,
                        !.last = r]
  <2>1. known[r][i] # NoRow
    BY <1>7 DEF IngestKnown
  <2>2. Visible(r, i) # NoRow
    BY <1>2, <1>3, <1>5, <2>1 DEF CacheIsStored
  <2>3. Visible(r, i) \in Row
    BY <1>1, <1>3, <2>2, RowsAre
  <2>4. /\ row \in Row /\ row.first = Visible(r, i).first /\ row.last = r
        /\ row.content = IF Changed(r) THEN Item(r).content ELSE Visible(r, i).content
    BY <1>3, <2>3 DEF Row
  <2>5. rows' = rows /\ written' = [written EXCEPT ![r][i] = row] /\ new' = new
    BY <1>7 DEF IngestKnown, Store
  <2>6. ~IngestNew(r)
    BY <2>1 DEF IngestNew
  <2> HIDE DEF row
  <2>7. Wrote(r, i, row)
    BY <1>4, <2>2, <2>4, <2>5 DEF Wrote
  <2> QED
    BY <1>2, <2>2, <2>4, <2>6, <2>7, <2>5 DEF Changed
<1> QED
  BY <1>6, <1>7

LEMMA RowStep ==
    ASSUME IInv, NEW r \in Runs, Load(r)
    PROVE  \/ Kept(r) \/ GivenUp(r) \/ Published(r)
           \/ \E i \in Ids, row \in Row : Wrote(r, i, row)
<1> USE DEF database, counters, caches, transaction
<1>1. TypeOK
  BY DEF IInv
<1>2. CASE IngestNew(r) \/ IngestKnown(r)
  BY <1>1, <1>2, StoreStep, ItemIsDoc
<1>4. CASE CommitBatch(r) \/ Salvage(r) \/ Complete(r)
  BY <1>4 DEF CommitBatch, Salvage, Complete, Publish, Discard, Published
<1>5. CASE Rollback(r) \/ CompleteFails(r) \/ Kill(r)
  BY <1>5 DEF Rollback, CompleteFails, Kill, Discard, GivenUp
<1>6. CASE Accept(r) \/ Create(r) \/ LoadState(r) \/ IngestFails(r) \/ SourceRaises(r)
             \/ BatchFails(r) \/ FinalizeFailed(r)
  BY <1>6 DEF Accept, Create, LoadState, IngestFails, SourceRaises, BatchFails, FinalizeFailed, Kept
<1> QED
  BY <1>2, <1>4, <1>5, <1>6 DEF Load

LEMMA WrittenStep ==
    ASSUME IInv, NEW r \in Runs, Load(r)
    PROVE  /\ \A q \in Runs \ {r} : written'[q] = written[q]
           /\ \A q \in Runs, i \in Ids : \/ written'[q][i] = written[q][i]
                                         \/ q = r /\ written'[q][i] = NoRow
                                         \/ q = r /\ rows' = rows /\ Wrote(r, i, written'[q][i])
<1>1. written \in [Runs -> [Ids -> Row \union {NoRow}]]
  BY DEF IInv, TypeOK
<1>2. CASE Kept(r)
  BY <1>2 DEF Kept
<1>3. CASE GivenUp(r) \/ Published(r)
  BY <1>1, <1>3 DEF GivenUp, Published, Nothing
<1>4. CASE \E i \in Ids, row \in Row : Wrote(r, i, row)
  <2>1. PICK j \in Ids, row \in Row : Wrote(r, j, row)
    BY <1>4
  <2>2. written' = [written EXCEPT ![r][j] = row] /\ rows' = rows
    BY <2>1 DEF Wrote
  <2>3. written'[r][j] = row
    BY <1>1, <2>2
  <2> QED
    BY <1>1, <2>1, <2>2, <2>3
<1> QED
  BY <1>2, <1>3, <1>4, RowStep

LEMMA CommittedStep ==
    ASSUME IInv, NEW r \in Runs, Load(r), NEW q \in Runs, NEW i \in Ids
    PROVE  \/ rows'[Key(q, i)] = rows[Key(q, i)]
           \/ /\ SourceOf[q] = SourceOf[r] /\ written[r][i] # NoRow
              /\ rows'[Key(q, i)] = written[r][i]
              /\ written'[r] = Nothing
<1>1. Key(q, i) \in Sources \X Ids /\ Key(q, i)[1] = SourceOf[q] /\ Key(q, i)[2] = i
  BY RowsAre DEF IInv
<1>2. CASE Published(r)
  BY <1>1, <1>2 DEF Published, IInv, TypeOK
<1>3. CASE ~Published(r)
  BY <1>3, RowStep DEF Kept, GivenUp, Wrote
<1> QED
  BY <1>2, <1>3

\* Two loads never hold versions of one row.
LEMMA OneWriterKept ==
    ASSUME IInv, NEW r \in Runs, Load(r)
    PROVE  OneWriter'
<1> SUFFICES ASSUME NEW p \in Runs, NEW q \in Runs, NEW i \in Ids, p # q,
                    SourceOf[p] = SourceOf[q], written'[p][i] # NoRow
             PROVE  written'[q][i] = NoRow
  BY DEF OneWriter
<1>1. written[p][i] = NoRow \/ written[q][i] = NoRow
  BY DEF IInv, OneWriter
<1>2. CASE p # r /\ q # r
  BY <1>1, <1>2, WrittenStep
<1>3. CASE p = r
  <2>1. written'[q][i] = written[q][i]
    BY <1>3, WrittenStep
  <2>2. \/ written'[p][i] = written[p][i]
        \/ Wrote(r, i, written'[p][i])
    BY <1>3, WrittenStep
  <2>3. q \in SameSource(r)
    BY <1>3 DEF SameSource
  <2> QED
    BY <1>1, <2>1, <2>2, <2>3 DEF Wrote
<1>4. CASE q = r
  <2>1. written'[p][i] = written[p][i]
    BY <1>4, WrittenStep
  <2>2. \/ written'[q][i] = written[q][i]
        \/ written'[q][i] = NoRow
        \/ Wrote(r, i, written'[q][i])
    BY <1>4, WrittenStep
  <2>3. p \in SameSource(r)
    BY <1>4 DEF SameSource
  <2> QED
    BY <1>1, <2>1, <2>2, <2>3 DEF Wrote
<1> QED
  BY <1>2, <1>3, <1>4

\* A committed row keeps the load that was the first to see it, and changes
\* only to a version whose last writer is the load that commits.
LEMMA RowsRemain ==
    ASSUME IInv, NEW r \in Runs, Load(r), NEW q \in Runs, NEW i \in Ids
    PROVE  /\ rows[Key(q, i)] # NoRow =>
                  rows'[Key(q, i)] # NoRow /\ rows'[Key(q, i)].first = rows[Key(q, i)].first
           /\ rows'[Key(q, i)] # rows[Key(q, i)] =>
                  /\ SourceOf[q] = SourceOf[r]
                  /\ pc[r] \in Working
                  /\ rows'[Key(q, i)].last = r
           /\ rows[Key(q, i)] = NoRow /\ rows'[Key(q, i)] # NoRow =>
                  rows'[Key(q, i)].first = r
<1>1. CASE rows'[Key(q, i)] = rows[Key(q, i)]
  BY <1>1
<1>2. CASE /\ SourceOf[q] = SourceOf[r] /\ written[r][i] # NoRow
           /\ rows'[Key(q, i)] = written[r][i]
  <2>1. Key(q, i) = Key(r, i)
    BY <1>2 DEF Key
  <2>2. Descends(r) /\ PhaseOf(r)
    BY DEF IInv
  <2>3. pc[r] \in Working
    BY <1>2, <2>2 DEF PhaseOf, Nothing, Working
  <2> QED
    BY <1>2, <2>1, <2>2, <2>3 DEF Descends
<1> QED
  BY <1>1, <1>2, CommittedStep

LEMMA DescendsKept ==
    ASSUME IInv, NEW r \in Runs, Load(r)
    PROVE  \A q \in Runs : Descends(q)'
<1> SUFFICES ASSUME NEW q \in Runs, NEW i \in Ids, written'[q][i] # NoRow
             PROVE  /\ written'[q][i].last = q
                    /\ rows'[Key(q, i)] = NoRow => written'[q][i].first = q
                    /\ rows'[Key(q, i)] # NoRow => written'[q][i].first = rows'[Key(q, i)].first
  BY DEF Descends, Key
<1>1. Descends(q)
  BY DEF IInv
<1>2. CASE q = r /\ rows' = rows /\ Wrote(r, i, written'[q][i])
  BY <1>1, <1>2 DEF Wrote, Visible, Descends
<1>3. CASE written'[q][i] = written[q][i]
  <2>1. CASE rows'[Key(q, i)] = rows[Key(q, i)]
    BY <1>1, <1>3, <2>1 DEF Descends
  <2>2. CASE /\ SourceOf[q] = SourceOf[r] /\ written[r][i] # NoRow
             /\ rows'[Key(q, i)] = written[r][i]
             /\ written'[r] = Nothing
    <3>1. q = r
      BY <1>3, <2>2 DEF IInv, OneWriter
    <3> QED
      BY <2>2, <3>1 DEF Nothing
  <2> QED
    BY <2>1, <2>2, CommittedStep
<1> QED
  BY <1>2, <1>3, WrittenStep

\* Another load's step takes no row away from this one, and gives it none it
\* was the first to see.
LEMMA OthersKeep ==
    ASSUME IInv, NEW r \in Runs, Load(r), NEW q \in Runs, q # r
    PROVE  /\ Mine(q)' = Mine(q)
           /\ \A i \in Ids : Visible(q, i) # NoRow => Visible(q, i)' # NoRow
<1>1. ASSUME NEW i \in Ids
      PROVE  /\ Visible(q, i) # NoRow =>
                    Visible(q, i)' # NoRow /\ Visible(q, i)'.first = Visible(q, i).first
             /\ Visible(q, i) = NoRow /\ Visible(q, i)' # NoRow => Visible(q, i)'.first = r
  <2>1. written'[q][i] = written[q][i]
    BY WrittenStep
  <2>2. Visible(q, i)' = IF written'[q][i] # NoRow THEN written'[q][i] ELSE rows'[Key(q, i)]
    BY DEF Visible, Key
  <2> QED
    BY <2>1, <2>2, RowsRemain DEF Visible
<1>2. Mine(q)' = {i \in Ids : Visible(q, i)' # NoRow /\ Visible(q, i)'.first = q}
  BY DEF Mine
<1> QED
  BY <1>1, <1>2 DEF Mine

\* A load's step leaves the local state of the others alone.
LEMMA LocalStep ==
    ASSUME TypeOK, NEW r \in Runs, Load(r), NEW q \in Runs, q # r
    PROVE  /\ pc'[q] = pc[q] /\ log'[q] = log[q] /\ feed'[q] = feed[q]
           /\ seen'[q] = seen[q] /\ new'[q] = new[q] /\ known'[q] = known[q]
           /\ alone'[q] => alone[q]
<1> USE DEF TypeOK, database, counters, caches, transaction, Goto, Leave, Finalize
<1>1. CASE Accept(r) \/ LoadState(r)
  BY <1>1 DEF Accept, LoadState
<1>2. CASE Create(r)
  BY <1>2 DEF Create
<1>3. CASE IngestNew(r) \/ IngestKnown(r) \/ IngestFails(r) \/ SourceRaises(r)
  BY <1>3 DEF IngestNew, IngestKnown, IngestFails, SourceRaises, Store, Passed
<1>4. CASE CommitBatch(r) \/ BatchFails(r) \/ Salvage(r) \/ Rollback(r)
  BY <1>4 DEF CommitBatch, BatchFails, Salvage, Rollback
<1>5. CASE FinalizeFailed(r) \/ Complete(r) \/ CompleteFails(r) \/ Kill(r)
  BY <1>5 DEF FinalizeFailed, Complete, CompleteFails, Kill
<1> QED
  BY <1>1, <1>2, <1>3, <1>4, <1>5 DEF Load

LEMMA LocationsKept ==
    ASSUME TypeOK, NEW r \in Runs, Load(r)
    PROVE  pc' \in [Runs -> Locations]
<1> USE DEF TypeOK, Goto, Leave, Locations, Working
<1>1. CASE Accept(r) \/ LoadState(r) \/ Create(r)
  BY <1>1 DEF Accept, LoadState, Create
<1>3. CASE IngestNew(r) \/ IngestKnown(r) \/ IngestFails(r) \/ SourceRaises(r)
  BY <1>3 DEF IngestNew, IngestKnown, IngestFails, SourceRaises, Passed
<1>4. CASE CommitBatch(r) \/ BatchFails(r) \/ Salvage(r) \/ Rollback(r)
  BY <1>4 DEF CommitBatch, BatchFails, Salvage, Rollback
<1>5. CASE FinalizeFailed(r) \/ Complete(r) \/ CompleteFails(r) \/ Kill(r)
  BY <1>5 DEF FinalizeFailed, Complete, CompleteFails, Kill
<1> QED
  BY <1>1, <1>3, <1>4, <1>5 DEF Load

\* The counts stay within the feed.
LEMMA CountersKept ==
    ASSUME IInv, NEW r \in Runs, Load(r)
    PROVE  /\ feed' \in [Runs -> Feeds \union {<<>>}]
           /\ seen' \in [Runs -> Nat] /\ \A q \in Runs : seen'[q] <= Len(feed'[q])
           /\ new' \in [Runs -> Nat] /\ \A q \in Runs : new'[q] <= seen'[q]
<1> USE DEF counters
<1>1. TypeOK
  BY DEF IInv
<1>2. \A q \in Runs : Len(feed'[q]) \in Nat /\ Len(feed[q]) \in Nat
  BY <1>1, FeedsAreSequences
<1>3. CASE Create(r)
  <2>1. seen[r] = 0 /\ new[r] = 0
    BY <1>3 DEF Create, IInv, PhaseOf
  <2>2. PICK f \in Feeds : feed' = [feed EXCEPT ![r] = f]
    BY <1>3 DEF Create
  <2>3. Len(f) \in Nat
    BY FeedsAssumption
  <2>4. seen' = seen /\ new' = new
    BY <1>3 DEF Create
  <2> QED
    BY <1>1, <2>1, <2>2, <2>3, <2>4 DEF TypeOK
<1>4. CASE IngestNew(r) \/ IngestKnown(r) \/ IngestFails(r)
  <2>1. /\ seen' = [seen EXCEPT ![r] = @ + 1] /\ feed' = feed
        /\ new' = new \/ new' = [new EXCEPT ![r] = @ + 1]
        /\ seen[r] < Len(feed[r])
    BY <1>4 DEF IngestNew, IngestKnown, IngestFails, Passed, More
  <2> QED
    BY <1>1, <1>2, <2>1 DEF TypeOK
<1>5. CASE FinalizeFailed(r) \/ Complete(r) \/ CompleteFails(r) \/ Kill(r)
  <2>1. seen' = [seen EXCEPT ![r] = 0] /\ new' = [new EXCEPT ![r] = 0] /\ feed' = feed
    BY <1>5 DEF FinalizeFailed, Complete, CompleteFails, Kill, Leave
  <2> QED
    BY <1>1, <1>2, <2>1 DEF TypeOK
<1>6. CASE \/ Accept(r) \/ LoadState(r) \/ SourceRaises(r)
           \/ CommitBatch(r) \/ BatchFails(r) \/ Salvage(r) \/ Rollback(r)
  <2>1. seen' = seen /\ new' = new /\ feed' = feed
    BY <1>6 DEF Accept, LoadState, SourceRaises, CommitBatch, BatchFails, Salvage, Rollback
  <2> QED
    BY <1>1, <2>1 DEF TypeOK
<1> QED
  BY <1>3, <1>4, <1>5, <1>6 DEF Load

LEMMA LogKept ==
    ASSUME TypeOK, NEW r \in Runs, Load(r)
    PROVE  log' \in [Runs -> [status : {"none", "running", "completed", "failed"}, seen : Nat, new : Nat]]
<1>1. CASE UNCHANGED log
  BY <1>1 DEF TypeOK
<1>2. CASE Finalize(r, "running") \/ Finalize(r, "failed") \/ Finalize(r, "completed")
  <2>1. PICK status \in {"none", "running", "completed", "failed"} : Finalize(r, status)
    BY <1>2
  <2>2. [status |-> status, seen |-> seen[r], new |-> new[r]]
            \in [status : {"none", "running", "completed", "failed"}, seen : Nat, new : Nat]
    BY DEF TypeOK
  <2> QED
    BY <2>1, <2>2 DEF Finalize, TypeOK
<1>3. CASE Create(r) \/ FinalizeFailed(r) \/ Complete(r)
  BY <1>2, <1>3 DEF Create, FinalizeFailed, Complete
<1> QED
  BY <1>1, <1>3 DEF Load, Accept, LoadState, IngestNew, IngestKnown, IngestFails, SourceRaises,
     CommitBatch, BatchFails, Salvage, Rollback, CompleteFails, Kill, database

LEMMA RowsKept ==
    ASSUME IInv, NEW r \in Runs, Load(r)
    PROVE  /\ rows' \in [Sources \X Ids -> Row \union {NoRow}]
           /\ written' \in [Runs -> [Ids -> Row \union {NoRow}]]
<1>1. TypeOK
  BY DEF IInv
<1>2. CASE Kept(r)
  BY <1>1, <1>2 DEF Kept, TypeOK
<1>3. CASE GivenUp(r)
  BY <1>1, <1>3 DEF GivenUp, TypeOK, Nothing
<1>4. CASE Published(r)
  <2>1. \A k \in Sources \X Ids : k[2] \in Ids
    OBVIOUS
  <2> QED
    BY <1>1, <1>4, <2>1 DEF Published, TypeOK, Nothing
<1>5. CASE \E i \in Ids, row \in Row : Wrote(r, i, row)
  BY <1>1, <1>5 DEF Wrote, TypeOK
<1> QED
  BY <1>2, <1>3, <1>4, <1>5, RowStep

\* The entity of a stored document is a name, as are those a document mentions.
LEMMA CachesKept ==
    ASSUME IInv, NEW r \in Runs, Load(r)
    PROVE  /\ known' \in [Runs -> [Ids -> Contents \union {NoRow}]]
           /\ entities' \subseteq Names
           /\ minted' \in [Runs -> SUBSET Names]
           /\ inserted' \in [Runs -> SUBSET Names]
           /\ pending' \in [Runs -> SUBSET Names]
<1> USE DEF database, caches, transaction
<1>1. TypeOK
  BY DEF IInv
<1>2. CASE IngestNew(r) \/ IngestKnown(r)
  <2>1. More(r)
    BY <1>2 DEF IngestNew, IngestKnown
  <2>2. /\ Item(r).id \in Ids /\ Item(r).content \in Contents
        /\ Item(r).entity \in Names /\ Item(r).objects \in SUBSET Names
    BY <1>1, <2>1, ItemIsDoc
  <2>3. ToFlush(r) \in SUBSET Names
    BY <1>1, <2>2 DEF ToFlush, TypeOK
  <2>4. CASE IngestNew(r)
    BY <1>1, <2>2, <2>3, <2>4 DEF IngestNew, Store, TypeOK
  <2>5. CASE IngestKnown(r)
    <3>1. Visible(r, Item(r).id) \in Row
      <4>1. CacheIsStored(r) /\ pc[r] = "loop" /\ known[r][Item(r).id] # NoRow
        BY <2>1, <2>5 DEF IInv, More, IngestKnown
      <4> QED
        BY <1>1, <2>2, <4>1, RowsAre DEF CacheIsStored
    <3>2. PICK row : Store(r, row) /\ row.entity \in {Visible(r, Item(r).id).entity, Item(r).entity}
      <4> DEFINE row == [Visible(r, Item(r).id) EXCEPT
                !.content = IF Changed(r) THEN Item(r).content ELSE @,
                !.entity = IF ReadsEntity(r) THEN Item(r).entity ELSE @,
                !.last = r]
      <4>1. Store(r, row)
        BY <2>5 DEF IngestKnown
      <4>2. row.entity \in {Visible(r, Item(r).id).entity, Item(r).entity}
        BY <3>1 DEF Row
      <4> QED
        BY <4>1, <4>2
    <3>3. row.entity \in Names
      BY <2>2, <3>1, <3>2 DEF Row
    <3>4. entities' = entities
      BY <2>5 DEF IngestKnown
    <3> QED
      BY <1>1, <2>2, <2>3, <3>2, <3>3, <3>4 DEF Store, TypeOK
  <2> QED
    BY <1>2, <2>4, <2>5
<1>3. CASE LoadState(r)
  <2>1. /\ minted' = [minted EXCEPT ![r] = entities]
        /\ UNCHANGED <<entities, inserted, pending>>
        /\ known' = [known EXCEPT ![r] = [i \in Ids |->
            IF rows[Key(r, i)] = NoRow THEN NoRow ELSE rows[Key(r, i)].content]]
    BY <1>3 DEF LoadState
  <2>2. ASSUME NEW i \in Ids
        PROVE  (IF rows[Key(r, i)] = NoRow THEN NoRow ELSE rows[Key(r, i)].content) \in Contents \union {NoRow}
    BY <1>1, RowsAre DEF Row
  <2> QED
    BY <1>1, <2>1, <2>2 DEF TypeOK
<1>4. CASE CommitBatch(r) \/ Salvage(r)
  BY <1>1, <1>4 DEF CommitBatch, Salvage, Publish, Discard, TypeOK
<1>5. CASE Complete(r)
  BY <1>1, <1>5 DEF Complete, Publish, Discard, Leave, Nothing, TypeOK
<1>6. CASE Rollback(r)
  BY <1>1, <1>6 DEF Rollback, Discard, TypeOK
<1>7. CASE CompleteFails(r) \/ Kill(r)
  <2>1. /\ known' = [known EXCEPT ![r] = Nothing] /\ entities' = entities
        /\ minted' = [minted EXCEPT ![r] = {}]
        /\ inserted' = [inserted EXCEPT ![r] = {}]
        /\ pending' = [pending EXCEPT ![r] = {}]
    BY <1>7 DEF CompleteFails, Kill, Discard, Leave
  <2> QED
    BY <1>1, <2>1 DEF Nothing, TypeOK
<1>8. CASE FinalizeFailed(r)
  BY <1>1, <1>8 DEF FinalizeFailed, Leave, Nothing, TypeOK
<1>9. CASE Accept(r) \/ Create(r) \/ IngestFails(r) \/ SourceRaises(r) \/ BatchFails(r)
  BY <1>1, <1>9 DEF Accept, Create, IngestFails, SourceRaises, BatchFails, TypeOK
<1> QED
  BY <1>2, <1>3, <1>4, <1>5, <1>6, <1>7, <1>8, <1>9 DEF Load

LEMMA TypeKept ==
    ASSUME IInv, NEW r \in Runs, Load(r)
    PROVE  TypeOK'
<1>1. TypeOK
  BY DEF IInv
<1>2. alone' \in [Runs -> BOOLEAN]
  <2>1. CASE Create(r)
    <3> DEFINE beside == {q \in SameSource(r) : pc[q] \in Working}
    <3>1. alone' = [q \in Runs |-> IF q \in beside \/ (q = r /\ beside # {}) THEN FALSE ELSE alone[q]]
      BY <2>1 DEF Create
    <3> QED
      BY <1>1, <3>1 DEF TypeOK
  <2>2. CASE alone' = alone
    BY <1>1, <2>2 DEF TypeOK
  <2> QED
    BY <2>1, <2>2 DEF Load, Accept, LoadState, IngestNew, IngestKnown, IngestFails, SourceRaises,
       CommitBatch, BatchFails, Salvage, Rollback, FinalizeFailed, Complete, CompleteFails, Kill
<1> QED
  BY <1>1, <1>2, LocationsKept, CountersKept, LogKept, RowsKept, CachesKept DEF TypeOK

-----------------------------------------------------------------------------
(* What the load that steps sees of its rows.                              *)

LEMMA VisibleAfter ==
    ASSUME NEW r \in Runs, NEW i \in Ids
    PROVE  Visible(r, i)' = IF written'[r][i] # NoRow THEN written'[r][i] ELSE rows'[Key(r, i)]
BY DEF Visible, Key

\* A commit changes nothing of what the load itself sees.
LEMMA OwnCommit ==
    ASSUME TypeOK, NEW r \in Runs, Kept(r) \/ Published(r)
    PROVE  \A i \in Ids : Visible(r, i)' = Visible(r, i)
<1> TAKE i \in Ids
<1>1. /\ Key(r, i) \in Sources \X Ids
      /\ Key(r, i)[1] = SourceOf[r] /\ Key(r, i)[2] = i
  BY RowsAre
<1>2. CASE Kept(r)
  BY <1>2, VisibleAfter DEF Kept, Visible
<1>3. CASE Published(r)
  <2>1. written'[r][i] = NoRow
    BY <1>3 DEF Published, TypeOK, Nothing
  <2>2. rows'[Key(r, i)] = IF written[r][i] # NoRow THEN written[r][i] ELSE rows[Key(r, i)]
    BY <1>1, <1>3 DEF Published
  <2> QED
    BY <2>1, <2>2, VisibleAfter DEF Visible
<1> QED
  BY <1>2, <1>3

\* A rollback leaves the committed rows.
LEMMA OwnRollback ==
    ASSUME TypeOK, NEW r \in Runs, GivenUp(r)
    PROVE  \A i \in Ids : Visible(r, i)' = rows[Key(r, i)]
<1> TAKE i \in Ids
<1>1. written'[r][i] = NoRow
  BY DEF GivenUp, TypeOK, Nothing
<1> QED
  BY <1>1, VisibleAfter DEF GivenUp

LEMMA OwnWrite ==
    ASSUME TypeOK, NEW r \in Runs, NEW j \in Ids, NEW row, Wrote(r, j, row)
    PROVE  /\ Visible(r, j)' = row /\ row # NoRow
           /\ \A i \in Ids \ {j} : Visible(r, i)' = Visible(r, i) /\ written'[r][i] = written[r][i]
<1>1. /\ written' = [written EXCEPT ![r][j] = row] /\ rows' = rows /\ row # NoRow
  BY NoRowAssumption DEF Wrote
<1>2. Visible(r, j)' = row
  BY <1>1, VisibleAfter DEF TypeOK
<1>3. ASSUME NEW i \in Ids \ {j}
      PROVE  Visible(r, i)' = Visible(r, i) /\ written'[r][i] = written[r][i]
  BY <1>1, VisibleAfter DEF TypeOK, Visible
<1> QED
  BY <1>1, <1>2, <1>3

-----------------------------------------------------------------------------
(* The phases and the caches.                                              *)

LEMMA PhaseKept ==
    ASSUME IInv, NEW r \in Runs, Load(r), NEW q \in Runs
    PROVE  PhaseOf(q)'
<1>1. TypeOK /\ PhaseOf(q) /\ PhaseOf(r)
  BY DEF IInv
<1>2. CASE q # r
  BY <1>1, <1>2, LocalStep, WrittenStep DEF PhaseOf, Nothing
<1>3. CASE q = r
  <2> USE DEF TypeOK, database, counters, transaction, Goto, Leave, Finalize, Discard, PhaseOf, Nothing
  <2>1. CASE Accept(r) \/ LoadState(r)
    BY <1>1, <1>3, <2>1 DEF Accept, LoadState
  <2>2. CASE Create(r)
    BY <1>1, <1>3, <2>2 DEF Create
  <2>3. CASE IngestNew(r) \/ IngestKnown(r)
    BY <1>1, <1>3, <2>3 DEF IngestNew, IngestKnown, Passed, More
  <2>4. CASE IngestFails(r) \/ SourceRaises(r) \/ BatchFails(r)
    BY <1>1, <1>3, <2>4 DEF IngestFails, SourceRaises, BatchFails, More
  <2>5. CASE CommitBatch(r) \/ Salvage(r)
    BY <1>1, <1>3, <2>5 DEF CommitBatch, Salvage, Publish
  <2>6. CASE Rollback(r)
    BY <1>1, <1>3, <2>6 DEF Rollback
  <2>7. CASE FinalizeFailed(r)
    BY <1>1, <1>3, <2>7 DEF FinalizeFailed
  <2>8. CASE Complete(r)
    BY <1>1, <1>3, <2>8 DEF Complete, Publish
  <2>9. CASE CompleteFails(r) \/ Kill(r)
    BY <1>1, <1>3, <2>9 DEF CompleteFails, Kill, Working
  <2> QED
    BY <2>1, <2>2, <2>3, <2>4, <2>5, <2>6, <2>7, <2>8, <2>9 DEF Load
<1> QED
  BY <1>2, <1>3

\* The steps that end in the loop or at a commit.
LEMMA InTheLoop ==
    ASSUME TypeOK, NEW r \in Runs, Load(r), pc'[r] \in {"loop", "batch"}
    PROVE  LoadState(r) \/ IngestNew(r) \/ IngestKnown(r) \/ CommitBatch(r)
<1> USE DEF TypeOK, Goto, Leave
<1>1. ~Accept(r) /\ ~Create(r)
  BY DEF Accept, Create
<1>2. ~IngestFails(r) /\ ~SourceRaises(r) /\ ~BatchFails(r)
  BY DEF IngestFails, SourceRaises, BatchFails
<1>3. ~Salvage(r) /\ ~Rollback(r) /\ ~FinalizeFailed(r)
  BY DEF Salvage, Rollback, FinalizeFailed
<1>4. ~Complete(r) /\ ~CompleteFails(r) /\ ~Kill(r)
  BY DEF Complete, CompleteFails, Kill
<1> QED
  BY <1>1, <1>2, <1>3, <1>4 DEF Load

LEMMA CacheIsStoredKept ==
    ASSUME IInv, NEW r \in Runs, Load(r), NEW q \in Runs
    PROVE  CacheIsStored(q)'
<1>1. TypeOK /\ CacheIsStored(q) /\ PhaseOf(q)
  BY DEF IInv
<1>2. SUFFICES ASSUME pc'[q] \in {"loop", "batch"}, NEW i \in Ids
               PROVE  IF known'[q][i] = NoRow THEN written'[q][i] = NoRow ELSE Visible(q, i)' # NoRow
  BY DEF CacheIsStored
<1>3. CASE q # r
  <2>1. pc'[q] = pc[q] /\ known'[q] = known[q] /\ written'[q] = written[q]
    BY <1>1, <1>3, LocalStep, WrittenStep
  <2>2. Visible(q, i) # NoRow => Visible(q, i)' # NoRow
    BY <1>3, OthersKeep
  <2> QED
    BY <1>1, <1>2, <2>1, <2>2 DEF CacheIsStored
<1>4. CASE q = r /\ LoadState(r)
  <2>1. /\ known'[r][i] = IF rows[Key(r, i)] = NoRow THEN NoRow ELSE rows[Key(r, i)].content
        /\ Kept(r) /\ written[r] = Nothing
    BY <1>1, <1>4 DEF LoadState, TypeOK, database, transaction, Kept, PhaseOf
  <2>2. Visible(r, i)' = rows[Key(r, i)] /\ written'[r][i] = NoRow
    BY <2>1, VisibleAfter DEF Kept, Nothing
  <2> QED
    BY <1>4, <2>1, <2>2
<1>5. CASE q = r /\ (IngestNew(r) \/ IngestKnown(r))
  <2>1. /\ Item(r).id \in Ids /\ Item(r).content \in Contents
        /\ known' = [known EXCEPT ![r][Item(r).id] = Item(r).content]
        /\ pc[r] = "loop"
    BY <1>1, <1>5, StoreStep, ItemIsDoc
  <2>2. PICK row \in Row : Wrote(r, Item(r).id, row)
    BY <1>5, StoreStep
  <2>3. CASE i = Item(r).id
    <3>1. known'[r][i] \in Contents
      BY <1>1, <2>1, <2>3 DEF TypeOK
    <3>2. Visible(r, i)' # NoRow
      BY <1>1, <2>1, <2>2, <2>3, OwnWrite
    <3> QED
      BY <1>5, <3>1, <3>2, NoRowAssumption
  <2>4. CASE i # Item(r).id
    <3>1. known'[r][i] = known[r][i]
      BY <1>1, <2>1, <2>4 DEF TypeOK
    <3>2. Visible(r, i)' = Visible(r, i) /\ written'[r][i] = written[r][i]
      BY <1>1, <2>1, <2>2, <2>4, OwnWrite
    <3> QED
      BY <1>1, <1>5, <2>1, <3>1, <3>2 DEF CacheIsStored
  <2> QED
    BY <2>3, <2>4
<1>6. CASE q = r /\ CommitBatch(r)
  <2>1. Published(r) /\ known' = known /\ pc[r] = "batch"
    BY <1>6 DEF CommitBatch, Publish, Discard, Published, caches
  <2>2. Visible(r, i)' = Visible(r, i)
    BY <1>1, <2>1, OwnCommit
  <2>3. written'[r][i] = NoRow
    BY <1>1, <2>1 DEF Published, TypeOK, Nothing
  <2> QED
    BY <1>1, <1>6, <2>1, <2>2, <2>3 DEF CacheIsStored
<1> QED
  BY <1>1, <1>2, <1>3, <1>4, <1>5, <1>6, InTheLoop

LEMMA CacheSaysTheLastKept ==
    ASSUME IInv, NEW r \in Runs, Load(r), NEW q \in Runs
    PROVE  CacheSaysTheLast(q)'
<1>1. TypeOK /\ CacheSaysTheLast(q) /\ PhaseOf(q)
  BY DEF IInv
<1>2. SUFFICES ASSUME pc'[q] \in {"loop", "batch"}, NEW n \in 1..seen'[q]
               PROVE  \E m \in 1..seen'[q] :
                            /\ feed'[q][m].id = feed'[q][n].id
                            /\ \A l \in (m + 1)..seen'[q] : feed'[q][l].id # feed'[q][n].id
                            /\ known'[q][feed'[q][n].id] = feed'[q][m].content
  BY DEF CacheSaysTheLast, LastAt
<1>3. CASE pc[q] \in {"loop", "batch"} /\ known'[q] = known[q] /\ feed'[q] = feed[q] /\ seen'[q] = seen[q]
  BY <1>1, <1>2, <1>3 DEF CacheSaysTheLast, LastAt
<1>4. CASE q # r
  BY <1>1, <1>2, <1>3, <1>4, LocalStep
<1>5. CASE q = r /\ LoadState(r)
  <2>1. seen'[q] = 0
    BY <1>1, <1>5 DEF LoadState, PhaseOf, counters
  <2> QED
    BY <1>2, <2>1
<1>6. CASE q = r /\ CommitBatch(r)
  BY <1>1, <1>2, <1>3, <1>6 DEF CommitBatch, caches, counters
<1>7. CASE q = r /\ (IngestNew(r) \/ IngestKnown(r))
  <2>1. /\ Item(r).id \in Ids
        /\ known' = [known EXCEPT ![r][Item(r).id] = Item(r).content]
        /\ pc[r] = "loop"
        /\ seen' = [seen EXCEPT ![r] = @ + 1] /\ feed' = feed
    BY <1>1, <1>7, StoreStep, ItemIsDoc
  <2> DEFINE k == seen[r] + 1
  <2>2. /\ seen[r] \in Nat /\ k \in Nat /\ seen'[r] = k /\ k \in 1..k /\ k > seen[r]
        /\ Item(r) = feed[r][k]
    BY <1>1, <2>1 DEF TypeOK, Item
  <2> HIDE DEF k
  <2>3. CASE feed[r][n].id = feed[r][k].id
    <3>1. known'[r][feed[r][n].id] = feed[r][k].content
      BY <1>1, <2>1, <2>2, <2>3 DEF TypeOK
    <3>2. \A l \in (k + 1)..k : feed[r][l].id # feed[r][n].id
      BY <2>2
    <3> QED
      BY <1>7, <2>1, <2>2, <2>3, <3>1, <3>2
  <2>4. CASE feed[r][n].id # feed[r][k].id
    <3>1. n \in 1..seen[r]
      BY <1>7, <2>2, <2>4 DEF k
    <3>2. PICK m \in 1..seen[r] :
                /\ feed[r][m].id = feed[r][n].id
                /\ \A l \in (m + 1)..seen[r] : feed[r][l].id # feed[r][n].id
                /\ known[r][feed[r][n].id] = feed[r][m].content
      BY <1>1, <1>7, <2>1, <3>1 DEF CacheSaysTheLast, LastAt
    <3>3. known'[r][feed[r][n].id] = known[r][feed[r][n].id]
      BY <1>1, <2>1, <2>2, <2>4 DEF TypeOK
    <3>4. m \in 1..k
      BY <2>2, <3>2 DEF k
    <3>5. \A l \in (m + 1)..k : feed[r][l].id # feed[r][n].id
      BY <2>2, <2>4, <3>2 DEF k
    <3> QED
      BY <1>7, <2>1, <2>2, <3>2, <3>3, <3>4, <3>5
  <2> QED
    BY <2>3, <2>4
<1> QED
  BY <1>1, <1>2, <1>4, <1>5, <1>6, <1>7, InTheLoop

-----------------------------------------------------------------------------
(* The counts.                                                             *)

LEMMA MineAfter ==
    ASSUME NEW r \in Runs
    PROVE  Mine(r)' = {i \in Ids : Visible(r, i)' # NoRow /\ Visible(r, i)'.first = r}
BY DEF Mine

LEMMA MineCommitted ==
    ASSUME TypeOK, NEW r \in Runs, Kept(r) \/ Published(r)
    PROVE  Mine(r)' = Mine(r)
BY OwnCommit, MineAfter DEF Mine

\* A rollback can only lose documents the load was the first to see.
LEMMA MineRolledBack ==
    ASSUME IInv, NEW r \in Runs, GivenUp(r)
    PROVE  Mine(r)' \subseteq Mine(r)
<1> SUFFICES ASSUME NEW i \in Ids, Visible(r, i)' # NoRow, Visible(r, i)'.first = r
             PROVE  Visible(r, i) # NoRow /\ Visible(r, i).first = r
  BY MineAfter DEF Mine
<1>1. rows[Key(r, i)] # NoRow /\ rows[Key(r, i)].first = r
  BY OwnRollback DEF IInv
<1>2. Descends(r)
  BY DEF IInv
<1> QED
  BY <1>1, <1>2 DEF Visible, Descends

LEMMA MineStored ==
    ASSUME IInv, NEW r \in Runs, IngestNew(r) \/ IngestKnown(r)
    PROVE  /\ IngestNew(r) => Item(r).id \notin Mine(r) /\ Mine(r)' = Mine(r) \union {Item(r).id}
           /\ IngestKnown(r) => Mine(r)' = Mine(r)
<1>1. TypeOK
  BY DEF IInv
<1>2. PICK j \in Ids : j = Item(r).id
  <2>1. More(r)
    BY StoreStep
  <2> QED
    BY <1>1, <2>1, ItemIsDoc
<1>3. PICK row \in Row : Wrote(r, j, row)
  BY <1>2, StoreStep
<1>4. /\ Visible(r, j)' = row /\ row # NoRow
      /\ \A i \in Ids \ {j} : Visible(r, i)' = Visible(r, i)
  BY <1>1, <1>2, <1>3, OwnWrite
<1>5. CASE IngestNew(r)
  <2>1. Visible(r, j) = NoRow
    BY <1>2, <1>5, StoreStep
  <2>2. row.first = r
    BY <1>3, <2>1 DEF Wrote
  <2>3. j \notin Mine(r)
    BY <2>1 DEF Mine
  <2>4. Mine(r)' = Mine(r) \union {j}
    <3>1. \A i \in Ids : i \in Mine(r)' <=> i = j \/ i \in Mine(r)
      BY <1>4, <2>1, <2>2, MineAfter DEF Mine
    <3>2. Mine(r) \subseteq Ids /\ Mine(r)' \subseteq Ids
      BY MineAfter DEF Mine
    <3> QED
      BY ONLY <1>2, <3>1, <3>2
  <2>5. ~IngestKnown(r)
    BY <1>2, <2>1, StoreStep
  <2> QED
    BY <1>2, <2>3, <2>4, <2>5
<1>6. CASE IngestKnown(r)
  <2>1. Visible(r, j) # NoRow
    BY <1>2, <1>6, StoreStep
  <2>2. row.first = Visible(r, j).first
    BY <1>3, <2>1 DEF Wrote
  <2>3. Mine(r)' = Mine(r)
    <3>1. \A i \in Ids : i \in Mine(r)' <=> i \in Mine(r)
      BY <1>4, <2>1, <2>2, MineAfter DEF Mine
    <3>2. Mine(r) \subseteq Ids /\ Mine(r)' \subseteq Ids
      BY MineAfter DEF Mine
    <3> QED
      BY ONLY <3>1, <3>2
  <2>4. ~IngestNew(r)
    BY <1>2, <2>1, StoreStep
  <2> QED
    BY <2>3, <2>4
<1> QED
  BY <1>2, <1>5, <1>6

Counting == {"idle", "accepted", "created", "loop", "batch", "clean", "dirty"}

\* new counts the documents this load was the first to see, whoever else adds
\* rows meanwhile: what others commit carries their name.
LEMMA CountKept ==
    ASSUME IInv, NEW r \in Runs, Load(r), NEW q \in Runs
    PROVE  CountOf(q)'
<1>1. TypeOK /\ CountOf(q) /\ CountOf(r)
  BY DEF IInv
<1>2. CASE q # r
  BY <1>1, <1>2, LocalStep, OthersKeep DEF CountOf
<1>3. CASE q = r
  <2> USE DEF TypeOK, Goto, Leave, database, counters, caches, transaction
  <2>1. new[r] \in Nat
    BY <1>1
  <2>2. CASE \/ Accept(r) \/ Create(r) \/ LoadState(r) \/ IngestFails(r) \/ SourceRaises(r)
             \/ CommitBatch(r) \/ BatchFails(r)
    <3>1. pc[r] \in Counting /\ pc'[r] \in Counting /\ new' = new /\ (Kept(r) \/ Published(r))
      BY <1>1, <2>2 DEF Accept, Create, LoadState, IngestFails, SourceRaises, CommitBatch, BatchFails,
         More, Kept, Published, Publish, Discard, Counting
    <3>2. Mine(r)' = Mine(r)
      BY <1>1, <3>1, MineCommitted
    <3> QED
      BY <1>1, <1>3, <3>1, <3>2 DEF CountOf, Counting
  <2>3. CASE IngestNew(r) \/ IngestKnown(r)
    <3>1. pc[r] \in Counting /\ pc'[r] \in Counting
      BY <1>1, <2>3 DEF IngestNew, IngestKnown, More, Passed, Counting
    <3>2. CASE IngestNew(r)
      <4>1. /\ Item(r).id \notin Mine(r) /\ Mine(r)' = Mine(r) \union {Item(r).id}
            /\ new'[r] = new[r] + 1
        BY <1>1, <3>2, MineStored, StoreStep
      <4>2. IsFiniteSet(Mine(r)) /\ Cardinality(Mine(r)) = new[r]
        BY <1>1, <3>1 DEF CountOf, Counting
      <4>3. /\ IsFiniteSet(Mine(r) \union {Item(r).id})
            /\ Cardinality(Mine(r) \union {Item(r).id}) = new[r] + 1
        BY ONLY <4>1, <4>2, FS_AddElement
      <4> QED
        BY <1>3, <3>1, <4>1, <4>3 DEF CountOf, Counting
    <3>3. CASE IngestKnown(r)
      <4>1. Mine(r)' = Mine(r) /\ new'[r] = new[r]
        BY <1>1, <3>3, MineStored, StoreStep
      <4> QED
        BY <1>1, <1>3, <3>1, <4>1 DEF CountOf, Counting
    <3> QED
      BY <2>3, <3>2, <3>3
  <2>4. CASE Salvage(r)
    <3>1. pc[r] = "clean" /\ pc'[r] = "finalize" /\ new' = new /\ Published(r)
      BY <1>1, <2>4 DEF Salvage, Published, Publish, Discard
    <3>2. Mine(r)' = Mine(r)
      BY <1>1, <3>1, MineCommitted
    <3> QED
      BY <1>1, <1>3, <2>1, <3>1, <3>2 DEF CountOf
  <2>5. CASE Rollback(r)
    <3>1. pc[r] \in Counting /\ pc'[r] = "finalize" /\ new' = new /\ GivenUp(r)
      BY <1>1, <2>5 DEF Rollback, GivenUp, Discard, Counting
    <3>2. Mine(r)' \subseteq Mine(r)
      BY <3>1, MineRolledBack
    <3>3. IsFiniteSet(Mine(r)) /\ Cardinality(Mine(r)) = new[r]
      BY <1>1, <3>1 DEF CountOf, Counting
    <3>4. IsFiniteSet(Mine(r)') /\ Cardinality(Mine(r)') <= new[r]
      BY <3>2, <3>3, FS_Subset
    <3> QED
      BY <1>3, <3>1, <3>4 DEF CountOf
  <2>6. CASE FinalizeFailed(r)
    <3>1. /\ pc[r] = "finalize" /\ pc'[r] = "failed" /\ log'[r].new = new[r] /\ Kept(r)
      BY <1>1, <2>6 DEF FinalizeFailed, Finalize, Kept
    <3>2. Mine(r)' = Mine(r)
      BY <1>1, <3>1, MineCommitted
    <3> QED
      BY <1>1, <1>3, <3>1, <3>2 DEF CountOf
  <2>7. CASE Complete(r)
    <3>1. /\ pc[r] = "loop" /\ pc'[r] = "completed" /\ log'[r].new = new[r] /\ Published(r)
      BY <1>1, <2>7 DEF Complete, Finalize, Published, Publish, Discard
    <3>2. Mine(r)' = Mine(r)
      BY <1>1, <3>1, MineCommitted
    <3> QED
      BY <1>1, <1>3, <3>1, <3>2 DEF CountOf
  <2>8. CASE CompleteFails(r) \/ Kill(r)
    <3>1. pc'[r] \in {"crashed", "dead"}
      BY <1>1, <2>8 DEF CompleteFails, Kill
    <3> QED
      BY <1>3, <3>1 DEF CountOf
  <2> QED
    BY <2>2, <2>3, <2>4, <2>5, <2>6, <2>7, <2>8 DEF Load
<1> QED
  BY <1>2, <1>3

-----------------------------------------------------------------------------
(* The last sighting.                                                      *)

\* Only create_run puts a load to work beside another, and both know of it.
LEMMA WorkingStep ==
    ASSUME TypeOK, NEW r \in Runs, Load(r), pc'[r] \in Working
    PROVE  \/ pc[r] \in Working
           \/ \A q \in SameSource(r) : pc[q] \in Working => ~alone'[q] /\ ~alone'[r]
<1> USE DEF TypeOK, Goto, Leave, Working
<1>1. CASE Create(r)
  <2> DEFINE beside == {q \in SameSource(r) : pc[q] \in Working}
  <2>1. alone' = [q \in Runs |-> IF q \in beside \/ (q = r /\ beside # {}) THEN FALSE ELSE alone[q]]
    BY <1>1 DEF Create
  <2> QED
    BY <2>1 DEF SameSource
<1>2. CASE Accept(r)
  BY <1>2 DEF Accept
<1>3. CASE LoadState(r) \/ SourceRaises(r) \/ BatchFails(r) \/ CommitBatch(r)
  BY <1>3 DEF LoadState, SourceRaises, BatchFails, CommitBatch
<1>4. CASE IngestNew(r) \/ IngestKnown(r) \/ IngestFails(r)
  BY <1>4 DEF IngestNew, IngestKnown, IngestFails, More
<1>5. CASE Salvage(r) \/ Rollback(r) \/ FinalizeFailed(r)
  BY <1>5 DEF Salvage, Rollback, FinalizeFailed
<1>6. CASE Complete(r) \/ CompleteFails(r) \/ Kill(r)
  BY <1>6 DEF Complete, CompleteFails, Kill
<1> QED
  BY <1>1, <1>2, <1>3, <1>4, <1>5, <1>6 DEF Load

LEMMA AloneOnlyEnds ==
    ASSUME TypeOK, NEW r \in Runs, Load(r)
    PROVE  alone'[r] => alone[r]
<1>1. CASE Create(r)
  BY <1>1 DEF Create, TypeOK
<1>2. CASE alone' = alone
  BY <1>2
<1> QED
  BY <1>1, <1>2 DEF Load, Accept, LoadState, IngestNew, IngestKnown, IngestFails, SourceRaises,
     CommitBatch, BatchFails, Salvage, Rollback, FinalizeFailed, Complete, CompleteFails, Kill

LEMMA AloneKept ==
    ASSUME IInv, NEW r \in Runs, Load(r), NEW q \in Runs
    PROVE  AloneIsTrue(q)'
<1> SUFFICES ASSUME alone'[q], pc'[q] \in Working
             PROVE  /\ \A p \in SameSource(q) : pc'[p] \notin Working
                    /\ pc'[q] \in {"loop", "batch"} =>
                        \A i \in Ids : known'[q][i] # NoRow => Visible(q, i)'.content = known'[q][i]
  BY DEF AloneIsTrue, SameSource
<1>1. TypeOK /\ AloneIsTrue(q) /\ PhaseOf(q)
  BY DEF IInv
<1>2. alone[q]
  BY <1>1, LocalStep, AloneOnlyEnds
<1>3. \A p \in SameSource(q) : pc'[p] \notin Working
  <2> SUFFICES ASSUME NEW p \in SameSource(q), pc'[p] \in Working PROVE FALSE
    OBVIOUS
  <2>1. p \in Runs /\ p # q /\ q \in SameSource(p)
    BY DEF SameSource
  <2>2. CASE q # r /\ p # r
    BY <1>1, <1>2, <2>1, <2>2, LocalStep DEF AloneIsTrue
  <2>3. CASE p = r
    <3>1. pc[q] \in Working /\ pc[r] \notin Working
      BY <1>1, <1>2, <2>1, <2>3, LocalStep DEF AloneIsTrue
    <3> QED
      BY <1>1, <2>1, <2>3, <3>1, WorkingStep
  <2>4. CASE q = r
    <3>1. pc[p] \in Working
      BY <1>1, <2>1, <2>4, LocalStep
    <3>2. pc[r] \notin Working
      BY <1>1, <1>2, <2>4, <3>1 DEF AloneIsTrue
    <3> QED
      BY <1>1, <2>4, <3>1, <3>2, WorkingStep
  <2> QED
    BY <2>2, <2>3, <2>4
<1>4. ASSUME pc'[q] \in {"loop", "batch"}, NEW i \in Ids, known'[q][i] # NoRow
      PROVE  Visible(q, i)'.content = known'[q][i]
  <2>1. CASE q # r
    <3>1. /\ pc[q] \in {"loop", "batch"} /\ known'[q] = known[q] /\ written'[q] = written[q]
      BY <1>1, <1>4, <2>1, LocalStep, WrittenStep
    <3>2. rows'[Key(q, i)] = rows[Key(q, i)]
      <4>1. pc[q] \in Working
        BY <3>1 DEF Working
      <4>2. SourceOf[q] = SourceOf[r] => pc[r] \notin Working
        BY <1>1, <1>2, <2>1, <4>1 DEF AloneIsTrue, SameSource
      <4> QED
        BY <4>2, RowsRemain
    <3>3. Visible(q, i)' = Visible(q, i)
      BY <3>1, <3>2, VisibleAfter DEF Visible
    <3> QED
      BY <1>1, <1>2, <1>4, <3>1, <3>3 DEF AloneIsTrue, Working
  <2>2. CASE q = r /\ LoadState(r)
    <3>1. /\ known'[r][i] = IF rows[Key(r, i)] = NoRow THEN NoRow ELSE rows[Key(r, i)].content
          /\ Kept(r) /\ written[r] = Nothing
      BY <1>1, <2>2 DEF LoadState, TypeOK, database, transaction, Kept, PhaseOf
    <3>2. Visible(r, i)' = rows[Key(r, i)]
      BY <3>1, VisibleAfter DEF Kept, Nothing
    <3> QED
      BY <1>4, <2>2, <3>1, <3>2
  <2>3. CASE q = r /\ (IngestNew(r) \/ IngestKnown(r))
    <3>1. /\ pc[r] = "loop" /\ More(r)
          /\ known' = [known EXCEPT ![r][Item(r).id] = Item(r).content]
      BY <2>3, StoreStep
    <3>2. PICK j \in Ids : j = Item(r).id
      BY <1>1, <3>1, ItemIsDoc
    <3>3. Item(r).content # NoRow
      BY <1>1, <3>1, ItemIsDoc, NoRowAssumption
    <3>4. PICK row \in Row :
                /\ Wrote(r, j, row)
                /\ \/ row.content = Item(r).content
                   \/ row.content = Visible(r, j).content /\ known[r][j] = Item(r).content
      BY <2>3, <3>2, StoreStep
    <3>5. \A k \in Ids : known[r][k] # NoRow => Visible(r, k).content = known[r][k]
      BY <1>1, <1>2, <2>3, <3>1 DEF AloneIsTrue, Working
    <3>6. CASE i = j
      <4>1. row.content = Item(r).content
        BY <3>3, <3>4, <3>5
      <4>2. known'[r][j] = Item(r).content
        BY <1>1, <3>1, <3>2 DEF TypeOK
      <4>3. Visible(r, j)' = row
        BY <1>1, <3>4, OwnWrite
      <4> QED
        BY <2>3, <3>6, <4>1, <4>2, <4>3
    <3>7. CASE i # j
      <4>1. known'[r][i] = known[r][i]
        BY <1>1, <3>1, <3>2, <3>7 DEF TypeOK
      <4>2. Visible(r, i)' = Visible(r, i)
        BY <1>1, <3>4, <3>7, OwnWrite
      <4> QED
        BY <1>4, <2>3, <3>5, <4>1, <4>2
    <3> QED
      BY <3>6, <3>7
  <2>4. CASE q = r /\ CommitBatch(r)
    <3>1. Published(r) /\ known' = known /\ pc[r] = "batch"
      BY <2>4 DEF CommitBatch, Publish, Discard, Published, caches
    <3>2. Visible(r, i)' = Visible(r, i)
      BY <1>1, <3>1, OwnCommit
    <3> QED
      BY <1>1, <1>2, <1>4, <2>4, <3>1, <3>2 DEF AloneIsTrue, Working
  <2> QED
    BY <1>1, <1>4, <2>1, <2>2, <2>3, <2>4, InTheLoop
<1> QED
  BY <1>3, <1>4

LEMMA FeedIds ==
    ASSUME TypeOK, NEW q \in Runs, NEW n \in 1..Len(feed[q])
    PROVE  feed[q][n].id \in Ids /\ feed[q][n].content \in Contents
<1>1. feed[q] \in Seq(Doc)
  BY FeedsAreSequences DEF TypeOK
<1>2. feed[q][n] \in Doc
  BY <1>1
<1> QED
  BY <1>2 DEF Doc

LEMMA CompletedBy ==
    ASSUME TypeOK, NEW r \in Runs, Load(r), pc'[r] = "completed"
    PROVE  Complete(r)
<1> USE DEF TypeOK, Goto, Leave
<1>1. ~Accept(r) /\ ~Create(r) /\ ~LoadState(r)
  BY DEF Accept, Create, LoadState
<1>2. ~IngestNew(r) /\ ~IngestKnown(r) /\ ~IngestFails(r) /\ ~SourceRaises(r)
  BY DEF IngestNew, IngestKnown, IngestFails, SourceRaises, Passed
<1>3. ~CommitBatch(r) /\ ~BatchFails(r) /\ ~Salvage(r) /\ ~Rollback(r)
  BY DEF CommitBatch, BatchFails, Salvage, Rollback
<1>4. ~FinalizeFailed(r) /\ ~CompleteFails(r) /\ ~Kill(r)
  BY DEF FinalizeFailed, CompleteFails, Kill
<1> QED
  BY <1>1, <1>2, <1>3, <1>4 DEF Load

\* A completed load's documents stay, and another load that writes one of them
\* becomes its last writer.
LEMMA CompletedKept ==
    ASSUME IInv, NEW r \in Runs, Load(r), NEW q \in Runs
    PROVE  CompletedOf(q)'
<1>1. TypeOK /\ CompletedOf(q) /\ CacheIsStored(q) /\ CacheSaysTheLast(q) /\ AloneIsTrue(q)
  BY DEF IInv
<1> SUFFICES ASSUME pc'[q] = "completed", NEW n \in 1..Len(feed'[q])
             PROVE  /\ rows'[Key(q, feed'[q][n].id)] # NoRow
                    /\ alone'[q] /\ rows'[Key(q, feed'[q][n].id)].last = q =>
                        \E m \in 1..Len(feed'[q]) :
                            /\ feed'[q][m].id = feed'[q][n].id
                            /\ \A l \in (m + 1)..Len(feed'[q]) : feed'[q][l].id # feed'[q][n].id
                            /\ rows'[Key(q, feed'[q][n].id)].content = feed'[q][m].content
  BY DEF CompletedOf, LastAt, Key
<1>2. CASE q # r
  <2>1. pc[q] = "completed" /\ feed'[q] = feed[q] /\ (alone'[q] => alone[q])
    BY <1>1, <1>2, LocalStep
  <2>2. PICK i \in Ids : i = feed[q][n].id
    BY <1>1, <2>1, FeedIds
  <2>3. /\ rows[Key(q, i)] # NoRow
        /\ alone[q] /\ rows[Key(q, i)].last = q =>
            \E m \in 1..Len(feed[q]) :
                /\ feed[q][m].id = i
                /\ \A l \in (m + 1)..Len(feed[q]) : feed[q][l].id # i
                /\ rows[Key(q, i)].content = feed[q][m].content
    <3>1. n \in 1..Len(feed[q])
      BY <2>1
    <3>2. /\ rows[Key(q, feed[q][n].id)] # NoRow
          /\ alone[q] /\ rows[Key(q, feed[q][n].id)].last = q =>
                \E m \in 1..Len(feed[q]) :
                    LastAt(q, n, m, Len(feed[q])) /\ rows[Key(q, feed[q][n].id)].content = feed[q][m].content
      BY <1>1, <2>1, <3>1 DEF CompletedOf
    <3> QED
      BY <2>2, <3>2 DEF LastAt
  <2>4. /\ rows'[Key(q, i)] # NoRow
        /\ rows'[Key(q, i)] # rows[Key(q, i)] => rows'[Key(q, i)].last # q
    BY <1>2, <2>3, RowsRemain
  <2> QED
    BY <2>1, <2>2, <2>3, <2>4
<1>3. CASE q = r
  <2>1. Complete(r)
    BY <1>1, <1>3, CompletedBy
  <2>2. /\ pc[r] = "loop" /\ seen[r] = Len(feed[r]) /\ feed' = feed /\ alone' = alone /\ Published(r)
    BY <2>1 DEF Complete, Publish, Discard, Published
  <2>3. PICK i \in Ids : i = feed[r][n].id
    BY <1>1, <1>3, <2>2, FeedIds
  <2>4. PICK m \in 1..Len(feed[r]) :
            /\ feed[r][m].id = i
            /\ \A l \in (m + 1)..Len(feed[r]) : feed[r][l].id # i
            /\ known[r][i] = feed[r][m].content
    BY <1>1, <1>3, <2>2, <2>3 DEF CacheSaysTheLast, LastAt
  <2>5. known[r][i] # NoRow
    BY <1>1, <2>4, FeedIds, NoRowAssumption
  <2>6. Visible(r, i) # NoRow /\ (alone[r] => Visible(r, i).content = known[r][i])
    BY <1>1, <1>3, <2>2, <2>5 DEF CacheIsStored, AloneIsTrue, Working
  <2>7. rows'[Key(r, i)] = Visible(r, i)
    <3>1. Visible(r, i)' = Visible(r, i)
      BY <1>1, <2>2, OwnCommit
    <3>2. written'[r][i] = NoRow
      BY <1>1, <2>2 DEF Published, TypeOK, Nothing
    <3> QED
      BY <3>1, <3>2, VisibleAfter
  <2> QED
    BY <1>3, <2>2, <2>3, <2>4, <2>6, <2>7
<1> QED
  BY <1>2, <1>3

-----------------------------------------------------------------------------
(* The invariant and what it says.                                         *)

\* Nothing is stored and no load has begun.
LEMMA InitEstablishes == Init => IInv
<1> SUFFICES ASSUME Init PROVE IInv
  OBVIOUS
<1>1. TypeOK
  <2>1. \A r \in Runs : feed[r] = <<>> /\ Len(feed[r]) = 0 /\ seen[r] = 0 /\ new[r] = 0
    BY DEF Init
  <2> QED
    BY <2>1 DEF Init, TypeOK, Nothing, Locations
<1>2. OneWriter
  BY DEF Init, OneWriter, Nothing
<1>3. ASSUME NEW r \in Runs
      PROVE  PhaseOf(r) /\ Descends(r) /\ CacheIsStored(r) /\ CacheSaysTheLast(r)
             /\ AloneIsTrue(r) /\ CompletedOf(r)
  BY DEF Init, PhaseOf, Descends, CacheIsStored, CacheSaysTheLast, AloneIsTrue, CompletedOf,
     Working, Nothing
<1>4. ASSUME NEW r \in Runs
      PROVE  CountOf(r)
  <2>1. \A i \in Ids : Visible(r, i) = NoRow
    BY RowsAre, <1>1 DEF Init, Visible, Nothing
  <2>2. Mine(r) = {}
    BY <2>1 DEF Mine
  <2> QED
    BY <2>2, FS_EmptySet DEF Init, CountOf
<1> QED
  BY <1>1, <1>2, <1>3, <1>4 DEF IInv

LEMMA StutterPreserves == ASSUME IInv, UNCHANGED vars PROVE IInv'
<1>1. UNCHANGED <<rows, entities, log, pc, feed, seen, new, known, minted, written, inserted, pending, alone>>
  BY DEF vars, database, counters, caches, transaction
<1>2. TypeOK' /\ OneWriter'
  BY <1>1 DEF IInv, TypeOK, OneWriter
<1>3. ASSUME NEW r \in Runs
      PROVE  PhaseOf(r)' /\ Descends(r)' /\ CacheIsStored(r)' /\ CacheSaysTheLast(r)'
  BY <1>1 DEF IInv, PhaseOf, Descends, CacheIsStored, CacheSaysTheLast, LastAt, Visible, Key
<1>4. ASSUME NEW r \in Runs
      PROVE  CountOf(r)' /\ AloneIsTrue(r)' /\ CompletedOf(r)'
  <2>1. Mine(r)' = Mine(r)
    BY <1>1 DEF Mine, Visible, Key
  <2>2. CountOf(r)'
    BY <1>1, <2>1 DEF IInv, CountOf
  <2>3. AloneIsTrue(r)'
    BY <1>1 DEF IInv, AloneIsTrue, SameSource, Visible, Key
  <2>4. CompletedOf(r)'
    <3>1. CompletedOf(r)
      BY DEF IInv
    <3>2. pc'[r] = pc[r] /\ feed'[r] = feed[r] /\ alone'[r] = alone[r] /\ rows' = rows
      BY <1>1
    <3> QED
      BY <3>1, <3>2 DEF CompletedOf, LastAt, Key
  <2> QED
    BY <2>2, <2>3, <2>4
<1> QED
  BY <1>2, <1>3, <1>4 DEF IInv

LEMMA StepPreserves == IInv /\ [Next]_vars => IInv'
<1> SUFFICES ASSUME IInv, [Next]_vars PROVE IInv'
  OBVIOUS
<1>1. ASSUME NEW r \in Runs, Load(r) PROVE IInv'
  <2>1. TypeOK' /\ OneWriter'
    BY <1>1, TypeKept, OneWriterKept
  <2>2. \A q \in Runs : PhaseOf(q)' /\ Descends(q)'
    BY <1>1, PhaseKept, DescendsKept
  <2>3. \A q \in Runs : CacheIsStored(q)' /\ CacheSaysTheLast(q)'
    BY <1>1, CacheIsStoredKept, CacheSaysTheLastKept
  <2>4. \A q \in Runs : CountOf(q)' /\ AloneIsTrue(q)' /\ CompletedOf(q)'
    BY <1>1, CountKept, AloneKept, CompletedKept
  <2> QED
    BY <2>1, <2>2, <2>3, <2>4 DEF IInv
<1>2. CASE UNCHANGED vars
  BY <1>2, StutterPreserves
<1> QED
  BY <1>1, <1>2 DEF Next

\* The inductive invariant of the loads.
THEOREM Invariant == Spec => []IInv
<1> QED
  BY InitEstablishes, StepPreserves, PTL DEF Spec

\* A run that says completed has every document of its snapshot stored, for
\* any number of loads, sources and documents.
THEOREM StoredWhenCompleted == Spec => []CompletedIsStored
<1>1. IInv => CompletedIsStored
  <2> SUFFICES ASSUME IInv, NEW r \in Runs, log[r].status = "completed", NEW i \in FedIds(r)
               PROVE  Stored(r, i)
    BY DEF CompletedIsStored
  <2>1. PICK n \in 1..Len(feed[r]) : i = feed[r][n].id
    BY DEF FedIds
  <2>2. pc[r] = "completed" /\ CompletedOf(r)
    BY DEF IInv, PhaseOf
  <2> QED
    BY <2>1, <2>2 DEF CompletedOf, Stored
<1> QED
  BY <1>1, Invariant, PTL

\* records_new is the number of documents a completed run added, and never
\* fewer than a failed one added.
THEOREM HonestCounts == Spec => []CountsAreHonest
<1>1. IInv => CountsAreHonest
  <2> SUFFICES ASSUME IInv, NEW r \in Runs, log[r].status \in {"completed", "failed"}
               PROVE  /\ log[r].status = "completed" => log[r].new = Cardinality(FirstSeen(r))
                      /\ log[r].status = "failed" => log[r].new >= Cardinality(FirstSeen(r))
    BY DEF CountsAreHonest
  <2>1. TypeOK /\ PhaseOf(r) /\ CountOf(r)
    BY DEF IInv
  <2>2. pc[r] \in {"completed", "failed"} /\ written[r] = Nothing
    BY <2>1 DEF PhaseOf
  <2>3. \A i \in Ids : Visible(r, i) = rows[Key(r, i)]
    BY <2>2 DEF Visible, Nothing
  <2>4. FirstSeen(r) = Mine(r)
    BY <2>3 DEF FirstSeen, Mine, Stored
  <2>5. log[r].new \in Nat
    BY <2>1 DEF TypeOK
  <2>6. IsFiniteSet(Mine(r)) /\ Cardinality(Mine(r)) \in Nat
    BY <2>1, <2>2, FS_CardinalityType DEF CountOf
  <2> QED
    BY <2>1, <2>2, <2>4, <2>5, <2>6 DEF CountOf, PhaseOf
<1> QED
  BY <1>1, Invariant, PTL

\* What is stored says what the load that saw it last said last, if that load
\* had its source to itself.
THEOREM LastSighting == Spec => []LastSightingWins
<1>1. IInv => LastSightingWins
  <2> SUFFICES ASSUME IInv, NEW r \in Runs, alone[r], log[r].status = "completed",
                      NEW i \in FedIds(r), rows[Key(r, i)].last = r
               PROVE  rows[Key(r, i)].content =
                        feed[r][CHOOSE m \in 1..Len(feed[r]) :
                            /\ feed[r][m].id = i
                            /\ \A l \in (m + 1)..Len(feed[r]) : feed[r][l].id # i].content
    BY DEF LastSightingWins, SaysTheLast
  <2>1. PICK n \in 1..Len(feed[r]) : i = feed[r][n].id
    BY DEF FedIds
  <2>2. TypeOK /\ PhaseOf(r) /\ CompletedOf(r)
    BY DEF IInv
  <2>3. pc[r] = "completed" /\ Len(feed[r]) \in Nat
    BY <2>2, FeedsAreSequences DEF PhaseOf, TypeOK
  <2> DEFINE Last(m) == /\ feed[r][m].id = i
                        /\ \A l \in (m + 1)..Len(feed[r]) : feed[r][l].id # i
  <2>4. PICK m \in 1..Len(feed[r]) : Last(m) /\ rows[Key(r, i)].content = feed[r][m].content
    <3>1. rows[Key(r, feed[r][n].id)].last = r
      BY <2>1
    <3>2. PICK m \in 1..Len(feed[r]) :
            LastAt(r, n, m, Len(feed[r])) /\ rows[Key(r, feed[r][n].id)].content = feed[r][m].content
      BY <2>1, <2>2, <2>3, <3>1 DEF CompletedOf
    <3> QED
      BY <2>1, <3>2 DEF LastAt
  <2>5. \A k \in 1..Len(feed[r]) : Last(k) => k = m
    <3> SUFFICES ASSUME NEW k \in 1..Len(feed[r]), Last(k), k # m PROVE FALSE
      OBVIOUS
    <3>1. k \in (m + 1)..Len(feed[r]) \/ m \in (k + 1)..Len(feed[r])
      BY <2>3
    <3> QED
      BY <2>4, <3>1
  <2> HIDE DEF Last
  <2>6. (CHOOSE k \in 1..Len(feed[r]) : Last(k)) = m
    BY <2>4, <2>5
  <2>7. rows[Key(r, i)].content = feed[r][CHOOSE k \in 1..Len(feed[r]) : Last(k)].content
    BY <2>4, <2>6
  <2> QED
    BY <2>7 DEF Last
<1> QED
  BY <1>1, Invariant, PTL
=============================================================================
