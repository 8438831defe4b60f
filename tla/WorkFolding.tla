---------------------------- MODULE WorkFolding -----------------------------
(***************************************************************************)
(* merge_works (works/merge.py) as a function of the rows it reads: which  *)
(* works of a composer's duplicate entities, and which works without a     *)
(* composer, fold into which.  A row is <<work, composer, features>>.      *)
(***************************************************************************)
EXTENDS WorkMatching

CONSTANT
    ComposerScoped  \* schemes whose numbers are one composer's

ASSUME ComposerScopedAssumption == ComposerScoped \subseteq Schemes \ ExternalSchemes

NoMerges == [w \in {} |-> 0]
OfComposer(rows, c) == {w \in DOMAIN rows : rows[w].composer = c}
ComposersOf(rows) == {rows[w].composer : w \in DOMAIN rows} \ {Nobody}

\* By title, then by id.
InOrder(rows, w, v) ==
    LET title(x) == rows[x].features.title
    IN  title(w) < title(v) \/ (title(w) = title(v) /\ w < v)

\* The canonical entity first, then by how many works, then by id.
ComposerOrder(rows, canonical, c, d) ==
    LET size(x) == Cardinality(OfComposer(rows, x))
    IN  \/ c = canonical /\ d # canonical
        \/ /\ (c = canonical) = (d = canonical)
           /\ size(c) > size(d) \/ (size(c) = size(d) /\ c < d)

-----------------------------------------------------------------------------
(* A state of the fold is a pool to match against, the works that wait to  *)
(* be matched, and the merges so far.                                      *)

Drop(rows, w) == Restrict(rows, DOMAIN rows \ {w})

\* One work folds into what it matches, or joins the pool.
FoldInto(state, w, best) ==
    IF Classify(best.score) = "auto_matched"
    THEN [merges |-> Put(state.merges, w, best.work),
          pool |-> RefreshCandidate(state.pool, best.work, state.waiting[w].features.ids),
          waiting |-> Drop(state.waiting, w)]
    ELSE [merges |-> state.merges,
          pool |-> Enlist(state.pool, w, state.waiting[w].composer, state.waiting[w].features),
          waiting |-> Drop(state.waiting, w)]

FoldOne(state, w) == FoldInto(state, w, BestMatch(state.waiting[w].features, state.pool))

\* The entities of a composer in the order they had at first, each by title.
Turn(rows, canonical, w, v) ==
    \/ ComposerOrder(rows, canonical, rows[w].composer, rows[v].composer)
    \/ rows[w].composer = rows[v].composer /\ InOrder(rows, w, v)

FoldNext(rows, canonical, state) ==
    LET next == {w \in DOMAIN state.waiting :
                    \A v \in DOMAIN state.waiting \ {w} : Turn(rows, canonical, w, v)}
    IN  IF next = {} THEN state ELSE FoldOne(state, CHOOSE w \in next : TRUE)

\* One pass over the entities of a composer: the works of the base are there,
\* the others are matched one after the other.
FoldRound(rows, canonical, state) ==
    LET base == {w \in DOMAIN state.pool :
            \A c \in ComposersOf(rows) \ {rows[w].composer} : ComposerOrder(rows, canonical, rows[w].composer, c)}
        others == DOMAIN state.pool \ base
        after[n \in 0 .. Cardinality(others)] ==
            IF n = 0 THEN [merges |-> state.merges, pool |-> Restrict(state.pool, base),
                           waiting |-> Restrict(state.pool, others)]
            ELSE FoldNext(rows, canonical, after[n - 1])
    IN  after[Cardinality(others)]

\* Rounds until nothing folds: a round folds a work or leaves the next nothing to do,
\* so as many rounds as works are enough.
FoldGroup(rows, canonical) ==
    LET round[n \in 0 .. Cardinality(DOMAIN rows)] ==
            IF n = 0 THEN [merges |-> NoMerges, pool |-> rows, waiting |-> NoMerges]
            ELSE FoldRound(rows, canonical, round[n - 1])
    IN  round[Cardinality(DOMAIN rows)]

-----------------------------------------------------------------------------
(* Works without a composer.                                               *)

\* The composer with more than half of the numbers any composer has in a scheme.
Owns(pools, scheme, c) ==
    LET held(d) == UNION {ValuesIn(pools[d][w].features.ids, scheme) : w \in DOMAIN pools[d]}
    IN  /\ scheme \in ComposerScoped
        /\ 2 * Cardinality(held(c)) > Cardinality(UNION {held(d) : d \in DOMAIN pools})

\* Who owns and holds what is worked out once, before the first composerless work folds.
Owners(f, pools) ==
    {c \in DOMAIN pools : \E id \in f.ids :
        Owns(pools, id[1], c) /\ \E w \in DOMAIN pools[c] : id \in pools[c][w].features.ids}

\* A composerless work that matches nothing of its owner's stays as it is.
FoldOrphan(state, w, c, best) ==
    IF Classify(best.score) # "auto_matched" THEN [state EXCEPT !.waiting = Drop(@, w)]
    ELSE [merges |-> Put(state.merges, w, best.work),
          pools |-> [state.pools EXCEPT ![c] = RefreshCandidate(@, best.work, state.waiting[w].features.ids)],
          waiting |-> Drop(state.waiting, w)]

FoldNextOrphan(orphans, pools, state) ==
    LET next == {w \in DOMAIN state.waiting : \A v \in DOMAIN state.waiting \ {w} : InOrder(orphans, w, v)}
        w == CHOOSE x \in next : TRUE
        owners == Owners(orphans[w].features, pools)
        c == CHOOSE x \in owners : TRUE
    IN  CASE next = {} -> state
          [] next # {} /\ Cardinality(owners) # 1 -> [state EXCEPT !.waiting = Drop(@, w)]
          [] next # {} /\ Cardinality(owners) = 1 ->
                FoldOrphan(state, w, c, BestMatch(orphans[w].features, state.pools[c]))

\* Composerless works, each into the one composer that owns its scheme and holds its number.
FoldComposerless(orphans, pools, merges) ==
    LET after[n \in 0 .. Cardinality(DOMAIN orphans)] ==
            IF n = 0 THEN [merges |-> merges, pools |-> pools, waiting |-> orphans]
            ELSE FoldNextOrphan(orphans, pools, after[n - 1])
    IN  after[Cardinality(DOMAIN orphans)].merges

-----------------------------------------------------------------------------

\* Each work was folded within the group of its own composer only.
Within(folded) ==
    [w \in UNION {DOMAIN folded[k].merges : k \in DOMAIN folded} |->
        folded[CHOOSE k \in DOMAIN folded : w \in DOMAIN folded[k].merges].merges[w]]

AndComposerless(orphans, pools, within) ==
    [within |-> within, all |-> FoldComposerless(orphans, pools, within)]

\* The works of a composer's duplicate entities, matched as one catalogue.
Group(rows, canonicalOf, k) ==
    Restrict(rows, {w \in DOMAIN rows : rows[w].composer # Nobody /\ canonicalOf[rows[w].composer] = k})

\* merge_works' merges: [within |-> the works of duplicate entities, all |-> and the composerless].
Merges(rows, canonicalOf) ==
    LET finish(folded) ==
            AndComposerless(Restrict(rows, OfComposer(rows, Nobody)),
                            [k \in DOMAIN folded |-> folded[k].pool], Within(folded))
    IN  finish([k \in {canonicalOf[c] : c \in ComposersOf(rows)} |-> FoldGroup(Group(rows, canonicalOf, k), k)])

\* One merge further, for what has not ended in a work that stays.
Onward(merges, at) == [w \in DOMAIN merges |-> IF at[w] \in DOMAIN merges THEN merges[at[w]] ELSE at[w]]

\* The work each folded work ends in.
Resolve(merges) ==
    LET final[n \in 0 .. Cardinality(DOMAIN merges)] ==
            IF n = 0 THEN merges ELSE Onward(merges, final[n - 1])
    IN  final[Cardinality(DOMAIN merges)]

=============================================================================
