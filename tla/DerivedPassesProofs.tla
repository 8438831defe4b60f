------------------------ MODULE DerivedPassesProofs ------------------------
(***************************************************************************)
(* Proofs about DerivedPasses, for any entities, works, mentions and any   *)
(* number of refreshes.  What a pass computes is used only as a function   *)
(* of silver; that one pass does not undo another is read off what each    *)
(* writes, and that folding must come before the links off Done.  That     *)
(* releases stay apart is about what one pass computes: each step of its   *)
(* clustering keeps the keys in clusters of at most one catalogue number.  *)
(***************************************************************************)
EXTENDS DerivedPasses, FiniteSetTheorems, WellFoundedInduction, TLAPS

-----------------------------------------------------------------------------
(* What a name means.                                                      *)

LEMMA AtMostOne ==
    ASSUME NEW T, IsFiniteSet(T), Cardinality(T) <= 1, NEW t \in T, NEW u \in T
    PROVE  t = u
<1>1. SUFFICES ASSUME t # u PROVE FALSE
  OBVIOUS
<1>2. IsFiniteSet(T \ {t}) /\ Cardinality(T \ {t}) = Cardinality(T) - 1
  BY FS_RemoveElement
<1>3. Cardinality(T \ {t}) \in Nat /\ Cardinality(T) \in Nat
  BY <1>2, FS_CardinalityType
<1>4. Cardinality(T \ {t}) = 0
  BY <1>2, <1>3
<1>5. T \ {t} = {}
  BY <1>2, <1>4, FS_EmptySet
<1> QED
  BY <1>1, <1>5

LEMMA OnlyIsOne ==
    ASSUME NEW T, IsFiniteSet(T)
    PROVE  \A t \in Only(T) : T = {t}
<1>1. CASE Cardinality(T) = 1
  BY <1>1, AtMostOne DEF Only
<1>2. CASE Cardinality(T) # 1
  BY <1>2 DEF Only
<1> QED
  BY <1>1, <1>2

LEMMA Parts ==
    ASSUME NEW S \in SUBSET Entities, NEW T \in SUBSET S
    PROVE  IsFiniteSet(S) /\ IsFiniteSet(T)
BY EntitiesAssumption, FS_Subset

LEMMA PlacesAreSound ==
    ASSUME NEW S \in SUBSET Entities
    PROVE  Sound(LinkPlaces(S), {"place"}, S)
<1> DEFINE labelled(e) == Named(Pinned(S, "place"), Entity[e].name)
<1>1. ASSUME NEW e \in Entities, NEW t \in Only(labelled(e))
      PROVE  labelled(e) = {t}
  <2>1. labelled(e) \subseteq S
    BY DEF Named, Pinned, OfKind
  <2> QED
    BY <1>1, <2>1, Parts, OnlyIsOne
<1>2. ASSUME NEW l \in LinkPlaces(S)
      PROVE  l = <<l[1], l[2]>> /\ l[1] \in Bare(S, "place") /\ labelled(l[1]) = {l[2]}
  <2>1. l = <<l[1], l[2]>> /\ l[1] \in Bare(S, "place") /\ l[2] \in Only(labelled(l[1]))
    BY DEF LinkPlaces
  <2>2. l[1] \in Entities
    BY <2>1 DEF Bare, OfKind
  <2> QED
    BY <1>1, <2>1, <2>2
<1>3. ASSUME NEW l \in LinkPlaces(S)
      PROVE  Entity[l[1]].kind = "place" /\ Means(S, l)
  BY <1>2 DEF Means, Bare, Pinned, OfKind, Named
<1>4. ASSUME NEW l \in LinkPlaces(S), NEW k \in LinkPlaces(S), k[1] = l[1] PROVE k = l
  BY <1>2, <1>4
<1> QED
  BY <1>2, <1>3, <1>4 DEF Sound

LEMMA GenreMeantIsOne ==
    ASSUME NEW S \in SUBSET Entities, NEW kind \in {"genre", "movement"}, NEW name,
           NEW t \in GenreMeant(S, kind, name)
    PROVE  /\ t \in Pinned(S, kind)
           /\ GenreMeant(S, kind, name) = {t}
           /\ \/ Named(Pinned(S, kind), name) = {t}
              \/ Named(Pinned(S, kind), name) = {} /\ Known(OfKind(S, kind), name) = {t}
<1> DEFINE labelled == Named(Pinned(S, kind), name)
           known == Known(OfKind(S, kind), name)
<1>1. labelled \subseteq Pinned(S, kind) /\ Pinned(S, kind) \subseteq S
  BY DEF Named, Pinned, OfKind
<1>2. known \subseteq Pinned(S, kind)
  BY AliasesAssumption DEF Known, Pinned, OfKind
<1>3. IsFiniteSet(labelled) /\ IsFiniteSet(known)
  BY <1>1, <1>2, Parts
<1>4. GenreMeant(S, kind, name) = Only(IF labelled # {} THEN labelled ELSE known)
  BY DEF GenreMeant
<1>5. \A T : Only(T) \subseteq T
  BY DEF Only
<1>6. CASE labelled # {}
  <2>1. t \in Only(labelled) /\ GenreMeant(S, kind, name) = Only(labelled)
    BY <1>4, <1>6
  <2> HIDE DEF labelled, known
  <2>2. labelled = {t} /\ Only(labelled) \subseteq labelled
    BY <1>3, <1>5, <2>1, OnlyIsOne
  <2> QED
    BY <1>1, <2>1, <2>2 DEF labelled
<1>7. CASE labelled = {}
  <2>1. t \in Only(known) /\ GenreMeant(S, kind, name) = Only(known)
    BY <1>4, <1>7
  <2> HIDE DEF labelled, known
  <2>2. known = {t} /\ Only(known) \subseteq known
    BY <1>3, <1>5, <2>1, OnlyIsOne
  <2> QED
    BY <1>2, <1>7, <2>1, <2>2 DEF labelled, known
<1> QED
  BY <1>6, <1>7

LEMMA GenresAreSound ==
    ASSUME NEW S \in SUBSET Entities
    PROVE  Sound(LinkGenres(S), {"genre", "movement"}, S)
<1>1. ASSUME NEW l \in LinkGenres(S)
      PROVE  \E kind \in {"genre", "movement"} :
                /\ l = <<l[1], l[2]>>
                /\ l[1] \in Bare(S, kind) /\ l[2] \in GenreMeant(S, kind, Entity[l[1]].name)
  BY DEF LinkGenres
<1>2. ASSUME NEW l \in LinkGenres(S)
      PROVE  /\ l = <<l[1], l[2]>>
             /\ Entity[l[1]].kind \in {"genre", "movement"}
             /\ l[1] \in Bare(S, Entity[l[1]].kind)
             /\ l[2] \in GenreMeant(S, Entity[l[1]].kind, Entity[l[1]].name)
  BY <1>1 DEF Bare, OfKind
<1>3. ASSUME NEW l \in LinkGenres(S) PROVE Means(S, l)
  <2> DEFINE kind == Entity[l[1]].kind
             name == Entity[l[1]].name
  <2>1. kind \in {"genre", "movement"} /\ l[1] \in Bare(S, kind) /\ l[2] \in GenreMeant(S, kind, name)
    BY <1>2
  <2> HIDE DEF kind, name
  <2>2. /\ l[2] \in Pinned(S, kind)
        /\ \/ Named(Pinned(S, kind), name) = {l[2]}
           \/ Named(Pinned(S, kind), name) = {} /\ Known(OfKind(S, kind), name) = {l[2]}
    BY <2>1, GenreMeantIsOne
  <2>3. /\ l[2] \in S /\ Entity[l[2]].item # NoItem /\ Entity[l[2]].kind = kind
        /\ l[1] \in S /\ Entity[l[1]].item = NoItem /\ kind # "ensemble"
    BY <2>1, <2>2 DEF Bare, Pinned, OfKind
  <2>4. ASSUME NEW other \in Pinned(S, kind) \ {l[2]},
               name \in {Entity[other].name} \union Entity[other].aliases
        PROVE  Entity[other].name # name /\ Entity[l[2]].name = name
    <3>1. CASE Named(Pinned(S, kind), name) = {l[2]}
      BY <3>1 DEF Named
    <3>2. CASE Named(Pinned(S, kind), name) = {} /\ Known(OfKind(S, kind), name) = {l[2]}
      BY <2>4, <3>2 DEF Named, Known, Pinned
    <3> QED
      BY <2>2, <3>1, <3>2
  <2> QED
    BY <2>3, <2>4 DEF Means, kind, name
<1>4. ASSUME NEW l \in LinkGenres(S), NEW k \in LinkGenres(S), k[1] = l[1]
      PROVE  k = l
  <2> DEFINE kind == Entity[l[1]].kind
             name == Entity[l[1]].name
  <2>1. kind \in {"genre", "movement"} /\ l[2] \in GenreMeant(S, kind, name) /\ k[2] \in GenreMeant(S, kind, name)
    BY <1>2, <1>4
  <2> HIDE DEF kind, name
  <2>2. GenreMeant(S, kind, name) = {l[2]}
    BY <2>1, GenreMeantIsOne
  <2> QED
    BY <1>2, <1>4, <2>1, <2>2
<1> QED
  BY <1>2, <1>3, <1>4 DEF Sound

LEMMA EnsemblesAreSound ==
    ASSUME NEW S \in SUBSET Entities
    PROVE  Sound(AnchorEnsembles(S), {"ensemble"}, S)
<1>1. ASSUME NEW e \in Entities, NEW t \in AnchorMeant(S, e)
      PROVE  /\ AnchorMeant(S, e) = {t} /\ t \in Pinned(S, "ensemble")
             /\ \A other \in Anchors(S, Entity[e].name) \ {t} : Entity[other].cities \intersect Entity[e].spells = {}
  <2> DEFINE candidates == Anchors(S, Entity[e].name)
             near == {c \in candidates : Entity[c].cities \intersect Entity[e].spells # {}}
  <2>1. candidates \subseteq Pinned(S, "ensemble") /\ near \subseteq candidates
    BY DEF Anchors, Named, Known
  <2>2. IsFiniteSet(candidates) /\ IsFiniteSet(near)
    BY <2>1, Parts DEF Pinned, OfKind
  <2>3. Cardinality(candidates) \in Nat
    BY <2>2, FS_CardinalityType
  <2>4. AnchorMeant(S, e) = IF Cardinality(candidates) > 1 THEN Only(near) ELSE candidates
    BY DEF AnchorMeant
  <2>5. \A other \in candidates \ near : Entity[other].cities \intersect Entity[e].spells = {}
    OBVIOUS
  <2> HIDE DEF candidates, near
  <2>6. CASE Cardinality(candidates) > 1
    <3>1. t \in Only(near) /\ AnchorMeant(S, e) = Only(near)
      BY <1>1, <2>4, <2>6
    <3>2. near = {t} /\ Only(near) \subseteq near
      BY <2>2, <3>1, OnlyIsOne DEF Only
    <3>3. AnchorMeant(S, e) = {t} /\ t \in Pinned(S, "ensemble")
      BY <2>1, <3>1, <3>2
    <3>4. \A other \in candidates \ {t} : Entity[other].cities \intersect Entity[e].spells = {}
      BY <2>5, <3>2
    <3> QED
      BY <3>3, <3>4 DEF candidates
  <2>7. CASE ~(Cardinality(candidates) > 1)
    <3>1. Cardinality(candidates) <= 1 /\ t \in candidates /\ AnchorMeant(S, e) = candidates
      BY <1>1, <2>3, <2>4, <2>7
    <3>2. candidates = {t}
      BY <2>2, <3>1, AtMostOne
    <3> QED
      BY <2>1, <3>1, <3>2 DEF candidates
  <2> QED
    BY <2>6, <2>7
<1>2. ASSUME NEW l \in AnchorEnsembles(S)
      PROVE  /\ l = <<l[1], l[2]>>
             /\ l[1] \in Bare(S, "ensemble") /\ l[2] \in AnchorMeant(S, l[1]) /\ l[1] \in Entities
  BY DEF AnchorEnsembles, Bare, OfKind
<1>3. ASSUME NEW l \in AnchorEnsembles(S) PROVE Entity[l[1]].kind = "ensemble" /\ Means(S, l)
  <2>1. /\ l[1] \in S /\ Entity[l[1]].item = NoItem /\ Entity[l[1]].kind = "ensemble"
        /\ l[2] \in S /\ Entity[l[2]].item # NoItem /\ Entity[l[2]].kind = "ensemble"
    BY <1>1, <1>2 DEF Bare, Pinned, OfKind
  <2>2. ASSUME NEW other \in Pinned(S, "ensemble") \ {l[2]},
               Entity[l[1]].name \in {Entity[other].name} \union Entity[other].aliases
        PROVE  Entity[other].cities \intersect Entity[l[1]].spells = {}
    <3>1. other \in Anchors(S, Entity[l[1]].name) \ {l[2]}
      BY <2>2 DEF Anchors, Named, Known
    <3> QED
      BY <1>1, <1>2, <3>1
  <2> QED
    BY <2>1, <2>2 DEF Means
<1>4. ASSUME NEW l \in AnchorEnsembles(S), NEW k \in AnchorEnsembles(S), k[1] = l[1] PROVE k = l
  <2>1. AnchorMeant(S, l[1]) = {l[2]} /\ k[2] \in AnchorMeant(S, l[1])
    BY <1>1, <1>2, <1>4
  <2> QED
    BY <1>2, <1>4, <2>1
<1> QED
  BY <1>2, <1>3, <1>4 DEF Sound

-----------------------------------------------------------------------------
(* What a pass writes.                                                     *)

LEMMA PassOrderIs ==
    /\ Len(PassOrder) = 8 /\ DOMAIN PassOrder = 1 .. 8 /\ Publishing = 9
    /\ PassOrder[1] = "places" /\ PassOrder[2] = "genres" /\ PassOrder[3] = "ensembles"
    /\ PassOrder[4] = "merge" /\ PassOrder[5] = "links" /\ PassOrder[6] = "entities"
    /\ PassOrder[7] = "concerts" /\ PassOrder[8] = "recordings"
BY DEF PassOrder, Publishing

\* Folding writes silver only when there is something to fold.
LEMMA NothingToFold ==
    ASSUME TypeOK, FoldWorks, Folding = {}
    PROVE  UNCHANGED <<silver, workLinks, workEntities>>
<1> DEFINE moved(w) == IF w \in Folding THEN Merges(works, became)[w] ELSE w
<1>1. /\ works' = works \ Folding
      /\ became' = [w \in Works |-> moved(became[w])]
      /\ mentions' = [m \in Mentions |->
            IF mentions[m] = Nothing THEN Nothing ELSE [mentions[m] EXCEPT !.work = moved(@)]]
      /\ workLinks' = {l \in workLinks : {l[1], l[2]} \intersect Folding = {}}
      /\ workEntities' = {l \in workEntities : l[1] \notin Folding}
      /\ minted' = minted
  BY DEF FoldWorks
<1>2. \A w : moved(w) = w
  OBVIOUS
<1> HIDE DEF moved
<1>3. mentions' = mentions
  <2>1. ASSUME NEW m \in Mentions, mentions[m] # Nothing
        PROVE  [mentions[m] EXCEPT !.work = moved(@)] = mentions[m]
    <3>1. mentions[m] \in Mention
      BY <2>1 DEF TypeOK
    <3> QED
      BY <1>2, <3>1 DEF Mention
  <2> QED
    BY <1>1, <2>1 DEF TypeOK
<1>4. became' = became
  BY <1>1, <1>2 DEF TypeOK
<1>5. works' = works /\ workLinks' = workLinks /\ workEntities' = workEntities
  BY <1>1
<1> QED
  BY <1>1, <1>3, <1>4, <1>5 DEF silver

LEMMA FunctionsOfSilver ==
    ASSUME UNCHANGED silver
    PROVE  /\ AllWorkLinks' = AllWorkLinks
           /\ AllWorkEntities' = AllWorkEntities
           /\ UNCHANGED <<minted, works, mentions, became>>
<1>1. UNCHANGED <<minted, works, mentions, became>>
  BY DEF silver
<1>2. AllWorkLinks' = AllWorkLinks
  BY <1>1 DEF AllWorkLinks, Sighted, Stated, WorksBy, AsKnown
<1>3. AllWorkEntities' = AllWorkEntities
  BY <1>1 DEF AllWorkEntities, Sighted
<1> QED
  BY <1>1, <1>2, <1>3

\* Links made again replace those of their kinds and no others.
LEMMA RelinkStep ==
    ASSUME NEW kinds, NEW links, Sound(links, kinds, minted), Relink(kinds, links)
    PROVE  /\ LinkedOf(kinds)' = links
           /\ \A others : others \intersect kinds = {} => LinkedOf(others)' = LinkedOf(others)
           /\ UNCHANGED <<silver, workLinks, workEntities, concerts, recordings>>
<1>1. /\ linked' = {l \in linked : Entity[l[1]].kind \notin kinds} \union links
      /\ UNCHANGED <<silver, workLinks, workEntities, concerts, recordings>>
  BY DEF Relink
<1>2. \A l \in links : Entity[l[1]].kind \in kinds
  BY DEF Sound
<1>3. LinkedOf(kinds)' = links
  BY <1>1, <1>2 DEF LinkedOf
<1>4. \A others : others \intersect kinds = {} => LinkedOf(others)' = LinkedOf(others)
  BY <1>1, <1>2 DEF LinkedOf
<1> QED
  BY <1>1, <1>3, <1>4

\* A pass leaves what the passes of a finished refresh prefix have made: it
\* makes the same again, or nothing, unless it folds works that were linked.
LEMMA PassKeepsDone ==
    ASSUME TypeOK, NEW k \in 0 .. 8, Done(k), NEW p, Pass(p),
           p = "merge" => k <= 4 \/ Folding = {}
    PROVE  Done(k)'
<1> USE DEF Done
<1>1. minted \subseteq Entities
  BY DEF TypeOK
<1>2. CASE p = "places"
  <2>1. Relink({"place"}, LinkPlaces(minted))
    BY <1>2 DEF Pass
  <2>2. /\ LinkedOf({"place"})' = LinkPlaces(minted)
        /\ \A others : others \intersect {"place"} = {} => LinkedOf(others)' = LinkedOf(others)
        /\ UNCHANGED <<silver, workLinks, workEntities, concerts, recordings>>
    BY <1>1, <2>1, RelinkStep, PlacesAreSound
  <2> QED
    BY <2>2, FunctionsOfSilver
<1>3. CASE p = "genres"
  <2>1. Relink({"genre", "movement"}, LinkGenres(minted))
    BY <1>3 DEF Pass
  <2>2. /\ LinkedOf({"genre", "movement"})' = LinkGenres(minted)
        /\ \A others : others \intersect {"genre", "movement"} = {} => LinkedOf(others)' = LinkedOf(others)
        /\ UNCHANGED <<silver, workLinks, workEntities, concerts, recordings>>
    BY <1>1, <2>1, RelinkStep, GenresAreSound
  <2> QED
    BY <2>2, FunctionsOfSilver
<1>4. CASE p = "ensembles"
  <2>1. Relink({"ensemble"}, AnchorEnsembles(minted))
    BY <1>4 DEF Pass
  <2>2. /\ LinkedOf({"ensemble"})' = AnchorEnsembles(minted)
        /\ \A others : others \intersect {"ensemble"} = {} => LinkedOf(others)' = LinkedOf(others)
        /\ UNCHANGED <<silver, workLinks, workEntities, concerts, recordings>>
    BY <1>1, <2>1, RelinkStep, EnsemblesAreSound
  <2> QED
    BY <2>2, FunctionsOfSilver
<1>5. CASE p = "merge"
  <2>1. FoldWorks
    BY <1>5 DEF Pass
  <2>2. UNCHANGED <<minted, linked, concerts, recordings>>
    BY <2>1 DEF FoldWorks
  <2>3. CASE k <= 4
    BY <2>2, <2>3 DEF LinkedOf
  <2>4. CASE Folding = {}
    <3>1. UNCHANGED <<silver, workLinks, workEntities>>
      BY <2>1, <2>4, NothingToFold
    <3> QED
      BY <2>2, <3>1, FunctionsOfSilver DEF LinkedOf
  <2> QED
    BY <1>5, <2>3, <2>4
<1>6. CASE p \in {"links", "entities"}
  <2>1. /\ UNCHANGED <<silver, linked, concerts, recordings>>
        /\ workLinks' = workLinks \/ workLinks' = AllWorkLinks
        /\ workEntities' = workEntities \/ workEntities' = AllWorkEntities
    BY <1>6 DEF Pass, LinkWorks, LinkWorkEntities
  <2> QED
    BY <2>1, FunctionsOfSilver DEF LinkedOf
<1>7. CASE p \in {"concerts", "recordings"}
  <2>1. /\ UNCHANGED <<silver, linked, workLinks, workEntities>>
        /\ \/ concerts' = concerts
           \/ concerts' \in {DeriveConcerts(minted, rows) : rows \in RowOrders(mentions, ConcertPayload)}
        /\ \/ recordings' = recordings
           \/ recordings' \in {DeriveRecordings(minted, rows) : rows \in RowOrders(mentions, RecordingPayload)}
    BY <1>7 DEF Pass, Concerts, Recordings
  <2> QED
    BY <2>1, FunctionsOfSilver DEF LinkedOf
<1> QED
  BY <1>2, <1>3, <1>4, <1>5, <1>6, <1>7 DEF Pass

LEMMA LinksMade ==
    ASSUME TypeOK
    PROVE  /\ Pass("places") => LinkedOf({"place"})' = LinkPlaces(minted)'
           /\ Pass("genres") => LinkedOf({"genre", "movement"})' = LinkGenres(minted)'
           /\ Pass("ensembles") => LinkedOf({"ensemble"})' = AnchorEnsembles(minted)'
<1>1. minted \subseteq Entities
  BY DEF TypeOK
<1>2. ASSUME Pass("places") PROVE LinkedOf({"place"})' = LinkPlaces(minted)'
  <2>1. Relink({"place"}, LinkPlaces(minted)) /\ minted' = minted
    BY <1>2 DEF Pass, Relink, silver
  <2> QED
    BY <1>1, <2>1, RelinkStep, PlacesAreSound
<1>3. ASSUME Pass("genres") PROVE LinkedOf({"genre", "movement"})' = LinkGenres(minted)'
  <2>1. Relink({"genre", "movement"}, LinkGenres(minted)) /\ minted' = minted
    BY <1>3 DEF Pass, Relink, silver
  <2> QED
    BY <1>1, <2>1, RelinkStep, GenresAreSound
<1>4. ASSUME Pass("ensembles") PROVE LinkedOf({"ensemble"})' = AnchorEnsembles(minted)'
  <2>1. Relink({"ensemble"}, AnchorEnsembles(minted)) /\ minted' = minted
    BY <1>4 DEF Pass, Relink, silver
  <2> QED
    BY <1>1, <2>1, RelinkStep, EnsemblesAreSound
<1> QED
  BY <1>2, <1>3, <1>4

\* A pass in its turn adds its own part.
LEMMA PassAddsDone ==
    ASSUME TypeOK, NEW k \in 1 .. 8, Done(k - 1), Pass(PassOrder[k])
    PROVE  Done(k)'
<1>1. Done(k - 1)'
  <2>1. PassOrder[k] = "merge" => k - 1 <= 4
    BY PassOrderIs
  <2> QED
    BY <2>1, PassKeepsDone
<1>2. CASE k = 1
  BY <1>1, <1>2, PassOrderIs, LinksMade DEF Done
<1>3. CASE k = 2
  BY <1>1, <1>3, PassOrderIs, LinksMade DEF Done
<1>4. CASE k = 3
  BY <1>1, <1>4, PassOrderIs, LinksMade DEF Done
<1>5. CASE k = 4
  BY <1>1, <1>5 DEF Done
<1>6. CASE k = 5
  <2>1. workLinks' = AllWorkLinks /\ UNCHANGED silver
    BY <1>6, PassOrderIs DEF Pass, LinkWorks
  <2> QED
    BY <1>1, <1>6, <2>1, FunctionsOfSilver DEF Done
<1>7. CASE k = 6
  <2>1. workEntities' = AllWorkEntities /\ UNCHANGED silver
    BY <1>7, PassOrderIs DEF Pass, LinkWorkEntities
  <2> QED
    BY <1>1, <1>7, <2>1, FunctionsOfSilver DEF Done
<1>8. CASE k = 7
  <2>1. /\ concerts' \in {DeriveConcerts(minted, rows) : rows \in RowOrders(mentions, ConcertPayload)}
        /\ UNCHANGED silver
    BY <1>8, PassOrderIs DEF Pass, Concerts
  <2> QED
    BY <1>1, <1>8, <2>1, FunctionsOfSilver DEF Done
<1>9. CASE k = 8
  <2>1. /\ recordings' \in {DeriveRecordings(minted, rows) : rows \in RowOrders(mentions, RecordingPayload)}
        /\ UNCHANGED silver
    BY <1>9, PassOrderIs DEF Pass, Recordings
  <2> QED
    BY <1>1, <1>9, <2>1, FunctionsOfSilver DEF Done
<1> QED
  BY <1>2, <1>3, <1>4, <1>5, <1>6, <1>7, <1>8, <1>9

\* The kinds of the passes are apart, so their links stay sound together, each
\* kind as of when it was last linked.
LEMMA SoundTogether ==
    ASSUME TypeOK, \A l \in linked : Entity[l[1]].kind \in Linkable, LinksNameOneThing, NEW p, Pass(p)
    PROVE  /\ LinksNameOneThing' /\ \A l \in linked' : Entity[l[1]].kind \in Linkable
           /\ linked' \subseteq Entities \X Entities /\ asOf' \in [Linkable -> SUBSET Entities]
<1>1. minted \subseteq Entities
  BY DEF TypeOK
<1>2. CASE UNCHANGED <<linked, asOf>>
  BY <1>2 DEF LinksNameOneThing, TypeOK
<1>3. ASSUME NEW kinds \in SUBSET Linkable, NEW links, Sound(links, kinds, minted), Relink(kinds, links)
      PROVE  /\ LinksNameOneThing' /\ \A l \in linked' : Entity[l[1]].kind \in Linkable
             /\ linked' \subseteq Entities \X Entities /\ asOf' \in [Linkable -> SUBSET Entities]
  <2>1. /\ linked' = {l \in linked : Entity[l[1]].kind \notin kinds} \union links
        /\ asOf' = [kind \in Linkable |-> IF kind \in kinds THEN minted ELSE asOf[kind]]
    BY <1>3 DEF Relink
  <2>2. \A l \in linked' : Entity[l[1]].kind \in Linkable
    BY <1>3, <2>1 DEF Sound
  <2>3. asOf' \in [Linkable -> SUBSET Entities]
    BY <1>1, <2>1 DEF TypeOK
  <2>4. ASSUME NEW l \in linked'
        PROVE  Means(asOf'[Entity[l[1]].kind], l) /\ l \in Entities \X Entities
    <3>1. CASE l \in links
      <4>1. Entity[l[1]].kind \in kinds /\ Means(minted, l) /\ l = <<l[1], l[2]>>
        BY <1>3, <3>1 DEF Sound
      <4>2. asOf'[Entity[l[1]].kind] = minted
        BY <1>3, <2>1, <4>1
      <4>3. {l[1], l[2]} \subseteq minted
        BY <4>1 DEF Means
      <4> QED
        BY <1>1, <4>1, <4>2, <4>3
    <3>2. CASE l \in linked /\ Entity[l[1]].kind \notin kinds
      <4>1. asOf'[Entity[l[1]].kind] = asOf[Entity[l[1]].kind]
        BY <2>1, <3>2
      <4> QED
        BY <3>2, <4>1 DEF LinksNameOneThing, TypeOK
    <3> QED
      BY <2>1, <2>4, <3>1, <3>2
  <2>5. ASSUME NEW l \in linked', NEW k \in linked', k[1] = l[1]
        PROVE  k = l
    <3>1. CASE Entity[l[1]].kind \in kinds
      <4>1. k \in links /\ l \in links
        BY <2>1, <2>5, <3>1
      <4> QED
        BY <1>3, <2>5, <4>1 DEF Sound
    <3>2. CASE Entity[l[1]].kind \notin kinds
      <4>1. k \in linked /\ l \in linked
        BY <1>3, <2>1, <2>5, <3>2 DEF Sound
      <4> QED
        BY <2>5, <4>1 DEF LinksNameOneThing
    <3> QED
      BY <3>1, <3>2
  <2> QED
    BY <2>2, <2>3, <2>4, <2>5 DEF LinksNameOneThing
<1>4. CASE p = "places"
  <2>1. Relink({"place"}, LinkPlaces(minted)) /\ {"place"} \subseteq Linkable
    BY <1>4 DEF Pass, Linkable
  <2> QED
    BY <1>1, <1>3, <2>1, PlacesAreSound
<1>5. CASE p = "genres"
  <2>1. Relink({"genre", "movement"}, LinkGenres(minted)) /\ {"genre", "movement"} \subseteq Linkable
    BY <1>5 DEF Pass, Linkable
  <2> QED
    BY <1>1, <1>3, <2>1, GenresAreSound
<1>6. CASE p = "ensembles"
  <2>1. Relink({"ensemble"}, AnchorEnsembles(minted)) /\ {"ensemble"} \subseteq Linkable
    BY <1>6 DEF Pass, Linkable
  <2> QED
    BY <1>1, <1>3, <2>1, EnsemblesAreSound
<1> QED
  BY <1>2, <1>4, <1>5, <1>6 DEF Pass, FoldWorks, LinkWorks, LinkWorkEntities, Concerts, Recordings

-----------------------------------------------------------------------------
(* The rows stay well formed.                                              *)

LEMMA WorkLinksAreWorks ==
    ASSUME TypeOK
    PROVE  AllWorkLinks \subseteq Works \X Works
<1>1. ASSUME NEW c PROVE DOMAIN WorksBy(c) \subseteq Works
  BY DEF WorksBy, TypeOK
<1>2. ASSUME NEW f, DOMAIN f \subseteq Works
      PROVE  CatalogueLinks(f) \union RangeLinks(f) \subseteq Works \X Works
  <2>1. Originals(f) \subseteq Works
    BY <1>2 DEF Originals
  <2>2. \A T : Only(T) \subseteq T
    BY DEF Only
  <2>3. CatalogueLinks(f) \subseteq Works \X Works
    <3> SUFFICES ASSUME NEW l \in CatalogueLinks(f) PROVE l \in Works \X Works
      OBVIOUS
    <3>1. PICK d \in DOMAIN f \ Originals(f) :
            l \in {d} \X Only({w \in Originals(f) : f[w].ids \intersect f[d].parents # {}})
      BY DEF CatalogueLinks
    <3>2. l \in {d} \X {w \in Originals(f) : f[w].ids \intersect f[d].parents # {}}
      BY <2>2, <3>1
    <3> QED
      BY <1>2, <2>1, <3>1, <3>2
  <2>4. RangeLinks(f) \subseteq Works \X Works
    BY <2>1 DEF RangeLinks
  <2> QED
    BY <2>3, <2>4
<1>3. Stated \subseteq Works \X UNION {PartOf[m] : m \in Mentions}
  <2> SUFFICES ASSUME NEW s \in Stated PROVE s \in Works \X UNION {PartOf[m] : m \in Mentions}
    OBVIOUS
  <2>1. PICK m \in Sighted : s \in {mentions[m].work} \X PartOf[m]
    BY DEF Stated
  <2>2. mentions[m] \in Mention /\ m \in Mentions
    BY DEF TypeOK, Sighted
  <2> QED
    BY <2>1, <2>2 DEF Mention
<1>4. ASSUME NEW f, DOMAIN f \subseteq Works, NEW stated, \A s \in stated : s[1] \in Works
      PROVE  WikidataLinks(f, stated) \subseteq Works \X Works
  <2> SUFFICES ASSUME NEW l \in WikidataLinks(f, stated) PROVE l \in Works \X Works
    OBVIOUS
  <2>1. PICK s \in stated :
            l \in {s[1]} \X Only({w \in DOMAIN f \ {s[1]} : <<Wikidata, s[2]>> \in f[w].ids})
    BY DEF WikidataLinks
  <2>2. l \in {s[1]} \X {w \in DOMAIN f \ {s[1]} : <<Wikidata, s[2]>> \in f[w].ids}
    BY <2>1 DEF Only
  <2> QED
    BY <1>4, <2>1, <2>2
<1>5. WikidataLinks([w \in works |-> AsKnown(w)], Stated) \subseteq Works \X Works
  <2>1. DOMAIN [w \in works |-> AsKnown(w)] \subseteq Works
    BY DEF TypeOK
  <2>2. \A s \in Stated : s[1] \in Works
    BY <1>3
  <2> QED
    BY <1>4, <2>1, <2>2
<1>6. \A c : CatalogueLinks(WorksBy(c)) \union RangeLinks(WorksBy(c)) \subseteq Works \X Works
  BY <1>1, <1>2
<1> QED
  BY <1>5, <1>6 DEF AllWorkLinks

LEMMA PassKeepsTypes ==
    ASSUME TypeOK, NEW p, Pass(p)
    PROVE  /\ minted' \subseteq Entities /\ works' \subseteq Works /\ became' \in [Works -> Works]
           /\ mentions' \in [Mentions -> Mention \union {Nothing}]
           /\ workLinks' \subseteq Works \X Works
           /\ workEntities' \subseteq Works \X Entities
<1>1. CASE FoldWorks
  <2> DEFINE moved(w) == IF w \in Folding THEN Merges(works, became)[w] ELSE w
  <2>1. /\ works' = works \ Folding
        /\ became' = [w \in Works |-> moved(became[w])]
        /\ mentions' = [m \in Mentions |->
              IF mentions[m] = Nothing THEN Nothing ELSE [mentions[m] EXCEPT !.work = moved(@)]]
        /\ workLinks' = {l \in workLinks : {l[1], l[2]} \intersect Folding = {}}
        /\ workEntities' = {l \in workEntities : l[1] \notin Folding}
        /\ minted' = minted
    BY <1>1 DEF FoldWorks
  <2>2. \A w \in Works : moved(w) \in Works
    <3>1. Merges(works, became) \in [works -> Works]
      BY MergesAssumption DEF TypeOK
    <3> QED
      BY <3>1 DEF Folding
  <2> HIDE DEF moved
  <2>3. became' \in [Works -> Works]
    BY <2>1, <2>2 DEF TypeOK
  <2>4. ASSUME NEW m \in Mentions, mentions[m] # Nothing
        PROVE  [mentions[m] EXCEPT !.work = moved(@)] \in Mention
    <3>1. mentions[m] \in Mention
      BY <2>4 DEF TypeOK
    <3> QED
      BY <2>2, <3>1 DEF Mention
  <2>5. mentions' \in [Mentions -> Mention \union {Nothing}]
    BY <2>1, <2>4
  <2> QED
    BY <2>1, <2>3, <2>5 DEF TypeOK
<1>2. CASE LinkWorks
  BY <1>2, WorkLinksAreWorks DEF LinkWorks, TypeOK, silver
<1>3. CASE LinkWorkEntities
  <2>1. AllWorkEntities \subseteq Works \X Entities
    <3>1. ASSUME NEW m \in Sighted, RecordOf[m] \in OfKind(minted, "work")
          PROVE  <<mentions[m].work, RecordOf[m]>> \in Works \X Entities
      BY <3>1 DEF TypeOK, Sighted, Mention, OfKind
    <3> QED
      BY <3>1 DEF AllWorkEntities
  <2> QED
    BY <1>3, <2>1 DEF LinkWorkEntities, TypeOK, silver
<1>4. CASE UNCHANGED <<silver, workLinks, workEntities>>
  BY <1>4 DEF TypeOK, silver
<1> QED
  BY <1>1, <1>2, <1>3, <1>4 DEF Pass, Relink, Concerts, Recordings

-----------------------------------------------------------------------------
(* The invariant.                                                          *)

\* No refresh has begun and nothing is linked.
LEMMA InitEstablishes == Init => IInv
<1> SUFFICES ASSUME Init PROVE IInv
  OBVIOUS
<1>1. TypeOK
  <2>1. PICK b \in Base : minted = b.minted /\ mentions = b.mentions /\ works = b.works
    BY DEF Init
  <2>2. /\ minted \subseteq Entities /\ works \subseteq Works /\ became \in [Works -> Works]
        /\ mentions \in [Mentions -> Mention \union {Nothing}]
    BY <2>1, BaseAssumption DEF Init
  <2>3. 0 \in 0 .. Publishing /\ 0 \in 0 .. MaxCommits
    BY MaxCommitsAssumption, PassOrderIs
  <2>4. linked = {} /\ workLinks = {} /\ workEntities = {} /\ asOf \in [Linkable -> SUBSET Entities]
    BY DEF Init
  <2>5. /\ pass = [r \in Refreshers |-> 0] /\ quiet = [r \in Refreshers |-> FALSE]
        /\ commits = 0 /\ fresh = FALSE
    BY DEF Init
  <2> QED
    BY <2>2, <2>3, <2>4, <2>5 DEF TypeOK
<1>2. LinksNameOneThing /\ \A l \in linked : Entity[l[1]].kind \in Linkable
  BY DEF Init, LinksNameOneThing
<1> QED
  BY <1>1, <1>2 DEF Init, IInv

LEMMA PassStep ==
    ASSUME IInv, NEW p, Pass(p)
    PROVE  /\ LinksNameOneThing' /\ \A l \in linked' : Entity[l[1]].kind \in Linkable
           /\ linked' \subseteq Entities \X Entities /\ asOf' \in [Linkable -> SUBSET Entities]
           /\ \A k \in 0 .. 8 : Done(k) /\ (p = "merge" => k <= 4 \/ Folding = {}) => Done(k)'
<1>1. TypeOK /\ LinksNameOneThing /\ \A l \in linked : Entity[l[1]].kind \in Linkable
  BY DEF IInv
<1>2. \A k \in 0 .. 8 : Done(k) /\ (p = "merge" => k <= 4 \/ Folding = {}) => Done(k)'
  BY <1>1, PassKeepsDone
<1> QED
  BY <1>1, <1>2, SoundTogether

LEMMA RunPassKeeps == ASSUME IInv, NEW r \in Refreshers, RunPass(r) PROVE IInv'
<1>1. TypeOK /\ pass[r] \in 1 .. 8 /\ Pass(PassOrder[pass[r]])
  BY PassOrderIs DEF IInv, RunPass
<1>2. /\ pass' = [pass EXCEPT ![r] = @ + 1]
      /\ quiet' = [q \in Refreshers |-> quiet[q] /\ (Folds(r) => q = r \/ FoldsLater(q))]
      /\ fresh' = ((fresh /\ ~Folds(r)) \/ (quiet[r] /\ pass[r] = 8))
      /\ UNCHANGED commits
  BY PassOrderIs DEF RunPass
<1>3. TypeOK'
  <2>1. quiet' \in [Refreshers -> BOOLEAN] /\ fresh' \in BOOLEAN
    BY <1>1, <1>2 DEF TypeOK
  <2>2. pass' \in [Refreshers -> 0 .. Publishing]
    BY <1>1, <1>2, PassOrderIs DEF TypeOK
  <2> QED
    BY <1>1, <1>2, <2>1, <2>2, PassStep, PassKeepsTypes DEF TypeOK
<1>4. ASSUME NEW q \in Refreshers, NEW k \in 0 .. 8, quiet'[q], pass'[q] = k + 1
      PROVE  Done(k)'
  <2>1. CASE q = r
    <3>1. quiet[r] /\ pass[r] = k /\ k \in 1 .. 8 /\ k - 1 \in 0 .. 8
      BY <1>1, <1>2, <1>4, <2>1 DEF TypeOK
    <3>2. Done(k - 1)
      BY <3>1 DEF IInv
    <3> QED
      BY <1>1, <3>1, <3>2, PassAddsDone
  <2>2. CASE q # r
    <3>1. pass[q] = k + 1 /\ quiet[q] /\ (Folds(r) => FoldsLater(q))
      BY <1>1, <1>2, <1>4, <2>2 DEF TypeOK
    <3>2. Done(k)
      BY <3>1 DEF IInv
    <3>3. ASSUME PassOrder[pass[r]] = "merge", Folding # {} PROVE k <= 4
      <4>1. FoldsLater(q)
        BY <3>1, <3>3 DEF Folds
      <4>2. ~(4 < pass[q])
        BY <4>1, PassOrderIs DEF FoldsLater
      <4> QED
        BY <3>1, <4>2
    <3> QED
      BY <1>1, <3>2, <3>3, PassStep
  <2> QED
    BY <2>1, <2>2
<1>5. ASSUME fresh' PROVE Done(8)'
  <2>1. CASE fresh /\ ~Folds(r)
    <3>1. Done(8)
      BY <2>1, PassOrderIs DEF IInv
    <3>2. PassOrder[pass[r]] = "merge" => Folding = {}
      BY <2>1 DEF Folds
    <3> QED
      BY <1>1, <3>1, <3>2, PassStep
  <2>2. CASE quiet[r] /\ pass[r] = 8
    <3>1. Done(8 - 1)
      BY <2>2 DEF IInv
    <3> QED
      BY <1>1, <2>2, <3>1, PassAddsDone
  <2> QED
    BY <1>2, <1>5, <2>1, <2>2
<1> QED
  BY <1>1, <1>3, <1>4, <1>5, PassStep, PassOrderIs DEF IInv

LEMMA AloneKeeps ==
    ASSUME IInv, NEW p \in {"genres", "ensembles", "concerts", "recordings"}, Alone(p)
    PROVE  IInv'
<1>1. TypeOK /\ Pass(p) /\ UNCHANGED <<pass, commits, quiet, fresh>>
  BY DEF IInv, Alone
<1>2. TypeOK'
  BY <1>1, PassStep, PassKeepsTypes DEF TypeOK
<1>3. ASSUME NEW q \in Refreshers, NEW k \in 0 .. 8, quiet[q], pass[q] = k + 1
      PROVE  Done(k)'
  BY <1>1, <1>3, PassStep DEF IInv
<1>4. fresh => Done(8)'
  BY <1>1, PassStep, PassOrderIs DEF IInv
<1> QED
  BY <1>1, <1>2, <1>3, <1>4, PassStep, PassOrderIs DEF IInv

\* A load leaves what the passes made and ends every claim about it.
LEMMA LoadKeeps ==
    ASSUME IInv, Loaded,
           minted' \subseteq Entities, works' \subseteq Works,
           mentions' \in [Mentions -> Mention \union {Nothing}]
    PROVE  IInv'
<1>1. /\ UNCHANGED <<became, linked, asOf, workLinks, workEntities, pass>>
      /\ quiet' = [r \in Refreshers |-> FALSE] /\ fresh' = FALSE
      /\ commits < MaxCommits /\ commits' = commits + 1
  BY DEF Loaded, derived
<1>2. commits' \in 0 .. MaxCommits
  BY <1>1, MaxCommitsAssumption DEF IInv, TypeOK
<1>3. TypeOK'
  BY <1>1, <1>2 DEF IInv, TypeOK
<1> QED
  BY <1>1, <1>3 DEF IInv, LinksNameOneThing

LEMMA StepPreserves == IInv /\ [Next]_vars => IInv'
<1> SUFFICES ASSUME IInv, [Next]_vars PROVE IInv'
  OBVIOUS
<1>1. TypeOK
  BY DEF IInv
<1>2. ASSUME UNCHANGED <<silver, derived, commits>>,
             \A k \in 0 .. 8 : Done(k) => Done(k)'
      PROVE  /\ minted' \subseteq Entities /\ works' \subseteq Works /\ became' \in [Works -> Works]
             /\ mentions' \in [Mentions -> Mention \union {Nothing}]
             /\ linked' \subseteq Entities \X Entities /\ asOf' \in [Linkable -> SUBSET Entities]
             /\ workLinks' \subseteq Works \X Works /\ workEntities' \subseteq Works \X Entities
             /\ commits' \in 0 .. MaxCommits
             /\ LinksNameOneThing' /\ \A l \in linked' : Entity[l[1]].kind \in Linkable
  BY <1>2 DEF IInv, TypeOK, LinksNameOneThing, silver, derived
<1>3. ASSUME UNCHANGED <<silver, derived>>, NEW k \in 0 .. 8, Done(k)
      PROVE  Done(k)'
  BY <1>3, FunctionsOfSilver DEF Done, LinkedOf, derived
<1>4. ASSUME NEW r \in Refreshers, Begin(r) PROVE IInv'
  <2>1. /\ pass[r] = 0 /\ pass' = [pass EXCEPT ![r] = 1] /\ quiet' = [quiet EXCEPT ![r] = TRUE]
        /\ UNCHANGED <<silver, derived, commits, fresh>>
    BY <1>4 DEF Begin
  <2>2. TypeOK'
    BY <1>1, <1>2, <1>3, <2>1, PassOrderIs DEF TypeOK
  <2>3. ASSUME NEW q \in Refreshers, NEW k \in 0 .. 8, quiet'[q], pass'[q] = k + 1
        PROVE  Done(k)'
    <3>1. CASE q = r
      <4>1. k = 0
        BY <1>1, <2>1, <2>3, <3>1 DEF TypeOK
      <4> QED
        BY <4>1 DEF Done
    <3>2. CASE q # r
      <4>1. pass[q] = k + 1 /\ quiet[q]
        BY <1>1, <2>1, <2>3, <3>2 DEF TypeOK
      <4> QED
        BY <1>3, <2>1, <4>1 DEF IInv
    <3> QED
      BY <3>1, <3>2
  <2>4. fresh' => Done(8)'
    BY <1>3, <2>1, PassOrderIs DEF IInv
  <2> QED
    BY <1>2, <1>3, <2>1, <2>2, <2>3, <2>4, PassOrderIs DEF IInv
<1>5. ASSUME NEW r \in Refreshers, Publish(r) \/ Stop(r) PROVE IInv'
  <2>1. /\ pass' = [pass EXCEPT ![r] = 0]
        /\ UNCHANGED <<silver, derived, commits, quiet, fresh>>
    BY <1>5 DEF Publish, Stop
  <2>2. TypeOK'
    BY <1>1, <1>2, <1>3, <2>1, PassOrderIs DEF TypeOK
  <2>3. ASSUME NEW q \in Refreshers, NEW k \in 0 .. 8, quiet'[q], pass'[q] = k + 1
        PROVE  Done(k)'
    <3>1. pass[q] = k + 1 /\ quiet[q]
      BY <1>1, <2>1, <2>3 DEF TypeOK
    <3> QED
      BY <1>3, <2>1, <3>1 DEF IInv
  <2>4. fresh' => Done(8)'
    BY <1>3, <2>1, PassOrderIs DEF IInv
  <2> QED
    BY <1>2, <1>3, <2>1, <2>2, <2>3, <2>4, PassOrderIs DEF IInv
<1>6. ASSUME NEW e \in Entities, Mint(e) PROVE IInv'
  BY <1>1, <1>6, LoadKeeps DEF Mint, TypeOK
<1>7. ASSUME NEW m \in Mentions, NEW p \in Sightings[m], NEW w \in WorksFor[m], Sight(m, p, w)
      PROVE  IInv'
  <2>1. w \in Works /\ p \in RecordingPayload \union ConcertPayload
    BY SightingsAssumption
  <2>2. [payload |-> p, work |-> w] \in Mention
    BY <2>1 DEF Mention
  <2>3. mentions' = [mentions EXCEPT ![m] = [payload |-> p, work |-> w]] /\ works' = works \union {w}
        /\ minted' = minted /\ Loaded
    BY <1>7 DEF Sight
  <2>4. mentions' \in [Mentions -> Mention \union {Nothing}]
    BY <1>1, <2>2, <2>3 DEF TypeOK
  <2> QED
    BY <1>1, <2>1, <2>3, <2>4, LoadKeeps DEF TypeOK
<1>8. CASE UNCHANGED vars
  <2>1. UNCHANGED <<silver, derived, pass, commits, quiet, fresh>>
    BY <1>8 DEF vars
  <2>2. TypeOK'
    BY <1>1, <1>2, <1>3, <2>1 DEF TypeOK
  <2>3. ASSUME NEW q \in Refreshers, NEW k \in 0 .. 8, quiet[q], pass[q] = k + 1
        PROVE  Done(k)'
    BY <1>3, <2>1, <2>3 DEF IInv
  <2>4. fresh' => Done(8)'
    BY <1>3, <2>1, PassOrderIs DEF IInv
  <2> QED
    BY <1>2, <1>3, <2>1, <2>2, <2>3, <2>4, PassOrderIs DEF IInv
<1> QED
  BY <1>4, <1>5, <1>6, <1>7, <1>8, RunPassKeeps, AloneKeeps DEF Next

\* The inductive invariant of refreshes, single passes and loads.
THEOREM Invariant == Spec => []IInv
<1> QED
  BY InitEstablishes, StepPreserves, PTL DEF Spec

\* A refresh that nothing was loaded under, and nothing folded by another once
\* it had folded itself, leaves no pass after its fold and none before it anything
\* to do, however many others ran, stopped or were killed beside it.
THEOREM NothingIsStale == Spec => []LeavesNothingStale
<1>1. IInv => LeavesNothingStale
  <2> SUFFICES ASSUME IInv, fresh PROVE LeavesNothingStale
    BY DEF LeavesNothingStale
  <2>1. Done(8) /\ \A l \in linked : Entity[l[1]].kind \in Linkable
    BY DEF IInv
  <2>2. linked = LinkedOf({"place"}) \union LinkedOf({"genre", "movement"}) \union LinkedOf({"ensemble"})
    BY <2>1 DEF LinkedOf, Linkable
  <2> QED
    BY <2>1, <2>2 DEF Done, LeavesNothingStale
<1> QED
  BY <1>1, Invariant, PTL

\* A canonical link is one hop, to the one thing its name meant of all there
\* was when its kind was last linked: at every moment, of ensembles too.
THEOREM OneThingPerName == Spec => []LinksNameOneThing
<1>1. IInv => LinksNameOneThing
  BY DEF IInv
<1> QED
  BY <1>1, Invariant, PTL

-----------------------------------------------------------------------------
(* Induction, without an operator as its parameter.                        *)

\* Of some subsets of a finite set one contains no other.
SubsetsOf(bad, S) == bad \in SUBSET SUBSET S /\ bad # {} /\ IsFiniteSet(S)
LEMMA LeastSubset ==
    ASSUME NEW S, NEW bad, SubsetsOf(bad, S)
    PROVE  \E T \in bad : \A U \in bad : U \subseteq T => U = T
<1>1. bad \subseteq FiniteSubsetsOf(S) /\ bad # {} /\ IsFiniteSet(S)
  BY FS_Subset DEF FiniteSubsetsOf, SubsetsOf
<1>2. PICK T \in bad : \A U \in bad : <<U, T>> \notin StrictSubsetOrdering(S)
  BY <1>1, FS_StrictSubsetOrderingWellFounded, WFMin
<1> QED
  BY <1>1, <1>2 DEF StrictSubsetOrdering, SubsetsOf

\* What holds at 0 and goes from each number to the next holds up to N.
LEMMA UpTo ==
    ASSUME NEW N \in Nat, NEW good \in SUBSET (0 .. N), 0 \in good,
           \A i \in 0 .. N - 1 : i \in good => i + 1 \in good
    PROVE  good = 0 .. N
<1> SUFFICES ASSUME NEW n \in 0 .. N, n \notin good PROVE FALSE
  OBVIOUS
<1> DEFINE bad == {{j \in 0 .. N : j <= i} : i \in (0 .. N) \ good}
<1> DEFINE All == 0 .. N
<1>1. bad \in SUBSET SUBSET All /\ bad # {}
  OBVIOUS
<1>2. IsFiniteSet(All)
  BY FS_Interval
<1> HIDE DEF bad, All
<1>3. PICK T \in bad : \A U \in bad : U \subseteq T => U = T
  BY <1>1, <1>2, LeastSubset DEF SubsetsOf
<1>4. PICK i \in (0 .. N) \ good : T = {j \in 0 .. N : j <= i}
  BY <1>1, <1>3 DEF bad
<1>5. i # 0 /\ i - 1 \in 0 .. N - 1 /\ i \in Int
  BY <1>4
<1>6. i - 1 \notin good
  BY <1>4, <1>5
<1>7. {j \in 0 .. N : j <= i - 1} \in bad
  BY <1>5, <1>6 DEF bad
<1>8. {j \in 0 .. N : j <= i - 1} \subseteq T
  BY <1>4, <1>5
<1>9. i \in T /\ i \notin {j \in 0 .. N : j <= i - 1}
  BY <1>4, <1>5
<1> QED
  BY <1>3, <1>7, <1>8, <1>9

\* A set of numbers has a least one, and a finite one a greatest.
LEMMA LeastOf ==
    ASSUME NEW S \in SUBSET Nat, S # {}
    PROVE  Min(S) \in S /\ \A y \in S : Min(S) <= y
<1>1. \E x \in S : \A y \in S : x <= y
  <2> SUFFICES ASSUME \A x \in S : \E y \in S : ~(x <= y) PROVE FALSE
    OBVIOUS
  <2>1. PICK n \in S : TRUE
    OBVIOUS
  <2> DEFINE good == {i \in 0 .. n : \A y \in S : i <= y}
  <2>2. 0 \in good /\ n \in Nat
    OBVIOUS
  <2>3. \A i \in 0 .. n - 1 : i \in good => i + 1 \in good
    <3> SUFFICES ASSUME NEW i \in 0 .. n - 1, i \in good PROVE i + 1 \in good
      OBVIOUS
    <3>1. i \notin S
      OBVIOUS
    <3>2. \A y \in S : i + 1 <= y
      BY <3>1
    <3> QED
      BY <3>2
  <2> HIDE DEF good
  <2>4. good \in SUBSET (0 .. n)
    BY DEF good
  <2>5. good = 0 .. n
    BY <2>2, <2>3, <2>4, UpTo
  <2>6. n \in good
    BY <2>2, <2>5
  <2> QED
    BY <2>6, <2>1 DEF good
<1> QED
  BY <1>1 DEF Min

LEMMA GreatestOf ==
    ASSUME NEW S \in SUBSET Nat, S # {}, IsFiniteSet(S)
    PROVE  Max(S) \in S /\ \A y \in S : y <= Max(S)
<1> DEFINE From(i) == {j \in S : i <= j}
           bad == {From(i) : i \in S}
<1>1. SubsetsOf(bad, S)
  BY DEF SubsetsOf
<1> HIDE DEF bad
<1>2. PICK T \in bad : \A U \in bad : U \subseteq T => U = T
  BY <1>1, LeastSubset
<1>3. PICK i \in S : T = From(i)
  BY <1>2 DEF bad
<1>4. \A y \in S : y <= i
  <2> SUFFICES ASSUME NEW y \in S, ~(y <= i) PROVE FALSE
    OBVIOUS
  <2>1. From(y) \in bad
    BY DEF bad
  <2>2. From(y) \subseteq T /\ i \in T /\ i \notin From(y)
    <3>1. i \in Nat /\ y \in Nat /\ S \subseteq Nat
      OBVIOUS
    <3>2. i <= i /\ ~(y <= i) /\ \A j \in Nat : y <= j => i <= j
      BY <3>1
    <3>3. i \in From(i) /\ i \notin From(y) /\ From(y) \subseteq From(i)
      BY <3>1, <3>2
    <3> QED
      BY <1>3, <3>3
  <2> HIDE DEF From
  <2> QED
    BY <1>2, <2>1, <2>2
<1> HIDE DEF From
<1>5. \E x \in S : \A y \in S : x >= y
  BY <1>4
<1>6. Max(S) \in S /\ \A y \in S : Max(S) >= y
  BY <1>5 DEF Max
<1>7. Max(S) \in Nat
  BY <1>6
<1> QED
  BY <1>6, <1>7

\* What takes N steps has a result.
Runs(f, k, S, start, next) == f \in [0 .. k -> S] /\ f[0] = start /\ \A n \in 1 .. k : f[n] = next[n][f[n - 1]]
LEMMA StepsRun ==
    ASSUME NEW N \in Nat, NEW S, NEW start \in S, NEW next \in [1 .. N -> [S -> S]]
    PROVE  \E f : Runs(f, N, S, start, next)
<1> DEFINE good == {k \in 0 .. N : \E f : Runs(f, k, S, start, next)}
<1>1. 0 \in good
  <2>1. Runs([i \in 0 .. 0 |-> start], 0, S, start, next)
    BY DEF Runs
  <2> QED
    BY <2>1
<1>2. ASSUME NEW k \in 0 .. N - 1, k \in good PROVE k + 1 \in good
  <2>1. PICK f : Runs(f, k, S, start, next)
    BY <1>2
  <2>2. k \in 0 .. k /\ k + 1 \in 1 .. N /\ k + 1 \in 0 .. N /\ k + 1 \notin 0 .. k
    OBVIOUS
  <2>3. PICK last : last = next[k + 1][f[k]] /\ last \in S
    BY <2>1, <2>2 DEF Runs
  <2> DEFINE g == [i \in 0 .. k + 1 |-> IF i \in 0 .. k THEN f[i] ELSE last]
  <2>4. g \in [0 .. k + 1 -> S]
    BY <2>1, <2>3 DEF Runs
  <2>5. g[0] = start
    BY <2>1 DEF Runs
  <2>6. ASSUME NEW n \in 1 .. k + 1 PROVE g[n] = next[n][g[n - 1]]
    <3>1. CASE n = k + 1
      BY <2>2, <2>3, <3>1
    <3>2. CASE n # k + 1
      <4>1. n \in 1 .. k /\ n \in 0 .. k /\ n - 1 \in 0 .. k /\ n \in 0 .. k + 1 /\ n - 1 \in 0 .. k + 1
        BY <3>2
      <4> QED
        BY <2>1, <4>1 DEF Runs
    <3> QED
      BY <3>1, <3>2
  <2> HIDE DEF g
  <2>7. Runs(g, k + 1, S, start, next)
    BY <2>4, <2>5, <2>6 DEF Runs
  <2> QED
    BY <2>2, <2>7
<1> HIDE DEF good
<1>3. good \in SUBSET (0 .. N)
  BY DEF good
<1>4. N \in good
  BY <1>1, <1>2, <1>3, UpTo
<1> QED
  BY <1>4 DEF good

\* What the definition of a function step by step chooses is what the steps come to.
IsRun(f, N, start, next) == f = [n \in 0 .. N |-> IF n = 0 THEN start ELSE next[n][f[n - 1]]]
LEMMA RunEnds ==
    ASSUME NEW N \in Nat, NEW S, NEW start \in S, NEW next \in [1 .. N -> [S -> S]]
    PROVE  /\ \E f : IsRun(f, N, start, next)
           /\ \A f : IsRun(f, N, start, next) => \A n \in 0 .. N : f[n] \in S
<1>1. \E f : IsRun(f, N, start, next)
  <2>1. PICK f : Runs(f, N, S, start, next)
    BY StepsRun
  <2>2. \A n \in 0 .. N : f[n] = IF n = 0 THEN start ELSE next[n][f[n - 1]]
    BY <2>1 DEF Runs
  <2> QED
    BY <2>1, <2>2 DEF IsRun, Runs
<1>2. ASSUME NEW f, IsRun(f, N, start, next) PROVE \A n \in 0 .. N : f[n] \in S
  <2> DEFINE good == {n \in 0 .. N : f[n] \in S}
  <2>1. \A n \in 0 .. N : f[n] = IF n = 0 THEN start ELSE next[n][f[n - 1]]
    BY <1>2 DEF IsRun
  <2>2. 0 \in good
    BY <2>1
  <2>3. ASSUME NEW n \in 0 .. N - 1, n \in good PROVE n + 1 \in good
    <3>1. n + 1 \in 1 .. N /\ n + 1 \in 0 .. N /\ n + 1 # 0 /\ n + 1 - 1 = n
      OBVIOUS
    <3>2. f[n + 1] = next[n + 1][f[n]]
      BY <2>1, <3>1
    <3> QED
      BY <2>3, <3>1, <3>2
  <2> HIDE DEF good
  <2>4. good \in SUBSET (0 .. N)
    BY DEF good
  <2>5. good = 0 .. N
    BY <2>2, <2>3, <2>4, UpTo
  <2> QED
    BY <2>5 DEF good
<1> QED
  BY <1>1, <1>2

-----------------------------------------------------------------------------
(* One cluster per release.                                                *)

Grouped(grouped) ==
    /\ DOMAIN grouped \subseteq Keys
    /\ \A k \in DOMAIN grouped : grouped[k].fields["catalogue"] \in Names \union {Null}
Numbered(grouped, k) == grouped[k].fields["catalogue"] # Null
OneRelease(grouped, c) ==
    \A j, k \in c : Numbered(grouped, j) /\ Numbered(grouped, k) =>
        grouped[j].fields["catalogue"] = grouped[k].fields["catalogue"]

\* Clusters of some keys: each key is in one, and no cluster is of two releases.
Apart(grouped, clusters, keys) ==
    /\ UNION clusters = keys
    /\ {} \notin clusters
    /\ \A c, d \in clusters : c \intersect d # {} => c = d
    /\ \A c \in clusters : OneRelease(grouped, c)

LEMMA OneNumber ==
    ASSUME NEW T, IsFiniteSet(T)
    PROVE  Cardinality(T) <= 1 <=> \A t, u \in T : t = u
<1>1. ASSUME \A t, u \in T : t = u PROVE Cardinality(T) <= 1
  <2>1. CASE T = {}
    BY <2>1, FS_EmptySet
  <2>2. CASE T # {}
    <3>1. \E t : T = {t}
      BY <1>1, <2>2
    <3> QED
      BY <3>1, FS_Singleton
  <2> QED
    BY <2>1, <2>2
<1> QED
  BY <1>1, AtMostOne

LEMMA FewNumbers ==
    ASSUME NEW grouped, Grouped(grouped), NEW c \in SUBSET DOMAIN grouped
    PROVE  Cardinality(CataloguesOf(grouped, c)) > 1 <=> ~OneRelease(grouped, c)
<1> DEFINE T == CataloguesOf(grouped, c)
<1>1. T \subseteq Names
  BY DEF CataloguesOf, Grouped
<1>2. IsFiniteSet(T) /\ Cardinality(T) \in Nat
  BY <1>1, NamesAssumption, FS_Subset, FS_CardinalityType
<1>3. (\A t, u \in T : t = u) <=> OneRelease(grouped, c)
  BY DEF CataloguesOf, OneRelease, Numbered
<1> HIDE DEF T
<1>4. Cardinality(T) <= 1 <=> OneRelease(grouped, c)
  BY <1>2, <1>3, OneNumber
<1> QED
  BY <1>2, <1>4 DEF T

\* A union keeps them apart.
LEMMA UnionApart ==
    ASSUME NEW grouped, Grouped(grouped), NEW keys \in SUBSET DOMAIN grouped, NEW clusters, Apart(grouped, clusters, keys),
           NEW j \in keys, NEW k \in keys
    PROVE  Apart(grouped, Union(grouped, clusters, <<j, k>>), keys)
<1>1. PICK a, b : a = ClusterOf(clusters, j) /\ b = ClusterOf(clusters, k)
  OBVIOUS
<1>2. a \in clusters /\ j \in a
  <2>1. \E c \in clusters : j \in c
    BY DEF Apart
  <2> QED
    BY <1>1, <2>1 DEF ClusterOf
<1>3. b \in clusters /\ k \in b
  <2>1. \E c \in clusters : k \in c
    BY DEF Apart
  <2> QED
    BY <1>1, <2>1 DEF ClusterOf
<1>4. Union(grouped, clusters, <<j, k>>) =
        IF Cardinality(CataloguesOf(grouped, a \union b)) > 1 THEN clusters ELSE (clusters \ {a, b}) \union {a \union b}
  BY <1>1 DEF Union
<1>5. CASE OneRelease(grouped, a \union b)
  <2> DEFINE joined == (clusters \ {a, b}) \union {a \union b}
  <2>1. a \union b \in SUBSET DOMAIN grouped
    BY <1>2, <1>3 DEF Apart
  <2>2. Union(grouped, clusters, <<j, k>>) = joined
    BY <1>4, <1>5, <2>1, FewNumbers
  <2>3. UNION joined = keys
    <3>1. UNION clusters = keys
      BY DEF Apart
    <3>2. ASSUME NEW x \in keys PROVE x \in UNION joined
      <4>1. PICK c \in clusters : x \in c
        BY <3>1
      <4>2. CASE c \in {a, b}
        <5>1. x \in a \union b /\ a \union b \in joined
          BY <4>1, <4>2
        <5> QED
          BY <5>1
      <4>3. CASE c \notin {a, b}
        BY <4>1, <4>3
      <4> QED
        BY <4>2, <4>3
    <3>3. ASSUME NEW c \in joined, NEW x \in c PROVE x \in keys
      BY <1>2, <1>3, <3>1
    <3> QED
      BY <3>2, <3>3
  <2>4. {} \notin joined
    BY <1>2 DEF Apart
  <2>5. \A c, d \in joined : c \intersect d # {} => c = d
    <3>1. \A c \in clusters \ {a, b} : c \intersect (a \union b) = {}
      BY <1>2, <1>3 DEF Apart
    <3> QED
      BY <3>1 DEF Apart
  <2>6. \A c \in joined : OneRelease(grouped, c)
    BY <1>5 DEF Apart
  <2> HIDE DEF joined
  <2>7. Apart(grouped, joined, keys)
    BY ONLY <2>3, <2>4, <2>5, <2>6 DEF Apart
  <2> QED
    BY ONLY <2>2, <2>7
<1>6. CASE ~OneRelease(grouped, a \union b)
  <2>1. a \union b \in SUBSET DOMAIN grouped
    BY <1>2, <1>3 DEF Apart
  <2> QED
    BY <1>4, <1>6, <2>1, FewNumbers
<1> QED
  BY <1>5, <1>6

AllApart(grouped, keys) == {clusters \in SUBSET SUBSET keys : Apart(grouped, clusters, keys)}

LEMMA JoinApart ==
    ASSUME NEW grouped, Grouped(grouped), NEW block \in SUBSET DOMAIN grouped, block # {},
           NEW clusters \in AllApart(grouped, block), NEW keys \in SUBSET block
    PROVE  Join(grouped, clusters, keys) \in AllApart(grouped, block)
<1> DEFINE last == Max(DOMAIN grouped)
           next == [k \in 1 .. last |-> [c \in AllApart(grouped, block) |-> JoinNext(grouped, c, keys, k)]]
<1>1. last \in Nat
  <2>1. DOMAIN grouped \in SUBSET Nat /\ DOMAIN grouped # {} /\ IsFiniteSet(DOMAIN grouped)
    BY KeysAssumption, FS_Subset DEF Grouped
  <2> QED
    BY <2>1, GreatestOf
<1>2. ASSUME NEW k, NEW c \in AllApart(grouped, block) PROVE JoinNext(grouped, c, keys, k) \in AllApart(grouped, block)
  <2>1. CASE k \in keys \ {Min(keys)}
    <3>1. keys \in SUBSET Nat /\ keys # {}
      BY <2>1, KeysAssumption DEF Grouped
    <3>2. Min(keys) \in block /\ k \in block
      BY <2>1, <3>1, LeastOf
    <3>3. Apart(grouped, Union(grouped, c, <<Min(keys), k>>), block)
      BY <3>2, UnionApart DEF AllApart
    <3>4. Union(grouped, c, <<Min(keys), k>>) \in SUBSET SUBSET block
      BY <3>3 DEF Apart
    <3> QED
      BY <2>1, <3>3, <3>4 DEF JoinNext, AllApart
  <2>2. CASE k \notin keys \ {Min(keys)}
    BY <2>2 DEF JoinNext
  <2> QED
    BY <2>1, <2>2
<1>3. next \in [1 .. last -> [AllApart(grouped, block) -> AllApart(grouped, block)]]
  BY <1>2
<1> DEFINE Joins(f) == f = [k \in 0 .. last |-> IF k = 0 THEN clusters ELSE JoinNext(grouped, f[k - 1], keys, k)]
<1>4. ASSUME NEW f, Joins(f) PROVE f[last] \in AllApart(grouped, block)
  <2> DEFINE good == {n \in 0 .. last : f[n] \in AllApart(grouped, block)}
  <2> HIDE DEF last
  <2>1. \A n \in 0 .. last : f[n] = IF n = 0 THEN clusters ELSE JoinNext(grouped, f[n - 1], keys, n)
    BY <1>4
  <2>2. 0 \in good
    BY <1>1, <2>1
  <2>3. ASSUME NEW n \in 0 .. last - 1, n \in good PROVE n + 1 \in good
    <3>1. n + 1 \in 0 .. last /\ n + 1 # 0 /\ n + 1 - 1 = n
      BY <1>1
    <3>2. f[n + 1] = JoinNext(grouped, f[n], keys, n + 1)
      BY <2>1, <3>1
    <3>3. f[n] \in AllApart(grouped, block)
      BY <2>3
    <3>4. f[n + 1] \in AllApart(grouped, block)
      BY <1>2, <3>2, <3>3
    <3> QED
      BY <3>1, <3>4
  <2>4. good \in SUBSET (0 .. last)
    OBVIOUS
  <2> HIDE DEF good
  <2>5. last \in good
    BY <1>1, <2>2, <2>3, <2>4, UpTo
  <2> QED
    BY <2>5 DEF good
<1>5. \E f : Joins(f)
  <2> HIDE DEF last, next
  <2>1. PICK f : IsRun(f, last, clusters, next)
    BY <1>1, <1>3, RunEnds
  <2>2. \A n \in 0 .. last : f[n] \in AllApart(grouped, block)
    BY <1>1, <1>3, <2>1, RunEnds
  <2>3. ASSUME NEW n \in 0 .. last, n # 0 PROVE next[n][f[n - 1]] = JoinNext(grouped, f[n - 1], keys, n)
    <3>1. n \in 1 .. last /\ n - 1 \in 0 .. last
      BY <1>1, <2>3
    <3>2. f[n - 1] \in AllApart(grouped, block)
      BY <2>2, <3>1
    <3> QED
      BY <3>1, <3>2 DEF next
  <2>4. f = [k \in 0 .. last |-> IF k = 0 THEN clusters ELSE JoinNext(grouped, f[k - 1], keys, k)]
    BY <2>1, <2>3 DEF IsRun
  <2> QED
    BY <2>4
<1>6. Join(grouped, clusters, keys) = (CHOOSE f : Joins(f))[last]
  BY DEF Join
<1> QED
  <2> HIDE DEF last, Joins
  <2>1. Joins(CHOOSE f : Joins(f))
    BY <1>5
  <2> QED
    BY <1>4, <1>6, <2>1

LEMMA BlockApart ==
    ASSUME NEW grouped, Grouped(grouped), NEW block \in SUBSET DOMAIN grouped, block # {}
    PROVE  ClusterBlock(grouped, block) \in AllApart(grouped, block)
<1> DEFINE performers == PerformersMet(grouped, block)
           last == Cardinality(Names)
           start == {{k} : k \in block}
           next == [n \in 1 .. last |-> [c \in AllApart(grouped, block) |-> ClusterNext(grouped, block, performers, c, n)]]
           Clusters(f) == f = [n \in 0 .. last |->
                               IF n = 0 THEN start ELSE ClusterNext(grouped, block, performers, f[n - 1], n)]
<1>1. last \in Nat
  BY NamesAssumption, FS_CardinalityType
<1>2. start \in AllApart(grouped, block)
  BY DEF AllApart, Apart, OneRelease
<1>3. ASSUME NEW n, NEW c \in AllApart(grouped, block)
      PROVE  ClusterNext(grouped, block, performers, c, n) \in AllApart(grouped, block)
  <2>1. Performing(grouped, block, performers[n][1]) \in SUBSET block
    BY DEF Performing
  <2> HIDE DEF performers
  <2> QED
    BY <2>1, JoinApart DEF ClusterNext
<1>4. ASSUME NEW f, Clusters(f) PROVE f[last] \in AllApart(grouped, block)
  <2> DEFINE good == {n \in 0 .. last : f[n] \in AllApart(grouped, block)}
  <2> HIDE DEF last, start, performers
  <2>1. \A n \in 0 .. last : f[n] = IF n = 0 THEN start ELSE ClusterNext(grouped, block, performers, f[n - 1], n)
    BY <1>4
  <2>2. 0 \in good
    BY <1>1, <1>2, <2>1
  <2>3. ASSUME NEW n \in 0 .. last - 1, n \in good PROVE n + 1 \in good
    <3>1. n + 1 \in 0 .. last /\ n + 1 # 0 /\ n + 1 - 1 = n
      BY <1>1
    <3>2. f[n + 1] = ClusterNext(grouped, block, performers, f[n], n + 1)
      BY <2>1, <3>1
    <3>3. f[n] \in AllApart(grouped, block)
      BY <2>3
    <3>4. f[n + 1] \in AllApart(grouped, block)
      BY <1>3, <3>2, <3>3
    <3> QED
      BY <3>1, <3>4
  <2>4. good \in SUBSET (0 .. last)
    OBVIOUS
  <2> HIDE DEF good
  <2>5. last \in good
    BY <1>1, <2>2, <2>3, <2>4, UpTo
  <2> QED
    BY <2>5 DEF good
<1>5. \E f : Clusters(f)
  <2>1. next \in [1 .. last -> [AllApart(grouped, block) -> AllApart(grouped, block)]]
    BY <1>3
  <2> HIDE DEF last, next, start, performers
  <2>2. PICK f : IsRun(f, last, start, next)
    BY <1>1, <1>2, <2>1, RunEnds
  <2>3. \A n \in 0 .. last : f[n] \in AllApart(grouped, block)
    BY <1>1, <1>2, <2>1, <2>2, RunEnds
  <2>4. ASSUME NEW n \in 0 .. last, n # 0
        PROVE  next[n][f[n - 1]] = ClusterNext(grouped, block, performers, f[n - 1], n)
    <3>1. n \in 1 .. last /\ n - 1 \in 0 .. last
      BY <1>1, <2>4
    <3>2. f[n - 1] \in AllApart(grouped, block)
      BY <2>3, <3>1
    <3> QED
      BY <3>1, <3>2 DEF next
  <2>5. f = [n \in 0 .. last |-> IF n = 0 THEN start ELSE ClusterNext(grouped, block, performers, f[n - 1], n)]
    BY <2>2, <2>4 DEF IsRun
  <2> QED
    BY <2>5
<1>6. ClusterBlock(grouped, block) = (CHOOSE f : Clusters(f))[last]
  BY DEF ClusterBlock
<1> QED
  <2> HIDE DEF last, Clusters
  <2>1. Clusters(CHOOSE f : Clusters(f))
    BY <1>5
  <2> QED
    BY <1>4, <1>6, <2>1

\* The clusters of all the keys.
LEMMA RecordingsApart ==
    ASSUME NEW grouped, Grouped(grouped)
    PROVE  Apart(grouped, ClusterRecordings(grouped), DOMAIN grouped)
<1> DEFINE titled == {k \in DOMAIN grouped : grouped[k].fields["title"] # Null}
           alone == {{k} : k \in DOMAIN grouped \ titled}
           blocked == UNION {ClusterBlock(grouped, Block(grouped, k)) : k \in titled}
           Kin(j, k) == SourceOf[j] = SourceOf[k] /\ grouped[j].fields["title"] = grouped[k].fields["title"]
<1>1. ClusterRecordings(grouped) = alone \union blocked
  BY DEF ClusterRecordings
<1>2. ASSUME NEW k \in titled
      PROVE  /\ Block(grouped, k) \in SUBSET titled /\ k \in Block(grouped, k)
             /\ Apart(grouped, ClusterBlock(grouped, Block(grouped, k)), Block(grouped, k))
  <2>1. Block(grouped, k) \in SUBSET titled /\ k \in Block(grouped, k) /\ Block(grouped, k) \in SUBSET DOMAIN grouped
    BY DEF Block
  <2>2. ClusterBlock(grouped, Block(grouped, k)) \in AllApart(grouped, Block(grouped, k))
    BY <2>1, BlockApart
  <2> QED
    BY <2>1, <2>2 DEF AllApart
<1>3. ASSUME NEW j \in titled, NEW k \in titled, Block(grouped, j) \intersect Block(grouped, k) # {}
      PROVE  Block(grouped, j) = Block(grouped, k)
  BY <1>3 DEF Block
<1>4. ASSUME NEW c \in blocked
      PROVE  \E k \in titled : c \in ClusterBlock(grouped, Block(grouped, k)) /\ c \subseteq Block(grouped, k)
  <2>1. PICK k \in titled : c \in ClusterBlock(grouped, Block(grouped, k))
    OBVIOUS
  <2> QED
    BY <1>2, <2>1 DEF Apart
<1>5. UNION blocked = titled
  <2>1. ASSUME NEW c \in blocked, NEW x \in c PROVE x \in titled
    BY <1>2, <1>4
  <2>2. ASSUME NEW x \in titled PROVE x \in UNION blocked
    <3>1. PICK c \in ClusterBlock(grouped, Block(grouped, x)) : x \in c
      BY <1>2 DEF Apart
    <3>2. c \in blocked
      BY <3>1
    <3> QED
      BY <3>1, <3>2
  <2> QED
    BY <2>1, <2>2
<1>6. ASSUME NEW c \in blocked, NEW d \in blocked, c \intersect d # {} PROVE c = d
  <2>1. PICK j \in titled : c \in ClusterBlock(grouped, Block(grouped, j)) /\ c \subseteq Block(grouped, j)
    BY <1>4
  <2>2. PICK k \in titled : d \in ClusterBlock(grouped, Block(grouped, k)) /\ d \subseteq Block(grouped, k)
    BY <1>4
  <2>3. Block(grouped, j) = Block(grouped, k)
    BY <1>3, <1>6, <2>1, <2>2
  <2> QED
    BY <1>2, <1>6, <2>1, <2>2, <2>3 DEF Apart
<1>7. ASSUME NEW c \in blocked PROVE c # {} /\ OneRelease(grouped, c)
  <2>1. PICK k \in titled : c \in ClusterBlock(grouped, Block(grouped, k))
    BY <1>4
  <2>2. Apart(grouped, ClusterBlock(grouped, Block(grouped, k)), Block(grouped, k))
    BY <1>2
  <2> HIDE DEF blocked, titled
  <2> QED
    BY <2>1, <2>2 DEF Apart
<1>8. \A c \in alone : c # {} /\ OneRelease(grouped, c) /\ \E k \in DOMAIN grouped \ titled : c = {k}
  BY DEF OneRelease
<1>9. UNION alone = DOMAIN grouped \ titled
  OBVIOUS
<1> HIDE DEF alone, blocked
<1>10. titled \subseteq DOMAIN grouped
  OBVIOUS
<1> HIDE DEF titled
<1>11. UNION (alone \union blocked) = DOMAIN grouped
  BY <1>5, <1>9, <1>10
<1>12. \A c \in alone, d \in blocked : c \intersect d = {}
  BY <1>5, <1>8
<1>13. \A c, d \in alone : c \intersect d # {} => c = d
  BY <1>8
<1>14. \A c, d \in alone \union blocked : c \intersect d # {} => c = d
  BY <1>6, <1>12, <1>13
<1>15. {} \notin alone \union blocked /\ \A c \in alone \union blocked : OneRelease(grouped, c)
  BY <1>7, <1>8
<1> QED
  BY <1>1, <1>11, <1>14, <1>15 DEF Apart

-----------------------------------------------------------------------------
(* What a release is made of.                                              *)

LEMMA FullestIsOfIt ==
    ASSUME NEW grouped, Grouped(grouped), NEW cluster \in SUBSET DOMAIN grouped, cluster # {}
    PROVE  Fullest(grouped, cluster) \in cluster
<1> DEFINE counts == {Filled(grouped, k) : k \in cluster}
           fullest == {k \in cluster : \A j \in cluster : Filled(grouped, j) <= Filled(grouped, k)}
           all == 0 .. Cardinality(Fields)
<1>1. IsFiniteSet(Fields) /\ Cardinality(Fields) \in Nat
  BY FieldsAssumption, FS_CardinalityType
<1>2. ASSUME NEW k \in cluster PROVE Filled(grouped, k) \in all
  <2> DEFINE given == {f \in Fields : grouped[k].fields[f] # Null}
  <2>1. given \subseteq Fields
    OBVIOUS
  <2> HIDE DEF given
  <2>2. Cardinality(given) \in Nat /\ Cardinality(given) <= Cardinality(Fields)
    BY <1>1, <2>1, FS_Subset, FS_CardinalityType
  <2>3. Filled(grouped, k) = Cardinality(given)
    BY DEF Filled, given
  <2> QED
    BY <1>1, <2>2, <2>3
<1>3. IsFiniteSet(all) /\ all \in SUBSET Nat
  BY <1>1, FS_Interval
<1>4. counts \in SUBSET all /\ counts # {}
  BY <1>2
<1> HIDE DEF all, counts
<1>5. Max(counts) \in counts /\ \A n \in counts : n <= Max(counts)
  <2>1. IsFiniteSet(counts)
    BY <1>3, <1>4, FS_Subset
  <2> QED
    BY <1>3, <1>4, <2>1, GreatestOf
<1>6. PICK k \in cluster : Filled(grouped, k) = Max(counts)
  BY <1>5 DEF counts
<1>7. k \in fullest
  BY <1>5, <1>6 DEF counts
<1>8. fullest \in SUBSET Nat /\ fullest # {}
  BY <1>7, KeysAssumption DEF Grouped
<1>9. Min(fullest) \in fullest
  <2> HIDE DEF fullest
  <2> QED
    BY <1>8, LeastOf
<1> QED
  BY <1>9 DEF Fullest

\* Rows of recordings, each of another mention: what a page says is said by one of its mentions.
RecordingRows(rows) ==
    /\ DOMAIN rows \in SUBSET Nat
    /\ \A i \in DOMAIN rows : rows[i] = <<rows[i][1], rows[i][2]>> /\ rows[i][2] \in RecordingPayload
    /\ \A i, j \in DOMAIN rows : rows[i][1] = rows[j][1] => i = j

LEMMA GroupedRows ==
    ASSUME NEW rows, RecordingRows(rows)
    PROVE  /\ Grouped(GroupRecordings(rows))
           /\ DOMAIN GroupRecordings(rows) = KeysIn(rows)
           /\ \A k \in KeysIn(rows) :
                /\ GroupRecordings(rows)[k].mentions = {rows[i][1] : i \in At(rows, k)}
                /\ At(rows, k) # {}
                /\ \E i \in At(rows, k) : GroupRecordings(rows)[k].fields = rows[i][2].fields
<1> DEFINE grouped == GroupRecordings(rows)
<1>1. DOMAIN grouped = KeysIn(rows)
  BY DEF GroupRecordings
<1>2. ASSUME NEW k \in KeysIn(rows)
      PROVE  /\ grouped[k].mentions = {rows[i][1] : i \in At(rows, k)}
             /\ grouped[k].fields = rows[Min(At(rows, k))][2].fields
  BY DEF GroupRecordings
<1>3. ASSUME NEW k \in KeysIn(rows) PROVE At(rows, k) # {} /\ Min(At(rows, k)) \in At(rows, k)
  <2>1. At(rows, k) # {} /\ At(rows, k) \in SUBSET Nat
    BY DEF KeysIn, At, RecordingRows
  <2> QED
    BY <2>1, LeastOf
<1>4. ASSUME NEW p \in RecordingPayload PROVE p.key \in Keys /\ p.fields["catalogue"] \in Names \union {Null}
  BY PayloadAssumption, FieldsAssumption DEF Payload
<1>5. KeysIn(rows) \subseteq Keys
  BY <1>4 DEF KeysIn, RecordingRows
<1>6. ASSUME NEW k \in KeysIn(rows) PROVE grouped[k].fields["catalogue"] \in Names \union {Null}
  <2>1. PICK i \in DOMAIN rows : grouped[k].fields = rows[i][2].fields
    BY <1>2, <1>3 DEF At
  <2>2. rows[i][2] \in RecordingPayload
    BY DEF RecordingRows
  <2> QED
    BY <1>4, <2>1, <2>2
<1> HIDE DEF grouped
<1>7. Grouped(grouped)
  BY <1>1, <1>5, <1>6 DEF Grouped
<1> QED
  BY <1>1, <1>2, <1>3, <1>7 DEF grouped

\* Releases that share a mention, or a key, are one.
Distinct(releases) ==
    \A r, s \in releases : r.mentions \intersect s.mentions # {} \/ r.key = s.key => r = s

LEMMA ReleasesDistinct ==
    ASSUME NEW rows, RecordingRows(rows)
    PROVE  Distinct(Releases(GroupRecordings(rows)))
<1> DEFINE grouped == GroupRecordings(rows)
           clusters == ClusterRecordings(grouped)
<1>1. /\ Grouped(grouped) /\ DOMAIN grouped = KeysIn(rows)
      /\ \A k \in KeysIn(rows) : grouped[k].mentions = {rows[i][1] : i \in At(rows, k)}
  BY GroupedRows
<1>2. Apart(grouped, clusters, DOMAIN grouped)
  <2> HIDE DEF grouped
  <2> QED
    BY <1>1, RecordingsApart
<1> HIDE DEF grouped, clusters
<1>3. ASSUME NEW c \in clusters
      PROVE  /\ MergeCluster(grouped, c).key \in c
             /\ MergeCluster(grouped, c).mentions = UNION {grouped[k].mentions : k \in c}
             /\ c \in SUBSET DOMAIN grouped
  <2>1. c \in SUBSET DOMAIN grouped /\ c # {}
    BY <1>2 DEF Apart
  <2>2. Fullest(grouped, c) \in c
    BY <1>1, <2>1, FullestIsOfIt
  <2>3. MergeCluster(grouped, c).key = Fullest(grouped, c)
    BY DEF MergeCluster
  <2>4. MergeCluster(grouped, c).mentions = UNION {grouped[k].mentions : k \in c}
    BY DEF MergeCluster
  <2> QED
    BY <2>1, <2>2, <2>3, <2>4
<1>4. ASSUME NEW j \in KeysIn(rows), NEW k \in KeysIn(rows), grouped[j].mentions \intersect grouped[k].mentions # {}
      PROVE  j = k
  <2>1. PICK i \in At(rows, j), l \in At(rows, k) : rows[i][1] = rows[l][1]
    BY <1>1, <1>4
  <2>2. i = l
    BY <2>1 DEF At, RecordingRows
  <2> QED
    BY <2>2 DEF At
<1>5. ASSUME NEW c \in clusters, NEW d \in clusters,
             \/ MergeCluster(grouped, c).mentions \intersect MergeCluster(grouped, d).mentions # {}
             \/ MergeCluster(grouped, c).key = MergeCluster(grouped, d).key
      PROVE  c = d
  <2>1. c \intersect d # {}
    <3>1. CASE MergeCluster(grouped, c).key = MergeCluster(grouped, d).key
      BY <1>3, <3>1
    <3>2. CASE MergeCluster(grouped, c).mentions \intersect MergeCluster(grouped, d).mentions # {}
      <4>1. PICK j \in c, k \in d : grouped[j].mentions \intersect grouped[k].mentions # {}
        BY <1>3, <3>2
      <4>2. j = k
        BY <1>1, <1>3, <1>4, <4>1
      <4> QED
        BY <4>2
    <3> QED
      BY <1>5, <3>1, <3>2
  <2> QED
    BY <1>2, <2>1 DEF Apart
<1>6. Releases(grouped) = {MergeCluster(grouped, c) : c \in clusters}
  BY DEF Releases, clusters
<1>7. Distinct(Releases(grouped))
  BY <1>5, <1>6 DEF Distinct
<1> QED
  BY <1>7 DEF grouped

\* What the pages of one release say their numbers are, when the mentions of a page agree.
RowsAgree(rows) ==
    \A i, j \in DOMAIN rows : rows[i][2].key = rows[j][2].key =>
        rows[i][2].fields["catalogue"] = rows[j][2].fields["catalogue"]
LEMMA ReleaseHasOneNumber ==
    ASSUME NEW rows, RecordingRows(rows), RowsAgree(rows), NEW r \in Releases(GroupRecordings(rows))
    PROVE  /\ \A m \in r.mentions : \E i \in DOMAIN rows : rows[i][1] = m
           /\ \A i, j \in DOMAIN rows :
                rows[i][1] \in r.mentions /\ rows[j][1] \in r.mentions
                    /\ rows[i][2].fields["catalogue"] # Null /\ rows[j][2].fields["catalogue"] # Null
                => rows[i][2].fields["catalogue"] = rows[j][2].fields["catalogue"]
<1> DEFINE grouped == GroupRecordings(rows)
           clusters == ClusterRecordings(grouped)
<1>1. /\ Grouped(grouped) /\ DOMAIN grouped = KeysIn(rows)
      /\ \A k \in KeysIn(rows) :
            /\ grouped[k].mentions = {rows[i][1] : i \in At(rows, k)}
            /\ \E i \in At(rows, k) : grouped[k].fields = rows[i][2].fields
  BY GroupedRows
<1>2. Apart(grouped, clusters, DOMAIN grouped)
  <2> HIDE DEF grouped
  <2> QED
    BY <1>1, RecordingsApart
<1>3. PICK c \in clusters : r = MergeCluster(grouped, c)
  BY DEF Releases
<1> HIDE DEF grouped, clusters
<1>4. r.mentions = UNION {grouped[k].mentions : k \in c}
  BY <1>3 DEF MergeCluster
<1>5. c \subseteq KeysIn(rows) /\ OneRelease(grouped, c)
  BY <1>1, <1>2 DEF Apart
<1>6. ASSUME NEW i \in DOMAIN rows, rows[i][1] \in r.mentions
      PROVE  \E k \in c : grouped[k].fields["catalogue"] = rows[i][2].fields["catalogue"]
  <2>1. PICK k \in c : rows[i][1] \in grouped[k].mentions
    BY <1>4, <1>6
  <2>2. PICK l \in At(rows, k) : rows[l][1] = rows[i][1]
    BY <1>1, <1>5, <2>1
  <2>3. l = i /\ rows[i][2].key = k
    BY <2>2 DEF At, RecordingRows
  <2>4. PICK h \in At(rows, k) : grouped[k].fields = rows[h][2].fields
    BY <1>1, <1>5
  <2>5. rows[h][2].fields["catalogue"] = rows[i][2].fields["catalogue"]
    BY <2>3, <2>4 DEF At, RowsAgree
  <2> QED
    BY <2>4, <2>5
<1>7. ASSUME NEW m \in r.mentions PROVE \E i \in DOMAIN rows : rows[i][1] = m
  BY <1>1, <1>4, <1>5 DEF At
<1>8. ASSUME NEW i \in DOMAIN rows, NEW j \in DOMAIN rows, rows[i][1] \in r.mentions, rows[j][1] \in r.mentions,
             rows[i][2].fields["catalogue"] # Null, rows[j][2].fields["catalogue"] # Null
      PROVE  rows[i][2].fields["catalogue"] = rows[j][2].fields["catalogue"]
  <2>1. PICK k \in c : grouped[k].fields["catalogue"] = rows[i][2].fields["catalogue"]
    BY <1>6, <1>8
  <2>2. PICK l \in c : grouped[l].fields["catalogue"] = rows[j][2].fields["catalogue"]
    BY <1>6, <1>8
  <2> QED
    BY <1>5, <1>8, <2>1, <2>2 DEF OneRelease, Numbered
<1> QED
  BY <1>7, <1>8

\* The rows a pass reads are such rows.
LEMMA RowsOfMentions ==
    ASSUME NEW rows \in RowOrders(mentions, RecordingPayload)
    PROVE  /\ RecordingRows(rows)
           /\ \A i \in DOMAIN rows : rows[i][1] \in Sighted /\ rows[i][2] = mentions[rows[i][1]].payload
<1> DEFINE T == {m \in Mentions : mentions[m] # Nothing /\ mentions[m].payload \in RecordingPayload}
<1>1. PICK order \in SetToSeqs(T) : rows = [i \in DOMAIN order |-> <<order[i], mentions[order[i]].payload>>]
  BY DEF RowOrders
<1>2. Cardinality(T) \in Nat
  BY MentionsAssumption, FS_Subset, FS_CardinalityType
<1>3. /\ order \in [1 .. Cardinality(T) -> T]
      /\ \A i, j \in 1 .. Cardinality(T) : i # j => order[i] # order[j]
  <2> HIDE DEF T
  <2> QED
    BY DEF SetToSeqs
<1>4. /\ DOMAIN rows = 1 .. Cardinality(T)
      /\ \A i \in DOMAIN rows : rows[i] = <<order[i], mentions[order[i]].payload>> /\ order[i] \in T
  <2> HIDE DEF T
  <2> QED
    BY <1>1, <1>3
<1>5. \A m \in T : m \in Sighted /\ mentions[m].payload \in RecordingPayload
  BY DEF Sighted
<1> HIDE DEF T
<1> QED
  BY <1>2, <1>3, <1>4, <1>5 DEF RecordingRows

\* Whom its credits name does not change what a recording is of.
LEMMA CreditedIsOf ==
    ASSUME NEW S, NEW rows, RecordingRows(rows), NEW e \in DeriveRecordings(S, rows)
    PROVE  \E r \in Releases(GroupRecordings(rows)) :
                e = Credited(S, r) /\ e.mentions = r.mentions /\ e.key = r.key
<1>1. PICK r \in Releases(GroupRecordings(rows)) : e = Credited(S, r)
  BY DEF DeriveRecordings
<1>2. PICK c : r = MergeCluster(GroupRecordings(rows), c)
  BY DEF Releases
<1>3. Credited(S, r).mentions = r.mentions /\ Credited(S, r).key = r.key
  BY <1>2 DEF Credited, MergeCluster
<1> QED
  BY <1>1, <1>3

LEMMA DerivedDistinct ==
    ASSUME NEW S, NEW rows, RecordingRows(rows)
    PROVE  Distinct(DeriveRecordings(S, rows))
<1> SUFFICES ASSUME NEW d \in DeriveRecordings(S, rows), NEW e \in DeriveRecordings(S, rows),
                    d.mentions \intersect e.mentions # {} \/ d.key = e.key
             PROVE  d = e
  BY DEF Distinct
<1>1. PICK r \in Releases(GroupRecordings(rows)) : d = Credited(S, r) /\ d.mentions = r.mentions /\ d.key = r.key
  BY CreditedIsOf
<1>2. PICK s \in Releases(GroupRecordings(rows)) : e = Credited(S, s) /\ e.mentions = s.mentions /\ e.key = s.key
  BY CreditedIsOf
<1>3. r = s
  BY <1>1, <1>2, ReleasesDistinct DEF Distinct
<1> QED
  BY <1>1, <1>2, <1>3

LEMMA StaysDistinct == Distinct(recordings) /\ [Next]_vars => Distinct(recordings)'
<1> SUFFICES ASSUME Distinct(recordings), [Next]_vars PROVE Distinct(recordings')
  OBVIOUS
<1>1. ASSUME NEW p, Pass(p) PROVE Distinct(recordings')
  <2>1. CASE Recordings
    <3>1. PICK rows \in RowOrders(mentions, RecordingPayload) : recordings' = DeriveRecordings(minted, rows)
      BY <2>1 DEF Recordings
    <3> QED
      BY <3>1, RowsOfMentions, DerivedDistinct
  <2>2. CASE ~Recordings
    <3>1. recordings' = recordings
      BY <1>1, <2>2 DEF Pass, Relink, FoldWorks, LinkWorks, LinkWorkEntities, Concerts
    <3> QED
      BY <3>1
  <2> QED
    BY <2>1, <2>2
<1>2. ASSUME UNCHANGED derived PROVE Distinct(recordings')
  BY <1>2 DEF derived
<1> QED
  BY <1>1, <1>2 DEF Next, Begin, RunPass, Publish, Stop, Alone, Mint, Sight, Loaded, vars

\* No page is on two recordings at any moment; and once nothing is stale and the mentions of
\* each page agree on its number, no recording holds two catalogue numbers.
THEOREM ReleasesApart == Spec => []ReleasesStayApart
<1>1. Init => Distinct(recordings)
  BY DEF Init, Distinct
<1>2. IInv /\ Distinct(recordings) => ReleasesStayApart
  <2> SUFFICES ASSUME IInv, Distinct(recordings), NEW r \in recordings
               PROVE  /\ fresh /\ PagesAgree => Cardinality({CatalogueOf(m) : m \in r.mentions} \ {Null}) <= 1
                      /\ \A s \in recordings \ {r} : r.mentions \intersect s.mentions = {} /\ r.key # s.key
    BY DEF ReleasesStayApart
  <2>1. \A s \in recordings \ {r} : r.mentions \intersect s.mentions = {} /\ r.key # s.key
    BY DEF Distinct
  <2>2. ASSUME fresh, PagesAgree PROVE Cardinality({CatalogueOf(m) : m \in r.mentions} \ {Null}) <= 1
    <3> DEFINE T == {CatalogueOf(m) : m \in r.mentions} \ {Null}
    <3>1. PICK rows \in RowOrders(mentions, RecordingPayload) : recordings = DeriveRecordings(minted, rows)
      BY <2>2 DEF IInv, Done
    <3>2. /\ RecordingRows(rows)
          /\ \A i \in DOMAIN rows : rows[i][1] \in Sighted /\ rows[i][2] = mentions[rows[i][1]].payload
      BY RowsOfMentions
    <3>3. RowsAgree(rows)
      <4> SUFFICES ASSUME NEW i \in DOMAIN rows, NEW j \in DOMAIN rows, rows[i][2].key = rows[j][2].key
                   PROVE  rows[i][2].fields["catalogue"] = rows[j][2].fields["catalogue"]
        BY DEF RowsAgree
      <4>1. rows[i][2] \in RecordingPayload /\ rows[j][2] \in RecordingPayload
        BY <3>2 DEF RecordingRows
      <4> QED
        BY <2>2, <3>2, <4>1 DEF PagesAgree, CatalogueOf
    <3>4. PICK e \in Releases(GroupRecordings(rows)) : r.mentions = e.mentions
      BY <3>1, <3>2, CreditedIsOf
    <3>5. ASSUME NEW m \in r.mentions
          PROVE  \E i \in DOMAIN rows : rows[i][1] \in e.mentions /\ rows[i][1] = m
                    /\ CatalogueOf(m) = rows[i][2].fields["catalogue"] /\ rows[i][2] \in RecordingPayload
      <4>1. PICK i \in DOMAIN rows : rows[i][1] = m
        BY <3>2, <3>3, <3>4, ReleaseHasOneNumber
      <4> QED
        BY <3>2, <3>4, <4>1 DEF CatalogueOf, RecordingRows
    <3>6. T \subseteq Names
      BY <3>5, PayloadAssumption, FieldsAssumption DEF Payload
    <3>7. \A t, u \in T : t = u
      <4> SUFFICES ASSUME NEW t \in T, NEW u \in T PROVE t = u
        OBVIOUS
      <4>1. PICK m \in r.mentions, n \in r.mentions : t = CatalogueOf(m) /\ u = CatalogueOf(n) /\ t # Null /\ u # Null
        OBVIOUS
      <4>2. PICK i \in DOMAIN rows : rows[i][1] \in e.mentions /\ t = rows[i][2].fields["catalogue"]
        BY <3>5, <4>1
      <4>3. PICK j \in DOMAIN rows : rows[j][1] \in e.mentions /\ u = rows[j][2].fields["catalogue"]
        BY <3>5, <4>1
      <4> QED
        BY <3>2, <3>3, <4>1, <4>2, <4>3, ReleaseHasOneNumber
    <3> HIDE DEF T
    <3>8. IsFiniteSet(T)
      BY <3>6, NamesAssumption, FS_Subset
    <3>9. Cardinality(T) <= 1
      BY <3>7, <3>8, OneNumber
    <3> QED
      BY <3>9 DEF T
  <2> QED
    BY <2>1, <2>2
<1> QED
  BY <1>1, <1>2, StaysDistinct, Invariant, PTL DEF Spec

=============================================================================
