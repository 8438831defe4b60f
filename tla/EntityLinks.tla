----------------------------- MODULE EntityLinks -----------------------------
(***************************************************************************)
(* Which entity a name means (places.py, genres.py, ensembles/anchor.py),  *)
(* and which work a work is a part, arrangement or version of              *)
(* (works/links.py): functions of what silver holds.                       *)
(*                                                                         *)
(* Names are the keys the passes compare: case, accents, articles and      *)
(* "orchester" against "orchestra" are folded away before this module.     *)
(***************************************************************************)
EXTENDS Naturals, FiniteSets, Sequences

CONSTANTS
    Names,
    Items,          \* Wikidata items
    NoItem,
    Entities,
    Entity,         \* what a source says of each entity
    Members,        \* the numbers a set of catalogue numbers stands for; {} for a single one
    Wikidata,       \* the scheme of Wikidata items
    Original        \* a work that derives from no other

Kinds == {"place", "genre", "movement", "ensemble", "person", "work"}
Description ==
    [kind : Kinds, name : Names, item : Items \union {NoItem}, aliases : SUBSET Names,
     cities : SUBSET Names, spells : SUBSET Names, subset : BOOLEAN]

ASSUME EntityAssumption == Entity \in [Entities -> Description]
ASSUME EntitiesAssumption == IsFiniteSet(Entities)

\* Of genres and movements only Wikidata names aliases (wikidata/genres.py:432), and what it
\* names is keyed on its item.
ASSUME AliasesAssumption ==
    \A e \in Entities :
        Entity[e].kind \in {"genre", "movement"} /\ Entity[e].aliases # {} => Entity[e].item # NoItem

OfKind(S, kind) == {e \in S : Entity[e].kind = kind}
Pinned(S, kind) == {e \in OfKind(S, kind) : Entity[e].item # NoItem}
Bare(S, kind) == OfKind(S, kind) \ Pinned(S, kind)
Named(S, name) == {e \in S : Entity[e].name = name}
Known(S, name) == {e \in S : name \in Entity[e].aliases}

\* Two things a name could mean are none.
Only(targets) == IF Cardinality(targets) = 1 THEN targets ELSE {}

-----------------------------------------------------------------------------
(* <<bare entity, the pinned one it is>>                                   *)

LinkPlaces(S) ==
    UNION {{e} \X Only(Named(Pinned(S, "place"), Entity[e].name)) : e \in Bare(S, "place")}

\* Mutant: where a label is ambiguous an alias decides.
GenreMeantLoosely(S, kind, name) ==
    LET labelled == Named(Pinned(S, kind), name)
    IN  IF Cardinality(labelled) = 1 THEN labelled ELSE Only(Known(OfKind(S, kind), name))

\* A label wins over an alias.
GenreMeant(S, kind, name) ==
    LET labelled == Named(Pinned(S, kind), name)
    IN  Only(IF labelled # {} THEN labelled ELSE Known(OfKind(S, kind), name))

LinkGenres(S) ==
    UNION {UNION {{e} \X GenreMeant(S, kind, Entity[e].name) : e \in Bare(S, kind)} : kind \in {"genre", "movement"}}

Anchors(S, name) ==
    LET anchors == Pinned(S, "ensemble") IN Named(anchors, name) \union Known(anchors, name)

\* The names exactly one anchor has.
AliasIndex(S, name) == Only(Anchors(S, name))

\* Anchors that share a name are told apart by the city the name spells out.
AnchorMeant(S, e) ==
    LET candidates == Anchors(S, Entity[e].name)
    IN  IF Cardinality(candidates) > 1
        THEN Only({c \in candidates : Entity[c].cities \intersect Entity[e].spells # {}})
        ELSE candidates

\* "Members of the Wiener Philharmoniker" are not the Wiener Philharmoniker.
AnchorEnsembles(S) ==
    UNION {{e} \X AnchorMeant(S, e) : e \in {b \in Bare(S, "ensemble") : ~Entity[b].subset}}

-----------------------------------------------------------------------------
(* <<work, the work it belongs to>>.  A work is [derivation, ids, parents]; *)
(* works is a function on the works of one canonical composer.             *)

Originals(works) == {w \in DOMAIN works : works[w].derivation = Original}

\* A derived work and the one original that holds one of its parent's numbers.
CatalogueLinks(works) ==
    UNION {{d} \X Only({w \in Originals(works) : works[w].ids \intersect works[d].parents # {}})
            : d \in DOMAIN works \ Originals(works)}

Singles(work) == {id \in work.ids : Members[id[2]] = {}}
SetsHolding(work, ids) ==
    {s \in work.ids : Cardinality(Members[s[2]]) > 1 /\ \E id \in ids : id[1] = s[1] /\ id[2] \in Members[s[2]]}

\* Of the sets of a work that hold a number, the smallest.
SmallestSet(work, ids) ==
    LET size(s) == Cardinality(Members[s[2]])
        smallest == CHOOSE s \in SetsHolding(work, ids) : \A t \in SetsHolding(work, ids) : size(s) <= size(t)
    IN  {smallest[1]} \X Members[smallest[2]]

\* The one work whose set lies inside every other set that holds a number of w.
Encloses(works, w, t) ==
    LET holding == {v \in Originals(works) \ {w} : SetsHolding(works[v], Singles(works[w])) # {}}
        members(v) == SmallestSet(works[v], Singles(works[w]))
    IN  /\ t \in holding
        /\ \A v \in holding \ {t} : members(t) \subseteq members(v) /\ members(t) # members(v)

RangeLinks(works) ==
    {l \in Originals(works) \X Originals(works) : Encloses(works, l[1], l[2])}

\* A Wikidata work that is part of an item, and the one other work with that item.
\* stated holds <<work, item it is part of>>; works is on every work.
WikidataLinks(works, stated) ==
    UNION {{s[1]} \X Only({w \in DOMAIN works \ {s[1]} : <<Wikidata, s[2]>> \in works[w].ids}) : s \in stated}

=============================================================================
