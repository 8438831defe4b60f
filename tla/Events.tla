------------------------------- MODULE Events --------------------------------
(***************************************************************************)
(* Concerts and recordings out of the payloads of work mentions            *)
(* (concerts/derive.py, recordings/derive.py, recordings/cluster.py).      *)
(*                                                                         *)
(* rows is the sequence of <<mention, payload>> the query returned; it is  *)
(* in no order the query asks for.  Keys are numbers: the order of (source,*)
(* external key) pairs.                                                    *)
(***************************************************************************)
EXTENDS EntityLinks, SequencesExt

CONSTANTS
    Keys,           \* external keys, each of one source
    SourceOf,       \* the source of a key
    Fields,         \* the fields of a release or concert
    Null,
    Performer,      \* a printed name without its honorifics
    RecordingPayload,
    ConcertPayload  \* what a source may say of one work of a recording, or of a concert

Roles == {"conductor", "soloist", "ensemble", "performer"}

\* fields: a value or Null for each; credits: <<name, role, discipline>> in the payload's order.
Payload(p) ==
    /\ p.key \in Keys /\ p.fields \in [Fields -> Names \union {Null}]
    /\ \A i \in DOMAIN p.credits : p.credits[i][1] \in Names /\ p.credits[i][2] \in Roles

ASSUME KeysAssumption == Keys \subseteq Nat /\ IsFiniteSet(Keys)
ASSUME FieldsAssumption == {"title", "catalogue"} \subseteq Fields /\ IsFiniteSet(Fields)
ASSUME NamesAssumption == IsFiniteSet(Names)
ASSUME PayloadAssumption ==
    /\ \A p \in RecordingPayload \union ConcertPayload : Payload(p)
    /\ RecordingPayload \intersect ConcertPayload = {}

-----------------------------------------------------------------------------
(* Grouping: the first mention of a key supplies its fields.               *)

RowsOf(rows, key) == SelectSeq(rows, LAMBDA r : r[2].key = key)
KeysIn(rows) == {rows[i][2].key : i \in DOMAIN rows}
At(rows, key) == {i \in DOMAIN rows : rows[i][2].key = key}
CreditsOf(rows) == FlattenSeq([i \in DOMAIN rows |-> rows[i][2].credits])

\* Of the credits of one name in one role, the first; a soloist's first discipline that is given.
ConcertCredit(credits, name, role) ==
    LET same == SelectSeq(credits, LAMBDA c : c[1] = name /\ c[2] = role)
        given == SelectSeq(same, LAMBDA c : c[3] # Null)
    IN  IF given = <<>> THEN same[1] ELSE given[1]

GroupConcerts(rows) ==
    [key \in KeysIn(rows) |->
        LET own == RowsOf(rows, key)
            credits == CreditsOf(own)
        IN  [fields |-> own[1][2].fields,
             credits |-> {ConcertCredit(credits, c[1], c[2]) : c \in {credits[i] : i \in DOMAIN credits}},
             mentions |-> {own[i][1] : i \in DOMAIN own}]]

\* The first credit of each name, in order.
FirstCredits(credits) ==
    LET first(i) == \A j \in 1 .. i - 1 : credits[j][1] # credits[i][1]
        indices == SelectSeq([i \in DOMAIN credits |-> i], first)
    IN  [n \in DOMAIN indices |-> credits[indices[n]]]

GroupRecordings(rows) ==
    [key \in KeysIn(rows) |->
        [fields |-> rows[Min(At(rows, key))][2].fields,
         credits |-> FirstCredits(CreditsOf(RowsOf(rows, key))),
         mentions |-> {rows[i][1] : i \in At(rows, key)}]]

-----------------------------------------------------------------------------
(* One cluster per release.                                                *)

CataloguesOf(grouped, cluster) == {grouped[k].fields["catalogue"] : k \in cluster} \ {Null}

ClusterOf(clusters, k) == CHOOSE c \in clusters : k \in c

\* Mutant: releases join whatever their catalogue numbers.
UnionAnyway(grouped, clusters, pair) ==
    LET a == ClusterOf(clusters, pair[1])
        b == ClusterOf(clusters, pair[2])
    IN  (clusters \ {a, b}) \union {a \union b}

\* Two catalogue numbers are two releases.
Union(grouped, clusters, pair) ==
    LET a == ClusterOf(clusters, pair[1])
        b == ClusterOf(clusters, pair[2])
    IN  IF Cardinality(CataloguesOf(grouped, a \union b)) > 1 THEN clusters
        ELSE (clusters \ {a, b}) \union {a \union b}

\* The keys of one source and title, and the performers in the order they are met.
Block(grouped, key) ==
    {k \in DOMAIN grouped : /\ SourceOf[k] = SourceOf[key]
                            /\ grouped[k].fields["title"] = grouped[key].fields["title"]}

PerformersMet(grouped, block) ==
    LET keys == SetToSortSeq(block, <)
        met(k) == [n \in DOMAIN grouped[k].credits |-> <<Performer[grouped[k].credits[n][1]]>>]
    IN  FirstCredits(FlattenSeq([i \in DOMAIN keys |-> met(keys[i])]))

Performing(grouped, block, performer) ==
    {k \in block : \E i \in DOMAIN grouped[k].credits : Performer[grouped[k].credits[i][1]] = performer}

\* The first of some keys with each later one.
JoinNext(grouped, clusters, keys, k) ==
    IF k \in keys \ {Min(keys)} THEN Union(grouped, clusters, <<Min(keys), k>>) ELSE clusters
Join(grouped, clusters, keys) ==
    LET last == Max(DOMAIN grouped)
        joined[k \in 0 .. last] == IF k = 0 THEN clusters ELSE JoinNext(grouped, joined[k - 1], keys, k)
    IN  joined[last]

\* The keys that share a performer, one performer after the other.
ClusterNext(grouped, block, performers, clusters, n) ==
    IF n \in DOMAIN performers THEN Join(grouped, clusters, Performing(grouped, block, performers[n][1]))
    ELSE clusters
ClusterBlock(grouped, block) ==
    LET performers == PerformersMet(grouped, block)
        after[n \in 0 .. Cardinality(Names)] ==
            IF n = 0 THEN {{k} : k \in block} ELSE ClusterNext(grouped, block, performers, after[n - 1], n)
    IN  after[Cardinality(Names)]

\* Untitled recordings stay on their own.
ClusterRecordings(grouped) ==
    LET titled == {k \in DOMAIN grouped : grouped[k].fields["title"] # Null}
    IN  {{k} : k \in DOMAIN grouped \ titled}
            \union UNION {ClusterBlock(grouped, Block(grouped, k)) : k \in titled}

\* Fullest first, then by key; the fullest names the release, the others fill its gaps.
Filled(grouped, k) == Cardinality({f \in Fields : grouped[k].fields[f] # Null})
Fullest(grouped, cluster) ==
    Min({k \in cluster : \A j \in cluster : Filled(grouped, j) <= Filled(grouped, k)})
MergeCluster(grouped, cluster) ==
    LET filled(k) == Filled(grouped, k)
        ordered == SetToSortSeq(cluster, LAMBDA j, k : filled(j) > filled(k) \/ (filled(j) = filled(k) /\ j < k))
        given(f) == SelectSeq(ordered, LAMBDA k : grouped[k].fields[f] # Null)
        credits == FlattenSeq([i \in DOMAIN ordered |-> grouped[ordered[i]].credits])
        first(i) == \A j \in 1 .. i - 1 : Performer[credits[j][1]] # Performer[credits[i][1]]
    IN  [key |-> Fullest(grouped, cluster),
         fields |-> [f \in Fields |-> IF given(f) = <<>> THEN Null ELSE grouped[given(f)[1]].fields[f]],
         credits |-> {credits[i] : i \in {n \in DOMAIN credits : first(n)}},
         mentions |-> UNION {grouped[k].mentions : k \in cluster}]

Releases(grouped) == {MergeCluster(grouped, c) : c \in ClusterRecordings(grouped)}

-----------------------------------------------------------------------------
(* Whom a credit names: people first, unless the credit is an ensemble's;  *)
(* an anchor's alias when no source ever made an entity of the name.       *)

Resolve(S, name, role) ==
    LET person == Named(Bare(S, "person"), name)
        ensemble == Named(Bare(S, "ensemble"), name)
        first == IF role = "ensemble" THEN ensemble ELSE person
        second == IF role = "ensemble" THEN person ELSE ensemble
    IN  CASE first # {} -> first
          [] first = {} /\ second # {} -> second
          [] first = {} /\ second = {} -> AliasIndex(S, name)

Credited(S, event) ==
    [event EXCEPT !.credits = {<<c, Resolve(S, c[1], c[2])>> : c \in event.credits}]

DeriveConcerts(S, rows) ==
    LET grouped == GroupConcerts(rows)
    IN  {Credited(S, [key |-> k, fields |-> grouped[k].fields, credits |-> grouped[k].credits,
                      mentions |-> grouped[k].mentions]) : k \in DOMAIN grouped}

DeriveRecordings(S, rows) == {Credited(S, r) : r \in Releases(GroupRecordings(rows))}

=============================================================================
