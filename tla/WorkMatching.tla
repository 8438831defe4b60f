---------------------------- MODULE WorkMatching ----------------------------
(***************************************************************************)
(* When a mention is of a work that is already known (works/match.py), and *)
(* which of two premiere dates stands (composer_schema/premiere.py).       *)
(*                                                                         *)
(* Scores are percentages.  What extract_features reads out of the text of *)
(* a title is the constant TitleFeatures; what its source states beside    *)
(* the title comes with the document.  Composers and titles are numbers,   *)
(* because the code orders works by title and composers by id.             *)
(***************************************************************************)
EXTENDS Integers, Sequences, FiniteSets, FiniteSetsExt, Functions

CONSTANTS
    Composers,      \* person entities
    Titles,         \* title keys, in their order as text
    Schemes,        \* identifier schemes: catalogues and external ids
    ExternalSchemes,\* wikidata, musicbrainz, iswc
    Values,         \* numbers, and sets of numbers (ranges, lists)
    Derivations,    \* part, arrangement, version
    Original,       \* the title names no derivation
    Opuses,         \* opus numbers; 0 is none
    TitleFeatures,  \* what a title says
    Ratio           \* difflib's similarity of two core titles, key and type weighed in

Nobody == 0
NoNumber == 0
Identifiers == Schemes \X Values

Features ==
    [title : Titles, ids : SUBSET Identifiers, derivation : Derivations \union {Original},
     parents : SUBSET Identifiers, opus : Opuses \union {0}, number : Nat]

ASSUME ComposersAssumption == Composers \subseteq Nat \ {Nobody} /\ IsFiniteSet(Composers)
ASSUME TitlesAssumption == Titles \subseteq Nat
ASSUME SchemesAssumption == ExternalSchemes \subseteq Schemes
ASSUME OpusesAssumption == Opuses \subseteq Nat \ {0}
ASSUME OriginalAssumption == Original \notin Derivations
ASSUME TitleFeaturesAssumption ==
    /\ TitleFeatures \in [Titles -> Features]
    /\ \A t \in Titles : TitleFeatures[t].title = t
    /\ \A t \in Titles : TitleFeatures[t].derivation # Original => TitleFeatures[t].ids = {}
ASSUME RatioAssumption == Ratio \in [Titles \X Titles -> 0..100]

AutoThreshold == 90
ReviewThreshold == 60

-----------------------------------------------------------------------------
(* Identifiers settle most pairs.                                          *)

Undecided == -1

SchemesOf(ids) == {i[1] : i \in ids}
ValuesIn(ids, scheme) == {i[2] : i \in {j \in ids : j[1] = scheme}}

\* A scheme both number, with no value in common.
Conflict(a, b) ==
    \E s \in SchemesOf(a) \intersect SchemesOf(b) : ValuesIn(a, s) \intersect ValuesIn(b, s) = {}

DerivationScore(a, b) ==
    IF a.derivation # b.derivation \/ Conflict(a.parents, b.parents) THEN 5 ELSE Undecided

StrongScore(a, b) ==
    LET shared == SchemesOf(a.ids \intersect b.ids)
    IN  CASE shared \intersect ExternalSchemes # {} -> 99
          [] shared # {} /\ shared \intersect ExternalSchemes = {} -> 97
          [] shared = {} /\ Conflict(a.ids, b.ids) -> 5
          [] OTHER -> Undecided

OpusScore(a, b) ==
    CASE a.opus = 0 \/ b.opus = 0 -> Undecided
      [] a.opus # 0 /\ b.opus # 0 /\ a.opus # b.opus -> 10
      [] a.opus # 0 /\ a.opus = b.opus ->
            IF a.number # NoNumber /\ b.number # NoNumber /\ a.number # b.number THEN 15 ELSE 92

Settles(score, otherwise) == IF score # Undecided THEN score ELSE otherwise

\* Mutant: a shared number settles the pair before anybody asks what is derived from what.
IdentifierScoreNumbersFirst(a, b) ==
    Settles(StrongScore([a EXCEPT !.ids = a.ids \union a.parents], [b EXCEPT !.ids = b.ids \union b.parents]),
            OpusScore(a, b))

IdentifierScore(a, b) ==
    IF a.derivation # Original \/ b.derivation # Original THEN DerivationScore(a, b)
    ELSE Settles(StrongScore(a, b), OpusScore(a, b))

TitleScore(a, b) ==
    LET numbered == a.number # NoNumber /\ b.number # NoNumber
        ratio == Ratio[<<a.title, b.title>>]
    IN  CASE numbered /\ a.number # b.number -> ratio \div 2
          [] numbered /\ a.number = b.number -> IF ratio > 95 THEN 100 ELSE ratio + 5
          [] ~numbered -> ratio

Score(a, b) == Settles(IdentifierScore(a, b), TitleScore(a, b))

-----------------------------------------------------------------------------
(* Candidates: the works known, each with its composer, its features and   *)
(* its place in the list, in which they were read or made.                 *)

NoMatch == [score |-> 0, work |-> 0]

\* The first of the best; nothing that scores 0 is a match.
BestMatch(f, candidates) ==
    LET score == [w \in DOMAIN candidates |-> Score(f, candidates[w].features)]
        first == {w \in DOMAIN candidates :
            /\ score[w] > 0
            /\ \A v \in DOMAIN candidates \ {w} :
                score[v] < score[w] \/ (score[v] = score[w] /\ candidates[w].at < candidates[v].at)}
    IN  IF first = {} THEN NoMatch
        ELSE [score |-> score[CHOOSE w \in first : TRUE], work |-> CHOOSE w \in first : TRUE]

Classify(score) ==
    CASE score >= AutoThreshold -> "auto_matched"
      [] score >= ReviewThreshold /\ score < AutoThreshold -> "needs_review"
      [] score < ReviewThreshold -> "created"

\* What a work accumulates joins its features.
WithIdentifiers(f, ids) == [f EXCEPT !.ids = f.ids \union ids]

\* Mutant: the work a mention was matched to does not learn its numbers.
RefreshCandidateNever(candidates, work, ids) == candidates

RefreshCandidate(candidates, work, ids) ==
    [w \in DOMAIN candidates |->
        IF w = work THEN [candidates[w] EXCEPT !.features = WithIdentifiers(@, ids)] ELSE candidates[w]]

Put(f, k, v) == [x \in DOMAIN f \union {k} |-> IF x = k THEN v ELSE f[x]]

\* At the end of the list.
Enlist(candidates, work, composer, f) ==
    Put(candidates, work,
        [composer |-> composer, features |-> f, at |-> 1 + Max({0} \union {candidates[w].at : w \in DOMAIN candidates})])

-----------------------------------------------------------------------------
(* Premieres are dates at the precision the source states.                 *)

NoDate == <<>>

EarlierParts(a, b) ==
    \E i \in DOMAIN a \intersect DOMAIN b : a[i] < b[i] /\ \A j \in 1 .. i - 1 : a[j] = b[j]

\* Mutant: the more precise of two dates always wins.
SupersedesByPrecision(new, current) ==
    Len(new) > Len(current) \/ (Len(new) = Len(current) /\ EarlierParts(new, current))

Supersedes(new, current) ==
    \/ current = NoDate
    \/ EarlierParts(new, current)
    \/ (~EarlierParts(current, new) /\ Len(new) > Len(current))

=============================================================================
