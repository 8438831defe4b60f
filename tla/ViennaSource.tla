---------------------------- MODULE ViennaSource ----------------------------
(***************************************************************************)
(* wienerphil: the archive's landing page states the number of concerts    *)
(* and the filter vocabularies, its fragments list the concerts, and every *)
(* concert has a detail page that labels who did what. A concert is read   *)
(* from its fragment and corrected by its detail page.                     *)
(***************************************************************************)
EXTENDS Crawl

CONSTANTS
  FragmentSize,    \* the concerts of one archive fragment
  Intermission,    \* the work slots that announce a pause
  Continuations,   \* the work slots that begin with a blank
  FullNames,       \* the names of at least two words
  Ensembles        \* what looks_like_ensemble accepts

-----------------------------------------------------------------------------
(* The fragment's two aligned attributes. Titles are sequences of slots: a *)
(* title with a semicolon in it spans several, and is recognised by the    *)
(* vocabulary of works (titles), at most MaxTitleFragments slots long.     *)

MaxTitleFragments == 4

WorkSlots(parts, titles) ==
  LET ends(n) == {e \in n + 1 .. Min({n + MaxTitleFragments - 1, Len(parts)}) : SubSeq(parts, n, e) \in titles}
      end(n) == IF ends(n) = {} THEN n ELSE Max(ends(n))
      from[n \in 1 .. Len(parts) + 1] ==
        IF n > Len(parts) THEN <<>> ELSE <<SubSeq(parts, n, end(n))>> \o from[end(n) + 1]
  IN  from[1]

(* _fold_continuations: a piece that begins with a blank goes on with the  *)
(* one before it.                                                          *)
FoldContinuations(pieces) ==
  FoldLeft(LAMBDA folded, piece :
             IF folded # <<>> /\ Head(piece) \in Continuations
             THEN Append(Front(folded), Last(folded) \o piece) ELSE Append(folded, piece),
           <<>>, pieces)

Pieces(works, titles, named) ==
  LET pieces == SelectSeq(WorkSlots(works, titles), LAMBDA p : Head(p) \notin Intermission)
  IN  IF Len(pieces) > named THEN FoldContinuations(pieces) ELSE pieces

(* The composer of a slot: its own, or the last one named before it; <<>>  *)
(* is an empty slot.                                                       *)
CarriedComposer(composers, n) ==
  LET named == {k \in 1 .. n : composers[k] # <<>>}
  IN  IF named = {} THEN Nothing ELSE composers[Max(named)]

(* programme: nobody is credited when the two attributes do not line up.   *)
Programme(composers, works, titles) ==
  LET pieces == Pieces(works, titles, Len(composers))
  IN  [n \in DOMAIN pieces |->
         [composer |-> IF Len(pieces) = Len(composers) THEN CarriedComposer(composers, n) ELSE Nothing,
          title |-> pieces[n]]]

(* A concert as its fragment states it; without link or date it is none.   *)
(* A performer neither credited nor an ensemble is a soloist of unknown    *)
(* discipline.                                                             *)
ListedConcertOf(block, titles) ==
  LET ensembles == SelectSeq(block.performers, LAMBDA p : p \in Ensembles)
      others == SelectSeq(block.performers,
                          LAMBDA p : p \notin {"None", ""} /\ p \notin ToSet(block.credits) \union Ensembles)
  IN  [id |-> block.id, conductors |-> block.credits, ensembles |-> ensembles,
       soloists |-> [n \in DOMAIN others |-> <<others[n], Nothing>>],
       programme |-> Programme(block.composers, block.works, titles)]

Concerts(fragment, titles) ==
  Collect(fragment, LAMBDA block : block.id # Nothing /\ block.date # "",
          LAMBDA block : ListedConcertOf(block, titles))

-----------------------------------------------------------------------------
(* The detail page: credits of [label, words, name], where words says what *)
(* the label consists of, and a programme whose spans alternate composers  *)
(* and works.                                                              *)

IsEnsembleCredit(k) == "ensemble" \in k.words \/ k.name \in Ensembles
IsConductorCredit(k) == ~IsEnsembleCredit(k) /\ "conductor" \in k.words
(* A label that says more than conducting credits a soloist as well.       *)
IsSoloistCredit(k) == ~IsEnsembleCredit(k) /\ k.words # {"conductor"}

DetailProgramme(spans) ==
  Collect([n \in DOMAIN spans |-> n],
          LAMBDA n : spans[n].class = "work" /\ spans[n].text # <<>>,
          LAMBDA n : LET named == {k \in 1 .. n : spans[k].class = "composer" /\ spans[k].text # <<>>}
                     IN  [composer |-> IF named = {} THEN Nothing ELSE spans[Max(named)].text,
                          title |-> spans[n].text])

Detail(page) ==
  [conductors |-> FirstOccurrences(Collect(page.credits, IsConductorCredit, LAMBDA k : k.name)),
   ensembles |-> FirstOccurrences(Collect(page.credits, IsEnsembleCredit, LAMBDA k : k.name)),
   soloists |-> FirstOccurrences(Collect(page.credits, IsSoloistCredit, LAMBDA k : <<k.name, k.label>>)),
   programme |-> DetailProgramme(page.spans)]

NamedIn(concert) ==
  ToSet(concert.conductors) \union ToSet(concert.ensembles) \union {s[1] : s \in ToSet(concert.soloists)}

(* merge: the detail page wins, and a performer it does not name stays.    *)
Merge(concert, detail) ==
  LET kept == SelectSeq(concert.soloists, LAMBDA s : s[1] \notin NamedIn(detail))
  IN  [id |-> concert.id,
       conductors |-> FirstOccurrences(concert.conductors \o detail.conductors),
       ensembles |-> FirstOccurrences(concert.ensembles \o detail.ensembles),
       soloists |-> FirstOccurrences(detail.soloists \o kept),
       programme |-> IF detail.programme = <<>> THEN concert.programme ELSE detail.programme]

-----------------------------------------------------------------------------
(* A composer's name is a sequence: several full names joined by commas    *)
(* credit several people, anything else is one name.                       *)
Credited(name) ==
  IF Len(name) > 1 /\ ToSet(name) \subseteq FullNames
  THEN LET each == FirstOccurrences(name) IN [n \in DOMAIN each |-> <<each[n]>>]
  ELSE <<name>>

Mentions(concert) ==
  [n \in DOMAIN concert.programme |->
     LET composer == concert.programme[n].composer
         named == IF composer = Nothing THEN <<>> ELSE Credited(composer)
     IN  MentionOf(<<"perf", concert.id, n - 1>>, concert.programme[n].title,
                   IF Len(named) = 1 THEN named[1] ELSE Nothing,
                   {<<"performer", p>> : p \in NamedIn(concert)}, <<"concert", concert.id>>)]

ComposerRecords(vocabulary) ==
  LET names == FirstOccurrences(Flat(Credited, SelectSeq(vocabulary, LAMBDA v : v # <<>>)))
  IN  [n \in DOMAIN names |-> Person(<<"komponist", names[n]>>, names[n], Composing, Nothing)]

(* What a performer is: an ensemble by name, or a conductor if any concert *)
(* says so, with the disciplines the concerts name.                        *)
PerformerRecord(name, concerts) ==
  IF name \in Ensembles THEN Entity("ensemble", <<"interpret", name>>, name, {}, Nothing)
  ELSE Person(<<"interpret", name>>, name,
              {<<"has_profession",
                 IF \E k \in concerts : name \in ToSet(k.conductors) THEN "conductor" ELSE "soloist">>}
                \union {<<"performs_as", s[2]>> :
                          s \in {s \in UNION {ToSet(k.soloists) : k \in concerts} :
                                   s[1] = name /\ s[2] \notin {Nothing, ""}}},
              Nothing)

People(landing, concerts) ==
  ComposerRecords(landing.komponist)
    \o Collect(landing.interpret, LAMBDA name : name # "",
               LAMBDA name : PerformerRecord(name, ToSet(concerts)))

-----------------------------------------------------------------------------
(* _concerts: fragments are asked for as they are needed; a detail page    *)
(* that is lost or has no programme block leaves the concert as listed.    *)

ReadArchived(net, c, concert, max) ==
  IF c.read >= max THEN Return(c)
  ELSE TryOrNothing(net, Count(c), <<"concert", concert.id>>, Always, LAMBDA b, page :
         LET read == IF page = Nothing \/ page.bare THEN concert ELSE Merge(concert, Detail(page))
         IN  Note(Emit(b, Mentions(read)), <<read>>))

PageCount(total) == (total + FragmentSize - 1) \div FragmentSize

WienerPhilScrape(net, c, max) ==
  Page(net, c, <<"archive">>, LAMBDA a, landing :
    IF landing.total = Nothing THEN Raise(a)
    ELSE LET read == Each(a, [n \in 1 .. PageCount(landing.total) |-> n], LAMBDA b, n :
                       Page(net, b, <<"fragment", n>>, LAMBDA d, fragment :
                         Each(d, Concerts(fragment, ToSet(landing.werk)), LAMBDA e, concert :
                           ReadArchived(net, e, concert, max))))
         IN  IF read.state \in {"going", "returned"}
             THEN Emit(read, People(landing, read.notes)) ELSE read)
=============================================================================
