---------------------------- MODULE ImslpSources ----------------------------
(***************************************************************************)
(* The three IMSLP sources: imslp (the people list), imslp_works (the work *)
(* list, with a detail page per work) and imslp_recordings (the pages of a *)
(* category, each embedding its commercial recordings). The last two ask   *)
(* for a work page at the same URL and so share its mirror entry.          *)
(***************************************************************************)
EXTENDS Crawl

CONSTANTS
  NotAPerformer,   \* credit roles that name no performer: librettist, arranger, ...
  Generic,         \* credit roles that say nothing: artist, other, ...
  SoundsEnsemble   \* what looks_like_ensemble accepts, names and role words alike

-----------------------------------------------------------------------------
(* imslp: rows are [id, name], the name being the category without its     *)
(* prefix; a page says whether more results are available.                 *)

ImslpPeople(rows) ==
  Collect(rows, LAMBDA row : row.name # "", LAMBDA row : Person(row.id, row.name, {}, Nothing))

ImslpScrape(net, c, max) ==
  Each(c, Counting, LAMBDA a, n :
    Page(net, a, <<"people", n>>, LAMBDA b, page :
      LET told == Count(Emit(b, ImslpPeople(page.rows)))
      IN  IF page.more /\ told.read < max THEN told ELSE Break(told)))

-----------------------------------------------------------------------------
(* imslp_works: a worklist row lacks what identifies a work, or is a       *)
(* [pageid, title, composer, number]. A title is a sequence whose last     *)
(* element may be the parenthesised composer.                              *)

WorkRow(entry) == Nothing \notin {entry.pageid, entry.composer, entry.title}

StripComposerSuffix(title, composer) ==
  IF Len(title) > 1 /\ Last(title) = composer THEN Front(title) ELSE title

(* A page's API answer has a document, or is an error or cut short.        *)
HasDocument(body) == body.form = "parsed"

(* The page's table, in page order: the first non-empty value of a label   *)
(* counts.                                                                 *)
LabelledValue(rows, label) ==
  LET found == FirstOf(rows, LAMBDA row : row.label = label /\ row.value # "")
  IN  IF found = Nothing THEN Nothing ELSE found.value

WorkClaims(row, rows) ==
  {<<"composed_by", row.composer>>}
    \union Claim("catalogue_number", row.number)
    \union Claim("has_scoring", LabelledValue(rows, "Instrumentation"))
    \union Claim("composed_in", LabelledValue(rows, "Year/Date of Composition"))
    \union Claim("has_key", LabelledValue(rows, "Key"))
    \union Claim("has_genre", LabelledValue(rows, "Genre Categories"))

WorkDocuments(row, body) ==
  LET rows == IF body # Nothing /\ HasDocument(body) THEN body.table ELSE <<>>
  IN  << Mention(row.title, StripComposerSuffix(row.title, row.composer), row.composer,
                 <<"work", row.pageid>>),
         Entity("work", row.title, row.title, WorkClaims(row, rows), <<"work", row.pageid>>) >>

(* _detail and iter_works: max_pages caps the pages tried, every row of    *)
(* the list is yielded.                                                    *)
ReadWork(net, c, row, max) ==
  IF c.read < max
  THEN TryOrNothing(net, Count(c), <<"work", row.pageid>>, HasDocument,
                    LAMBDA b, body : Emit(b, WorkDocuments(row, body)))
  ELSE Emit(c, WorkDocuments(row, Nothing))

ImslpWorksScrape(net, c, max) ==
  Each(c, Counting, LAMBDA a, n :
    Page(net, a, <<"worklist", n>>, LAMBDA b, page :
      LET told == Each(b, SelectSeq(page.rows, WorkRow), LAMBDA d, row : ReadWork(net, d, row, max))
      IN  IF Going(told) /\ ~page.more THEN Break(told) ELSE told))

-----------------------------------------------------------------------------
(* imslp_recordings: a credit is a name with the words of its role, an     *)
(* album is [aid, credits] and aid may be missing.                         *)

Disciplines(words) ==
  SelectSeq(words, LAMBDA w : w \notin NotAPerformer \union Generic \union SoundsEnsemble
                                         \union {"conductor", "soloist", "ensemble"})

(* _performer_role: Nothing drops the credit; an unlabelled or generic     *)
(* role leaves the person a mere performer.                                *)
PerformerRole(name, words) ==
  LET told == ToSet(words)
  IN  IF told # {} /\ told \subseteq NotAPerformer THEN Nothing
      ELSE IF "conductor" \in told THEN "conductor"
      ELSE IF Disciplines(words) # <<>> \/ "soloist" \in told THEN "soloist"
      ELSE IF "ensemble" \in told \/ ({name} \union told) \cap SoundsEnsemble # {} THEN "ensemble"
      ELSE "performer"

(* The plain soloist and the ensembles carry no discipline.                *)
Credits(album) ==
  Collect(album.credits,
          LAMBDA k : k.name # "" /\ PerformerRole(k.name, k.words) # Nothing,
          LAMBDA k : [name |-> k.name, spelt |-> k.spelt,
                      role |-> PerformerRole(k.name, k.words),
                      disciplines |-> ToSet(Disciplines(k.words))])

CommercialRecordings(body) == SelectSeq(body.albums, LAMBDA album : album.aid # Nothing)

(* Roster: one person per name however it is cased, in order of first      *)
(* credit; a group once is a group for good, a conductor once likewise.    *)
RosterPerson(credits, name) ==
  LET own == SelectSeq(credits, LAMBDA k : k.name = name)
      group == name \in SoundsEnsemble \/ \E k \in ToSet(own) : k.role = "ensemble"
      conducted == \E k \in ToSet(own) : k.role = "conductor"
      played == UNION {k.disciplines : k \in ToSet(own)}
  IN  Entity(IF group THEN "ensemble" ELSE "person", <<"names", own[1].spelt>>, own[1].spelt,
             (IF group THEN {} ELSE
                {<<"has_profession", IF conducted THEN "conductor" ELSE "soloist">>})
               \union {<<"performs_as", d>> : d \in played},
             Nothing)

Roster(credits) ==
  LET names == FirstOccurrences([n \in DOMAIN credits |-> credits[n].name])
  IN  [n \in DOMAIN names |-> RosterPerson(credits, names[n])]

(* split_page_title: only a parenthesis with a comma in it is a composer.  *)
SplitPageTitle(title) ==
  IF Len(title) > 1 THEN [title |-> Front(title), composer |-> Last(title)]
                    ELSE [title |-> title, composer |-> Nothing]

RecordingMentions(pageid, title, albums) ==
  [n \in DOMAIN albums |->
     Mention(<<pageid, albums[n].aid>>, SplitPageTitle(title).title,
             SplitPageTitle(title).composer, <<"work", pageid>>)]

(* iter_recording_pages and the loop over them: max_pages caps the pages   *)
(* read, and a page without recordings yields nothing.                     *)
ReadRecordingPage(net, c, pageid, max) ==
  IF c.read >= max THEN Return(c)
  ELSE TryPage(net, c, <<"work", pageid>>, HasDocument, LAMBDA b, body :
         IF ~HasDocument(body) THEN b
         ELSE LET albums == CommercialRecordings(body)
              IN  Note(Emit(Count(b), RecordingMentions(pageid, body.title, albums)),
                       Flat(Credits, albums)))

ImslpRecordingsScrape(net, c, max) ==
  LET walked == Each(c, Counting, LAMBDA a, n :
                  Page(net, a, <<"members", n>>, LAMBDA b, page :
                    LET told == Each(b, page.pageids, LAMBDA d, id : ReadRecordingPage(net, d, id, max))
                    IN  IF Going(told) /\ ~page.more THEN Break(told) ELSE told))
  IN  IF walked.state \in {"going", "returned"} THEN Emit(walked, Roster(walked.notes)) ELSE walked
=============================================================================
