---------------------------- MODULE IndexSources ----------------------------
(***************************************************************************)
(* The sources that read an index or a dump: classicfm, openopus,          *)
(* classicalmusiconline and the Concertgebouw archive.                     *)
(***************************************************************************)
EXTENDS Crawl

CONSTANTS
  Letters,   \* the letters of the alphabet, in order
  Years      \* what reads as a plain year; "16??" does not

-----------------------------------------------------------------------------
(* classicfm: two index pages of [path, name] entries, both fetched before *)
(* anything is yielded. The first entry of a path that has a name counts.  *)

ParseEntries(entries) ==
  LET named == SelectSeq(entries, LAMBDA e : e.name # "")
      paths == FirstOccurrences([n \in DOMAIN named |-> named[n].path])
  IN  [n \in DOMAIN paths |-> FirstOf(named, LAMBDA e : e.path = paths[n])]

ClassicFmIndex(c, entries, claims, max) ==
  Each(c, ParseEntries(entries), LAMBDA a, e :
    IF a.read >= max THEN Return(a)
    ELSE Count(Emit(a, <<Person(e.path, e.name, claims, e.path)>>)))

ClassicFmScrape(net, c, max) ==
  Page(net, c, <<"composers">>, LAMBDA a, composers :
    Page(net, a, <<"artists">>, LAMBDA b, artists :
      LET told == ClassicFmIndex(b, composers, Composing, max)
      IN  IF Going(told) THEN ClassicFmIndex(told, artists, {}, max) ELSE told))

-----------------------------------------------------------------------------
(* openopus: one dump, or an answer without a composers list. A date is    *)
(* <<year, day>>; 1 January is the site's padding for a bare year.         *)

OpenOpusYear(date) ==
  IF date = Nothing THEN Nothing ELSE IF date[2] = "01-01" THEN <<date[1]>> ELSE date

OpenOpusComposer(composer) ==
  << Person(<<composer.name>>, composer.name,
            Composing \union Claims("born_on", {OpenOpusYear(composer.birth)} \ {Nothing})
                      \union Claims("died_on", {OpenOpusYear(composer.death)} \ {Nothing})
                      \union Claim("associated_period", composer.epoch),
            Nothing) >>
  \o Collect(composer.works, LAMBDA title : title # "",
             LAMBDA title : Mention(<<composer.name, title>>, title, composer.name, Nothing))

(* A nameless composer is passed over before the cap is looked at.         *)
OpenOpusScrape(net, c, max) ==
  Page(net, c, <<"dump">>, LAMBDA a, dump :
    IF dump.composers = Nothing THEN Raise(a)
    ELSE Each(a, dump.composers, LAMBDA b, composer :
           IF composer.name = "" THEN b
           ELSE IF b.read >= max THEN Break(b)
           ELSE Count(Emit(b, OpenOpusComposer(composer)))))

-----------------------------------------------------------------------------
(* classicalmusiconline: an index row is [id, name, spans, url], a span    *)
(* holding life dates or a country; dates are <<"born", year>>, or the two *)
(* ends of a range, or one vague word.                                     *)

SpanOf(row, life) ==
  LET span == FirstOf(row.spans, LAMBDA s : s.life = life)
  IN  IF span = Nothing THEN <<>> ELSE span.text

Year(text) == IF text \in Years THEN text ELSE Nothing

ParseLifeYears(dates) ==
  IF Len(dates) < 2 THEN [born |-> Nothing, died |-> Nothing]
  ELSE IF dates[1] = "born" THEN [born |-> Year(dates[2]), died |-> Nothing]
  ELSE [born |-> Year(dates[1]), died |-> Year(dates[2])]

IndexRecord(row) ==
  LET years == ParseLifeYears(SpanOf(row, TRUE))
  IN  Person(row.id, row.name,
             Composing \union Claim("born_on", years.born) \union Claim("died_on", years.died)
               \union {<<"citizen_of", t>> : t \in ToSet(SpanOf(row, FALSE))},
             <<"composer", row.id>>)

(* The id of a work without a production link is derived from the composer *)
(* and the title.                                                          *)
IterWorkMentions(rows, composer) ==
  Collect(rows, LAMBDA row : row.title # "",
          LAMBDA row : Mention(IF row.production = Nothing
                               THEN <<composer.id, row.title>> ELSE <<row.production>>,
                               row.title, composer.name, <<"composer", composer.id>>))

(* iter_index_entries keeps the rows with a name; iter_composers reads     *)
(* each composer once, whichever letters list them.                        *)
ReadComposer(net, c, row, max) ==
  IF row.id \in c.seen THEN c
  ELSE TryPage(net, See(c, row.id), <<"composer", row.id>>, Always, LAMBDA b, rows :
         LET told == Count(Emit(b, <<IndexRecord(row)>> \o IterWorkMentions(rows, row)))
         IN  IF told.read >= max THEN Return(told) ELSE told)

ClassicalMusicOnlineScrape(net, c, max) ==
  Each(c, Letters, LAMBDA a, letter :
    Page(net, a, <<"index", letter>>, LAMBDA b, rows :
      Each(b, SelectSeq(rows, LAMBDA row : row.name # ""),
           LAMBDA d, row : ReadComposer(net, d, row, max))))

-----------------------------------------------------------------------------
(* concertgebouw_archive: the search page has a dropdown per profession    *)
(* (or has lost it), the list view one table row per work and per further  *)
(* soloist. An option is [value, name, tail]: the tail is what the label   *)
(* has in parentheses, life years or a discipline.                         *)

Selects == << <<"componistcode", "composer">>, <<"dirigentcode", "conductor">>,
              <<"solistcode", "soloist">> >>

OptionRecord(select, profession, option) ==
  Person(<<select, option.value>>, option.name,
         {<<"has_profession", profession>>}
           \union (CASE select = "componistcode" ->
                          Claim("born_on", option.tail.born) \union Claim("died_on", option.tail.died)
                     [] select = "solistcode" -> Claim("performs_as", option.tail.discipline)
                     [] OTHER -> {}),
         Nothing)

(* The first option, of value 0, is the placeholder.                       *)
OptionRecords(select, options) ==
  Collect(options, LAMBDA o : o.value # "0" /\ o.name # "",
          LAMBDA o : OptionRecord(select[1], select[2], o))

(* A row with a date opens a concert, a row with a title a work of it, and *)
(* the soloists of the rows up to the next title are the work's.           *)
WorkRows(rows) == SelectSeq([k \in DOMAIN rows |-> k], LAMBDA k : rows[k].title # "")

ListedConcert(rows, k) ==
  LET dated == {j \in 1 .. k : rows[j].date # ""}
  IN  IF dated = {} THEN "" ELSE rows[Max(dated)].date

ListedSoloists(rows, k) ==
  {rows[j].soloist : j \in {j \in k .. Len(rows) :
                              \A i \in k + 1 .. j : rows[i].title = ""}} \ {""}

Performances(rows) ==
  LET works == WorkRows(rows)
  IN  [n \in DOMAIN works |->
         MentionOf(<<"perf", n - 1>>, rows[works[n]].title, rows[works[n]].composer,
                   {<<"date", ListedConcert(rows, works[n])>>}
                     \union {<<"soloist", s>> : s \in ListedSoloists(rows, works[n])},
                   Nothing)]

ConcertgebouwScrape(net, c, max) ==
  Page(net, c, <<"search">>, LAMBDA a, search :
    Page(net, a, <<"list">>, LAMBDA b, list :
      LET people == Each(b, Selects, LAMBDA d, select :
                      IF search[select[1]] = Nothing THEN Raise(d)
                      ELSE Emit(d, OptionRecords(select, search[select[1]])))
      IN  IF ~Going(people) THEN people
          ELSE IF list = Nothing THEN Raise(people)
          ELSE Emit(people, Performances(list))))
=============================================================================
