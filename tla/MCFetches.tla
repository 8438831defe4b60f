----------------------------- MODULE MCFetches -----------------------------
(***************************************************************************)
(* Fetches on small sites, one per source, each in two versions of which   *)
(* the second lists something more. The first version of a site has what   *)
(* its source must cope with: records listed twice, rows without a name,   *)
(* a second page, somebody credited in two places. The second changes      *)
(* pages the mirror may hold as well.                                      *)
(***************************************************************************)
EXTENDS Fetches, TLC

MCLetters == << "a", "b" >>
MCYears == {"1685", "1750", "1885"}
MCNotAPerformer == {"librettist"}
MCGeneric == {"artist"}
MCEnsembleNames == {"vienna choir", "choir"}
MCGroupNames == {<<"vienna", "choir">>}
MCGroupRoles == {"orchestra"}
MCUnnamed == {<<"anonymous">>}
MCProduction == {"producer"}
MCAuthoring == {"composer", "librettist"}
MCNotPerforming == {"chorus master"}
MCNotADiscipline == {"conductor", "composer", "orchestra", "producer"}
MCIntermission == {"pause"}
MCContinuations == {" suite"}
MCFullNames == {"johann strauss", "josef strauss"}
MCCategoryFor == ("violin" :> "violin") @@ ("oboe" :> "oboe") @@ ("string quartet" :> "string quartet")
                   @@ ("strings" :> "strings")
MCMembersOf == ("string quartet" :> {"violin", "viola", "cello"})
MCNonMusicTypes == {"Book"}
MCFloors == ("class" :> 1) @@ ("genre" :> 1) @@ ("name" :> 1)
MCPlaceTypes == << "city", "country" >>
MCTypePriority == << "choir", "orchestra" >>
MCTypeFromName == ("vienna choir" :> "choir")
MCExpand == ("string quartet" :> {"violin", "viola", "cello"})
MCEnsembleCategories == {"string quartet"}
MCSections == {"strings"}
MCQualifiers == {"original"}
MCSynonyms == (<<"music">> :> <<"composer">>)
MCProfessions == (<<"composer">> :> "composer") @@ (<<"conductor">> :> "conductor") @@ (<<"cast">> :> "soloist")
MCWorkRoles == {<<"composer">>, <<"librettist">>}
MCProductionRoles == {<<"director">>}
MCPerformanceRoles == {<<"conductor">>}

MCFamilies == {{"imslp"}, {"imslp_works", "imslp_recordings"}, {"wikidata"}, {"wikidata_works"},
               {"wikidata_places"}, {"wikidata_ensembles"}, {"wikidata_genres"}, {"wikidata_catalogue"},
               {"wikidata_instrumentation"}, {"concertgebouw_archive"}, {"nyphil"}, {"berlinphil"}, {"rco"},
               {"openopus"}, {"classicalmusiconline"}, {"boosey"}, {"baerenreiter"}, {"henle"},
               {"classicfm"}, {"wienerphil"}, {"laphil"}, {"decca"}, {"harmoniamundi"}, {"roh"}}
MCStaticSources == {"berlinphil", "concertgebouw_archive", "nyphil", "roh", "wienerphil"}

(* A server answers in three waits; is busy twice and asks for patience;   *)
(* refuses throughout; or deals out its answer in pieces, none of which is *)
(* late, that together never end.                                          *)
Prompt == [gaps |-> <<1, 1, 1>>, accepted |-> TRUE, retryAfter |-> 0]
Busy == [gaps |-> <<1, 1>>, accepted |-> FALSE, retryAfter |-> 6]
Refused == [gaps |-> <<1>>, accepted |-> FALSE, retryAfter |-> 0]
Trickle == [gaps |-> [k \in 1 .. 30 |-> 2], accepted |-> TRUE, retryAfter |-> 0]
MCReactions == ("calm" :> <<Prompt, Prompt, Prompt>>) @@ ("busy" :> <<Busy, Busy, Prompt>>)
                 @@ ("refuses" :> <<Refused, Refused, Refused>>) @@ ("trickles" :> <<Trickle, Trickle, Trickle>>)

-----------------------------------------------------------------------------
(* The sites: Base is the first version, Added what the second replaces.   *)

Imslp1 ==
  (<<"people", 1>> :> [rows |-> <<[id |-> 1, name |-> "bach"], [id |-> 2, name |-> ""]>>, more |-> TRUE])
  @@ (<<"people", 2>> :> [rows |-> <<[id |-> 3, name |-> "berg"]>>, more |-> FALSE])
Imslp2 ==
  (<<"people", 2>> :> [rows |-> <<[id |-> 4, name |-> "abel"], [id |-> 3, name |-> "berg"]>>, more |-> FALSE])

Parsed(title, table, albums) == [form |-> "parsed", title |-> title, table |-> table, albums |-> albums]
Work(id, title, by) == [pageid |-> id, title |-> title, composer |-> by, number |-> Nothing]
Cast(name, words) == [name |-> name, spelt |-> name, words |-> words]
ImslpWorks1 ==
  (<<"worklist", 1>> :> [rows |-> <<Work(10, <<"mass", "bach">>, "bach"), Work(11, Nothing, "bach")>>, more |-> TRUE])
  @@ (<<"worklist", 2>> :> [rows |-> <<Work(12, <<"lulu">>, "berg")>>, more |-> FALSE])
  @@ (<<"members", 1>> :> [pageids |-> <<10>>, more |-> TRUE])
  @@ (<<"members", 2>> :> [pageids |-> <<12>>, more |-> FALSE])
  @@ (<<"work", 10>> :> Parsed(<<"mass", "bach">>,
        <<[label |-> "Key", value |-> ""], [label |-> "Key", value |-> "h"]>>,
        <<[aid |-> 1, credits |-> <<Cast("richter", <<"conductor">>), Cast("vienna choir", <<>>)>>],
          [aid |-> Nothing, credits |-> <<>>]>>))
  @@ (<<"work", 12>> :> Parsed(<<"lulu">>, <<>>,
        <<[aid |-> 2, credits |-> <<Cast("richter", <<"artist", "piano">>), Cast("wedekind", <<"librettist">>)>>]>>))
ImslpWorks2 ==
  (<<"worklist", 2>> :> [rows |-> <<Work(13, <<"wozzeck">>, "berg"), Work(12, <<"lulu">>, "berg")>>, more |-> FALSE])
  @@ (<<"members", 1>> :> [pageids |-> <<13, 10>>, more |-> TRUE])
  @@ (<<"work", 12>> :> Parsed(<<"lulu">>, <<[label |-> "Key", value |-> "none"]>>, ImslpWorks1[<<"work", 12>>].albums))
  @@ (<<"work", 13>> :> Parsed(<<"wozzeck">>, <<>>, <<[aid |-> 3, credits |-> <<Cast("abbado", <<"conductor">>)>>]>>))

Entry2(path, name) == [path |-> path, name |-> name]
ClassicFm1 ==
  (<<"composers">> :> <<Entry2("c/bach", ""), Entry2("c/bach", "bach"), Entry2("c/bach", "j s bach")>>)
  @@ (<<"artists">> :> <<Entry2("a/argerich", "argerich")>>)
ClassicFm2 == (<<"artists">> :> <<Entry2("a/abbado", "abbado"), Entry2("a/argerich", "argerich")>>)

OpenComposer(name, works) ==
  [name |-> name, birth |-> <<"1685", "03-31">>, death |-> <<"1750", "01-01">>, epoch |-> "baroque", works |-> works]
OpenOpus1 == (<<"dump">> :> [composers |-> <<OpenComposer("bach", <<"mass", "">>), OpenComposer("", <<>>)>>])
OpenOpus2 == (<<"dump">> :> [composers |-> <<OpenComposer("abel", <<"trio">>), OpenComposer("bach", <<"mass">>)>>])

Cmo1 ==
  (<<"index", "a">> :> <<[id |-> 1, name |-> "bach", spans |-> <<[life |-> TRUE, text |-> <<"1685", "1750">>],
                                                              [life |-> FALSE, text |-> <<"germany">>]>>]>>)
  @@ (<<"index", "b">> :> <<[id |-> 1, name |-> "bach", spans |-> <<>>], [id |-> 9, name |-> "", spans |-> <<>>],
                            [id |-> 2, name |-> "berg", spans |-> <<[life |-> TRUE, text |-> <<"born", "1885">>]>>]>>)
  @@ (<<"composer", 1>> :> <<[title |-> "mass", production |-> 7], [title |-> "", production |-> 8]>>)
  @@ (<<"composer", 2>> :> <<[title |-> "lulu", production |-> Nothing]>>)
Cmo2 ==
  (<<"index", "a">> :> <<[id |-> 3, name |-> "abel", spans |-> <<>>], [id |-> 1, name |-> "bach", spans |-> <<>>]>>)
  @@ (<<"composer", 3>> :> <<[title |-> "trio", production |-> 9]>>)

Option(value, name, tail) == [value |-> value, name |-> name, tail |-> tail]
Listed(date, title, composer, soloist) ==
  [date |-> date, title |-> title, composer |-> composer, soloist |-> soloist]
ConcertList1 == <<Listed("d1", "mass", "bach", "goebel"), Listed("", "", "", "argerich"), Listed("", "lulu", "berg", "")>>
Concertgebouw1 ==
  (<<"search">> :> [componistcode |-> <<Option("0", "all", Nothing), Option("1", "bach", [born |-> "1685", died |-> "1750"])>>,
                    dirigentcode |-> <<Option("1", "walter", Nothing)>>,
                    solistcode |-> <<Option("1", "argerich", [discipline |-> "piano"])>>])
  @@ (<<"list">> :> ConcertList1)
Concertgebouw2 == (<<"list">> :> <<Listed("d0", "trio", "abel", "")>> \o ConcertList1)

Program(id, works, concerts) == [id |-> id, season |-> 1900 + id, works |-> works, concerts |-> concerts]
Played(title, by, soloists) == [title |-> title, composers |-> by, conductors |-> <<"walter", "not conducted">>, soloists |-> soloists]
NyPhil1 ==
  (<<"dataset">> :> <<Program(1, <<Played("mass", <<"bach">>, <<[names |-> <<"goebel">>, instrument |-> "violin"]>>),
                                   Played("", <<>>, <<>>)>>, <<"d1", "d2">>)>>)
NyPhil2 ==
  (<<"dataset">> :> <<Program(2, <<Played("lulu", <<"berg", "cerha">>, <<>>)>>, <<"d3">>),
                      [NyPhil1[<<"dataset">>][1] EXCEPT !.works = <<Played("suite", <<"bach">>, <<>>)>> \o @]>>)

Artist(id, name, role) ==
  [id |-> id, name |-> name, group |-> name \in MCEnsembleNames, fields |-> {}, role |-> role,
   discipline |-> IF role = "instrument" THEN "violin" ELSE ""]
BerlinConcert(id, work, title, composers, artists) ==
  [id |-> id, date |-> id, artists |-> <<Artist(1, "walter", "conductor")>>,
   works |-> <<[id |-> work, title |-> title, composers |-> composers, artists |-> artists]>>]
BerlinPhil1 ==
  (<<"concerts">> :> <<1, Nothing, 2>>)
  @@ (<<"concert", 1>> :> BerlinConcert(1, 51, "mass", <<>>, <<Artist(2, "bach", "composer"), Artist(3, "goebel", "instrument")>>))
  @@ (<<"concert", 2>> :> BerlinConcert(2, 52, "lulu", <<"berg">>, <<Artist(3, "goebel", "voice"), Artist(4, "vienna choir", "other")>>))
BerlinPhil2 ==
  (<<"concerts">> :> <<3, 1, 2>>)
  @@ (<<"concert", 2>> :> BerlinConcert(2, 52, "lulu", <<"berg">>, <<Artist(4, "vienna choir", "other")>>))
  @@ (<<"concert", 3>> :> BerlinConcert(3, 53, "trio", <<>>, <<Artist(5, "abel", "composer")>>))

RcoConcert(id, slug, credits, program) == [id |-> id, slug |-> slug, credits |-> credits, program |-> program]
Item(composer, title) == [composer |-> composer, title |-> title]
Rco1 ==
  (<<"conductors">> :> <<[id |-> 1, name |-> "walter", role |-> "conductor", function |-> "chief"],
                         [id |-> Nothing, name |-> "x", role |-> "conductor", function |-> ""]>>)
  @@ (<<"calendar", 1>> :> <<"s1">>) @@ (<<"calendar", 2>> :> <<"s1", "s2">>) @@ (<<"calendar", 3>> :> <<"s2">>)
  @@ (<<"concert", "s1">> :> RcoConcert(1, "s1", <<[name |-> "walter", role |-> "conductor"], [name |-> "goebel", role |-> "violin"]>>,
                                        <<Item("bach", "mass"), Item("--", "pause"), Item("berg", "lulu")>>))
  @@ (<<"concert", "s2">> :> RcoConcert(2, "s2", <<[name |-> "goebel", role |-> "violin"]>>, <<Item("abel", "trio")>>))
Rco2 ==
  (<<"calendar", 1>> :> <<"s0", "s1">>)
  @@ (<<"concert", "s1">> :> [Rco1[<<"concert", "s1">>] EXCEPT !.program = <<Item("abel", "overture")>> \o @])
  @@ (<<"concert", "s0">> :> RcoConcert(3, "s0", <<[name |-> "abbado", role |-> "conductor"]>>, <<Item("bach", "suite")>>))

Event(links, items) == [links |-> links, items |-> items]
PersonPage(name, composes, events) ==
  [links |-> <<>>, person |-> [kind |-> "person", name |-> name, born |-> "1685", died |-> Nothing,
                               composes |-> composes, events |-> events]]
LaPhil1 ==
  (<<"home">> :> << <<"events", "e1">>, <<"people", "p3">>, <<"people", "p1">> >>)
  @@ (<<"events", "e1">> :> Event(<< <<"people", "p3">>, <<"people", "p4">> >>,
                                  <<[slug |-> "p1", display |-> "j s bach"], [slug |-> Nothing, display |-> "walter"]>>))
  @@ (<<"events", "e2">> :> Event(<<>>, <<[slug |-> "p1", display |-> "bach"]>>))
  @@ (<<"people", "p1">> :> PersonPage("bach", TRUE, << <<"events", "e2">> >>))
  @@ (<<"people", "p3">> :> PersonPage("berg", TRUE, <<>>))
  @@ (<<"people", "p4">> :> PersonPage("walter", FALSE, <<>>))
LaPhil2 ==
  (<<"home">> :> << <<"events", "e3">>, <<"events", "e1">>, <<"people", "p3">> >>)
  @@ (<<"events", "e3">> :> Event(<<>>, <<[slug |-> "p5", display |-> "abel"]>>))
  @@ (<<"people", "p5">> :> PersonPage("abel", TRUE, <<>>))
  @@ (<<"people", "p3">> :> PersonPage("berg", TRUE, << <<"events", "e4">> >>))
  @@ (<<"events", "e1">> :> [LaPhil1[<<"events", "e1">>] EXCEPT !.items = <<[slug |-> "p3", display |-> "alban berg"]>> \o @])
  @@ (<<"events", "e4">> :> Event(<<>>, <<[slug |-> "p6", display |-> "weill"]>>))
  @@ (<<"people", "p6">> :> PersonPage("weill", TRUE, <<>>))

Block2(id, date, credits, performers, composers, works) ==
  [id |-> id, date |-> date, credits |-> credits, performers |-> performers, composers |-> composers, works |-> works]
Span(class, text) == [class |-> class, text |-> text]
ViennaFirst ==
  <<Block2(1, "d1", <<"walter">>, <<"walter", "vienna choir", "goebel", "None">>,
           << <<"bach">>, <<>>, <<"johann strauss", "josef strauss">> >>,
           <<"mass", "pause", "la", "mer", "polka">>),
    Block2(2, "", <<>>, <<>>, <<>>, <<>>)>>
WienerPhil1 ==
  (<<"archive">> :> [total |-> 3, werk |-> << <<"mass">>, <<"la", "mer">> >>,
                     komponist |-> << <<"bach">>, <<"johann strauss", "josef strauss">>, <<>> >>,
                     interpret |-> <<"walter", "vienna choir", "goebel", "">>])
  @@ (<<"fragment", 1>> :> ViennaFirst)
  @@ (<<"fragment", 2>> :> <<Block2(3, "d3", <<>>, <<"goebel">>, << <<"bach">> >>, <<"suite">>)>>)
  @@ (<<"concert", 1>> :> [bare |-> FALSE,
        credits |-> <<[label |-> "Dirigent", words |-> {"conductor"}, name |-> "walter"],
                      [label |-> "Violine", words |-> {"violin"}, name |-> "goebel"]>>,
        spans |-> <<Span("composer", <<"bach">>), Span("work", <<"messe">>), Span("work", <<"la mer">>)>>])
  @@ (<<"concert", 3>> :> [bare |-> TRUE, credits |-> <<>>, spans |-> <<>>])
WienerPhil2 ==
  (<<"archive">> :> [total |-> 4, werk |-> <<>>, komponist |-> << <<"bach">>, <<"berg">> >>, interpret |-> <<"walter", "goebel">>])
  @@ (<<"fragment", 2>> :> <<Block2(3, "d3", <<>>, <<"goebel">>, << <<"bach">> >>, <<"suite">>),
                             Block2(4, "d4", <<"walter">>, <<"walter">>, << <<"berg">> >>, <<"lulu">>)>>)
  @@ (<<"concert", 4>> :> [bare |-> TRUE, credits |-> <<>>, spans |-> <<>>])

Line(field, tail, whole) == [field |-> field, tail |-> tail, whole |-> whole]
BooseyWork(h1, head, lines) ==
  [h1 |-> h1, head |-> head, lines |-> lines, links |-> <<"composers", "berg">>, duration |-> [hours |-> 1, minutes |-> 5]]
Boosey1 ==
  (<<"index", "a">> :> [ids |-> <<1>>, paths |-> << <<"path", "p">> >>])
  @@ (<<"index", "b">> :> [ids |-> <<1>>, paths |-> <<>>])
  @@ (<<"path", "p">> :> <<2>>)
  @@ (<<"search", 1>> :> Nothing) @@ (<<"search", 2>> :> Nothing)
  @@ (<<"items", 1, 1>> :> [works |-> <<11, 12>>, more |-> FALSE])
  @@ (<<"items", 2, 1>> :> [works |-> <<12>>, more |-> TRUE])
  @@ (<<"items", 2, 2>> :> [works |-> <<13>>, more |-> FALSE])
  @@ (<<"work", 11>> :> BooseyWork(<<"mass">>, <<"bach", "mass">>,
        <<Line("scoring", "", "scoring"), Line(Nothing, "", "choir"), Line("year", "1750", "year: 1750")>>))
  @@ (<<"work", 12>> :> BooseyWork(<<>>, <<>>, <<Line(Nothing, "", "lulu")>>))
  @@ (<<"work", 13>> :> BooseyWork(<<>>, <<>>, <<>>))
Boosey2 ==
  (<<"index", "b">> :> [ids |-> <<1, 3>>, paths |-> <<>>]) @@ (<<"search", 3>> :> Nothing)
  @@ (<<"items", 3, 1>> :> [works |-> <<14>>, more |-> FALSE])
  @@ (<<"work", 14>> :> BooseyWork(<<"trio">>, <<"abel", "trio">>, <<>>))

Part(names, solo) == [voicing |-> "", solo |-> solo, names |-> names, parens |-> <<>>]
BProduct(id, title, composers, types, items) ==
  [id |-> id, title |-> title, composers |-> composers, types |-> types, items |-> items,
   detail |-> <<[Part(<<"oboe">>, FALSE) EXCEPT !.parens = <<[kind |-> "instruments", value |-> <<"violin">>]>>],
                [Part(<<>>, FALSE) EXCEPT !.voicing = "satb"], Part(<<"s">>, TRUE)>>,
   scoring |-> <<Part(<<"string quartet">>, FALSE)>>, shorthand |-> <<>>, arrangers |-> <<>>,
   publisher |-> "baerenreiter", minutes |-> 0]
Contents == <<[title |-> "trio", composer |-> Nothing], [title |-> "lulu", composer |-> "berg"]>>
Baerenreiter1 ==
  (<<"sitemap">> :> <<[id |-> 1, print |-> Nothing], [id |-> 2, print |-> 1], [id |-> 1, print |-> Nothing], [id |-> 3, print |-> Nothing],
                        [id |-> 4, print |-> Nothing]>>)
  @@ (<<"product", 1>> :> BProduct(1, "mass", <<"bach">>, {"Score"}, <<>>))
  @@ (<<"product", 3>> :> BProduct(3, "life of bach", <<>>, {"Book"}, <<>>))
  @@ (<<"product", 4>> :> BProduct(4, "album", <<"abel">>, {"Anthology"}, Contents))
Baerenreiter2 ==
  (<<"sitemap">> :> <<[id |-> 5, print |-> Nothing], [id |-> 1, print |-> Nothing], [id |-> 4, print |-> Nothing]>>)
  @@ (<<"product", 1>> :> [Baerenreiter1[<<"product", 1>>] EXCEPT !.minutes = 90])
  @@ (<<"product", 4>> :> BProduct(4, "album", <<"abel">>, {"Anthology"},
                                   <<[title |-> "suite", composer |-> "bach"]>> \o Contents))
  @@ (<<"product", 5>> :> BProduct(5, "lulu", <<"berg">>, {"Score"}, <<>>))

HWork(index, title, composer) == [index |-> index, title |-> title, composer |-> composer, grade |-> 3]
HProduct(id, title, works) ==
  [id |-> id, title |-> title, composers |-> <<"bach">>, scored |-> TRUE,
   scoring |-> [named |-> {}, solo |-> "violin"], works |-> works, edition |-> "Urtext",
   contributors |-> {[name |-> "steglich", roles |-> {"editor", "fingering"}]}]
Henle1 ==
  (<<"sitemaps">> :> <<1, 2>>) @@ (<<"sitemap", 1>> :> <<1, 2>>) @@ (<<"sitemap", 2>> :> <<1, 3>>)
  @@ (<<"product", 1>> :> HProduct(1, "mass", <<>>))
  @@ (<<"product", 2>> :> HProduct(2, "suites", <<HWork(0, "first", Nothing), HWork(1, "second", "abel")>>))
  @@ (<<"product", 3>> :> HProduct(3, "", <<>>))
Henle2 ==
  (<<"sitemap", 1>> :> <<4, 1, 2>>)
  @@ (<<"product", 2>> :> HProduct(2, "suites", <<HWork(0, "prelude", Nothing), HWork(1, "first", Nothing), HWork(2, "second", "abel")>>))
  @@ (<<"product", 4>> :> HProduct(4, "trio", <<HWork(0, "trio", "abel")>>))

Sung(id, title, level) == [id |-> id, title |-> title, level |-> level]
Given(id, name, function) == [id |-> id, name |-> name, function |-> function, flagged |-> FALSE]
Track(works, credits, headings) == [works |-> works, credits |-> credits, headings |-> headings]
Head2(name) == [name |-> name, born |-> "1685", died |-> "1750"]
Decca1 ==
  (<<"sitemap">> :> [children |-> <<1, 2>>, urls |-> <<>>])
  @@ (<<"sitemap", 1>> :> << <<"family", 1>>, <<"family", 2>>, <<"family", 1>> >>)
  @@ (<<"sitemap", 2>> :> << <<"artist", "argerich">>, <<"family", 3>>, <<"artist", "walter">> >>)
  @@ (<<"family", 1>> :> <<[id |-> 1, tracks |->
        <<Track(<<Sung(1, <<"mass">>, 1)>>, <<Given(5, <<"argerich">>, "piano"), Given(0, <<"walter">>, "conductor")>>,
                << <<>>, <<Head2(<<"bach">>), Head2(<<"anonymous">>)>> >>)>>]>>)
  @@ (<<"family", 2>> :> <<[id |-> 2, tracks |->
        <<Track(<<Sung(1, <<"mass">>, 1)>>, <<Given(6, <<"bach">>, "composer"), Given(7, <<"vienna", "choir">>, "")>>, <<>>),
          Track(<<Sung(2, Nothing, 1)>>, <<>>, <<>>)>>]>>)
  @@ (<<"family", 3>> :> <<[id |-> 3, tracks |-> <<Track(<<>>, <<>>, <<>>)>>]>>)
  @@ (<<"artist", "argerich">> :> [id |-> 5, name |-> <<"argerich">>, alias |-> <<"martha">>])
  @@ (<<"artist", "walter">> :> [id |-> 8, name |-> <<"walter">>, alias |-> <<"walter">>])
Decca2 ==
  (<<"sitemap", 1>> :> << <<"family", 4>>, <<"family", 1>>, <<"family", 2>> >>)
  @@ (<<"artist", "walter">> :> [id |-> 8, name |-> <<"walter">>, alias |-> <<"bruno">>])
  @@ (<<"family", 4>> :> <<[id |-> 4, tracks |->
        <<Track(<<Sung(3, <<"trio">>, 1)>>, <<Given(9, <<"abel">>, "composer")>>, <<>>)>>]>>)

Body(body) == [body |-> body, dates |-> Nothing, bulleted |-> FALSE, note |-> FALSE]
OnAlbum(name, role, column, ref) == [name |-> name, role |-> role, column |-> column, ref |-> ref]
HarmoniaMundi1 ==
  (<<"sitemaps">> :> [albums |-> <<1>>, people |-> <<2, 3>>])
  @@ (<<"sitemap", 1>> :> << <<"album", "a1">>, <<"album", "a2">>, <<"album", "a1">> >>)
  @@ (<<"sitemap", 2>> :> << <<"artist", "goebel">> >>) @@ (<<"sitemap", 3>> :> << <<"composer", "bach">> >>)
  @@ (<<"album", "a1">> :> [title |-> <<"sonatas">>,
        credits |-> <<OnAlbum(<<"bach">>, "", "composers", Nothing),
                      OnAlbum(<<"goebel">>, "violin", "artists", <<"artist", "goebel">>),
                      OnAlbum(<<"vienna", "choir">>, "", "artists", Nothing)>>,
        lines |-> <<Body(<<"sonatas">>), Body(<<"bach">>), Body(<<"sonata">>), [Body(<<"largo">>) EXCEPT !.bulleted = TRUE],
                    Body(<<"sonata">>), Body(<<"in", "g">>), [Body(<<"abel">>) EXCEPT !.dates = <<"1723", "1787">>],
                    [Body(<<"trio">>) EXCEPT !.bulleted = TRUE], [Body(<<"2", "cd">>) EXCEPT !.note = TRUE]>>])
  @@ (<<"album", "a2">> :> [title |-> <<"recital">>, lines |-> <<>>,
                            credits |-> <<OnAlbum(<<"goebel">>, "conductor", "artists", Nothing)>>])
  @@ (<<"artist", "goebel">> :> [name |-> <<"goebel">>, roles |-> {"violin"}, dates |-> Nothing])
  @@ (<<"composer", "bach">> :> [name |-> <<"bach">>, roles |-> {}, dates |-> <<"1685", "1750">>])
HarmoniaMundi2 ==
  (<<"sitemap", 1>> :> << <<"album", "a3">>, <<"album", "a1">>, <<"album", "a2">> >>)
  @@ (<<"album", "a3">> :> [title |-> <<"debut">>, lines |-> <<>>,
                            credits |-> <<OnAlbum(<<"abbado">>, "conductor", "artists", Nothing)>>])

Fact(predicate, value, item) == [predicate |-> predicate, value |-> value, item |-> item]
WComposer(label, facts) ==
  [label |-> label, facts |-> facts, dates |-> ("born_on" :> [day |-> <<1685, 3, 31>>, precision |-> 9])]
Wikidata1 ==
  (<<"composer ids">> :> {1, 3, 4})
  @@ (<<"composers">> :> ((1 :> WComposer("bach", {Fact("citizen_of", "germany", 90), Fact("gender", Nothing, 91)}))
                      @@ (2 :> WComposer("abel", {})) @@ (3 :> WComposer("berg", {})) @@ (4 :> WComposer(Nothing, {}))))
  @@ (<<"multi">> :> (1 :> {Fact("has_profession", "organist", 92)}))
  @@ (<<"relations">> :> (3 :> {Fact("student_of", "bach", 1)}))
  @@ (<<"metrics">> :> (1 :> {<<"sitelinks", 200>>}))
Wikidata2 == (<<"composer ids">> :> {1, 2, 3, 4})

Day(y, m, precision) == [day |-> <<y, m, 1>>, precision |-> precision]
WWork(label, composers) ==
  [label |-> label, composers |-> composers, places |-> {80}, dates |-> {Day(1727, 4, 9), Day(1727, 4, 11), Day(1740, 1, 9)},
   codes |-> {[code |-> "232", catalogue |-> "bwv", short |-> 2], [code |-> "232", catalogue |-> "bwv", short |-> 1],
              [code |-> "9", catalogue |-> "op", short |-> Nothing]},
   parts |-> {}]
Scored(label, parts) == [WWork(label, 1 :> "bach") EXCEPT !.parts = parts]
SPart(label, count, solo) == [label |-> label, count |-> count, solo |-> solo]
WWorks == (10 :> WWork("mass", (1 :> "bach") @@ (2 :> Nothing))) @@ (11 :> WWork("trio", (2 :> "abel") @@ (1 :> "bach")))
            @@ (12 :> WWork(Nothing, 1 :> "bach")) @@ (13 :> [WWork("lulu", 3 :> "berg") EXCEPT !.dates = {}])
WikidataWorks1 == (<<"work ids">> :> {10, 12, 13}) @@ (<<"premieres">> :> WWorks)
WikidataWorks2 == (<<"work ids">> :> {10, 11, 12, 13})
WikidataCatalogue1 == (<<"catalogued ids">> :> {10, 12}) @@ (<<"codes">> :> WWorks)
WikidataCatalogue2 == (<<"catalogued ids">> :> {10, 11, 12})
WikidataInstrumentation1 ==
  (<<"scored ids">> :> {10, 12, 13})
  @@ (<<"parts">> :> ((10 :> Scored("mass", {SPart("violin", 2, FALSE), SPart("oboe", Nothing, TRUE), SPart("theorbo", Nothing, FALSE)}))
                  @@ (11 :> Scored("trio", {SPart("string quartet", Nothing, FALSE)}))
                  @@ (12 :> Scored(Nothing, {})) @@ (13 :> Scored("lulu", {SPart("strings", Nothing, FALSE)}))))
WikidataInstrumentation2 == (<<"scored ids">> :> {10, 11, 12, 13})

Above(label, item) == [predicate |-> "located_in", label |-> label, item |-> item]
Place(label, above) == [label |-> label, above |-> above, facts |-> {<<"population", 5>>}]
WikidataPlaces1 ==
  (<<"place ids">> :> {80, 82})
  @@ (<<"places">> :> ((80 :> Place("leipzig", {Above("saxony", 83), Above(Nothing, 99)})) @@ (81 :> Place("vienna", {Above("austria", 84)}))
                   @@ (82 :> Place(Nothing, {Above("austria", 84)})) @@ (83 :> Place("saxony", {Above("saxony", 83)}))
                   @@ (84 :> Place("austria", {}))))
  @@ (<<"place types">> :> ((80 :> {"city", "country"}) @@ (84 :> {"country"})))
WikidataPlaces2 == (<<"place ids">> :> {80, 81, 82})

Names2(labels, names, classes, above) == [labels |-> labels, names |-> names, classes |-> classes, partOf |-> above]
Seat(label, seats) == [label |-> label, seats |-> seats]
WikidataEnsembles1 ==
  (<<"ensembles by", "class">> :> {60, 63}) @@ (<<"ensembles by", "genre">> :> {63})
  @@ (<<"ensembles by", "name">> :> [hits |-> {61, 64}, foreign |-> {64}, short |-> 1])
  @@ (<<"ensembles">> :> ((60 :> Seat("vienna choir", {[city |-> 81, label |-> "vienna"], [city |-> 80, label |-> "leipzig"]}))
                      @@ (61 :> Seat(Nothing, {})) @@ (62 :> Seat("new band", {})) @@ (63 :> Seat(Nothing, {[city |-> 9, label |-> Nothing]}))))
  @@ (<<"ensemble names">> :> ((60 :> Names2(<<>>, {"vienna choir", "chor wien"}, {}, {63, 70})) @@ (61 :> Names2(<<"concentus">>, {}, {"orchestra"}, {}))
                           @@ (62 :> Names2(<<>>, {}, {}, {60})) @@ (63 :> Names2(<<>>, {}, {}, {}))))
WikidataEnsembles2 == (<<"ensembles by", "genre">> :> {62, 63})

Node(label, classes) == [label |-> label, classes |-> classes, aliases |-> {}, forms |-> IF classes = {} THEN {} ELSE {"form"}]
Empty == [q \in {} |-> {}]
WikidataGenres1 ==
  (<<"seeds", "genre">> :> {30, 31}) @@ (<<"seeds", "movement">> :> {40})
  @@ (<<"seeds of", "genre">> :> ((1 :> {30}) @@ (3 :> {31}))) @@ (<<"seeds of", "movement">> :> ((1 :> {40}) @@ (3 :> {})))
  @@ (<<"composer ids">> :> {1, 3})
  @@ (<<"genre">> :> ((30 :> Node(<<"mass">>, {"genre"})) @@ (31 :> Node(<<"romantic">>, {})) @@ (32 :> Node(<<"sacred", "music">>, {"genre"}))
                  @@ (33 :> Node(<<"romantic", "music">>, {"genre"})) @@ (34 :> Node(<<"trio">>, {"genre"})) @@ (35 :> Node(<<"style">>, {}))))
  @@ (<<"parents">> :> ((30 :> {32}) @@ (31 :> {35}) @@ (32 :> {}) @@ (33 :> {32}) @@ (34 :> {32}) @@ (40 :> {})))
  @@ (<<"counterparts">> :> (31 :> {33, 31}))
  @@ (<<"movement">> :> (40 :> Node(<<"classicism">>, {"movement"})))
WikidataGenres2 == (<<"seeds", "genre">> :> {30, 31, 34})

Row(label, name) == [label |-> label, name |-> name]
Link(kind, id) == [link |-> <<kind, id>>, date |-> id]
WorkPage(title, rows2, productions, performances) ==
  [title |-> title, genre |-> "Opera", rows |-> rows2, productions |-> productions, performances |-> performances]
Sung2(rows2, cast) == [rows |-> rows2, cast |-> cast]
Roh1 ==
  (<<"index", "a">> :> <<1, 2>>) @@ (<<"index", "b">> :> <<1, 3>>)
  @@ (<<"work", 1>> :> WorkPage("lulu", <<Row(<<"original", "music", "by">>, "berg"), Row(<<"world", "premiere">>, "1937")>>,
                                <<Link("production", 1), [link |-> Nothing, date |-> 0]>>, <<>>))
  @@ (<<"work", 2>> :> WorkPage("lulu, see", <<>>, <<>>, <<>>))
  @@ (<<"work", 3>> :> WorkPage("gala", <<Row(<<"composer">>, "bach")>>, <<>>, <<Link("performance", 3), Link("performance", 1)>>))
  @@ (<<"production", 1>> :> [rows |-> <<Row(<<"director">>, "moshinsky")>>, performances |-> <<Link("performance", 1), Link("performance", 2)>>])
  @@ (<<"performance", 1>> :> Sung2(<<Row(<<"conductor">>, "davis")>>, <<[name |-> "shade", part |-> "lulu"], [name |-> "", part |-> "page"]>>))
  @@ (<<"performance", 2>> :> Sung2(<<>>, <<[name |-> "shade", part |-> "voice"], [name |-> "vienna choir", part |-> ""]>>))
  @@ (<<"performance", 3>> :> Sung2(<<Row(<<"date">>, "today")>>, <<>>))
Roh2 ==
  (<<"index", "a">> :> <<4, 1, 2>>)
  @@ (<<"work", 4>> :> WorkPage("acis", <<Row(<<"composer">>, "handel")>>, <<Link("production", 4)>>, <<>>))
  @@ (<<"production", 4>> :> [rows |-> <<>>, performances |-> <<Link("performance", 4)>>])
  @@ (<<"production", 1>> :> [Roh1[<<"production", 1>>] EXCEPT !.performances = <<Link("performance", 5)>> \o @])
  @@ (<<"work", 3>> :> [Roh1[<<"work", 3>>] EXCEPT !.performances = <<Link("performance", 6)>> \o @])
  @@ [p \in {<<"performance", n>> : n \in 4 .. 6} |-> Sung2(<<Row(<<"conductor">>, "davis")>>, <<>>)]

-----------------------------------------------------------------------------
Grown(base, added) == << base, added @@ base >>
MCSites ==
  ("imslp" :> Grown(Imslp1, Imslp2)) @@ ("imslp_works" :> Grown(ImslpWorks1, ImslpWorks2))
  @@ ("imslp_recordings" :> Grown(ImslpWorks1, ImslpWorks2)) @@ ("wikidata" :> Grown(Wikidata1, Wikidata2))
  @@ ("wikidata_works" :> Grown(WikidataWorks1, WikidataWorks2)) @@ ("wikidata_places" :> Grown(WikidataPlaces1, WikidataPlaces2))
  @@ ("wikidata_ensembles" :> Grown(WikidataEnsembles1, WikidataEnsembles2))
  @@ ("wikidata_genres" :> Grown(WikidataGenres1, WikidataGenres2))
  @@ ("wikidata_catalogue" :> Grown(WikidataCatalogue1, WikidataCatalogue2))
  @@ ("wikidata_instrumentation" :> Grown(WikidataInstrumentation1, WikidataInstrumentation2))
  @@ ("concertgebouw_archive" :> Grown(Concertgebouw1, Concertgebouw2)) @@ ("nyphil" :> Grown(NyPhil1, NyPhil2))
  @@ ("berlinphil" :> Grown(BerlinPhil1, BerlinPhil2)) @@ ("rco" :> Grown(Rco1, Rco2)) @@ ("openopus" :> Grown(OpenOpus1, OpenOpus2))
  @@ ("classicalmusiconline" :> Grown(Cmo1, Cmo2)) @@ ("boosey" :> Grown(Boosey1, Boosey2))
  @@ ("baerenreiter" :> Grown(Baerenreiter1, Baerenreiter2)) @@ ("henle" :> Grown(Henle1, Henle2))
  @@ ("classicfm" :> Grown(ClassicFm1, ClassicFm2)) @@ ("wienerphil" :> Grown(WienerPhil1, WienerPhil2))
  @@ ("laphil" :> Grown(LaPhil1, LaPhil2)) @@ ("decca" :> Grown(Decca1, Decca2))
  @@ ("harmoniamundi" :> Grown(HarmoniaMundi1, HarmoniaMundi2)) @@ ("roh" :> Grown(Roh1, Roh2))

(* The bad bodies the sources that look at an answer before they keep it   *)
(* are sent: an error object, no object, or an answer cut short.           *)
CutShort(answer, q) == [p \in DOMAIN answer \ {q} |-> answer[p]]
ErrorAnswer == (<<"work", 10>> :> [form |-> "error"])
NoBody == [u \in {} |-> Nothing]
MCGarbled ==
  [s \in UNION MCFamilies |->
     CASE s \in {"imslp_works", "imslp_recordings"} -> ErrorAnswer
       [] s = "rco" -> (<<"concert", "s1">> :> Nothing)
       [] s \in {"baerenreiter", "henle"} -> (<<"product", 1>> :> Nothing)
       [] s = "wikidata" -> (<<"composers">> :> CutShort(Wikidata1[<<"composers">>], 1))
       [] s = "wikidata_works" -> (<<"premieres">> :> CutShort(WWorks, 13))
       [] s = "wikidata_catalogue" -> (<<"codes">> :> CutShort(WWorks, 10))
       [] s = "wikidata_instrumentation" -> (<<"parts">> :> CutShort(WikidataInstrumentation1[<<"parts">>], 13))
       [] s = "wikidata_places" -> (<<"places">> :> CutShort(WikidataPlaces1[<<"places">>], 83))
       [] s = "wikidata_ensembles" -> (<<"ensembles">> :> CutShort(WikidataEnsembles1[<<"ensembles">>], 61))
       [] s = "wikidata_genres" -> (<<"genre">> :> CutShort(WikidataGenres1[<<"genre">>], 32))
       [] OTHER -> NoBody]
=============================================================================
