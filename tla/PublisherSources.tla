-------------------------- MODULE PublisherSources --------------------------
(***************************************************************************)
(* The publishers' catalogues: boosey (an index of composers, their work   *)
(* lists, the work pages), baerenreiter and henle (a sitemap and a page    *)
(* per product). A work is yielded twice under one id, as a mention for    *)
(* the matcher and as an entity that carries the claims.                   *)
(***************************************************************************)
EXTENDS Crawl

CONSTANTS
  Letters,        \* the letters of the alphabet, in order
  MaxListPages,   \* MAX_LIST_PAGES
  CategoryFor,    \* instrument name -> its category, for the names that have one
  MembersOf,      \* category -> the instruments an ensemble of it includes
  NonMusicTypes   \* the product types that are no sheet music

Label(title, composers) == IF composers = <<>> THEN <<title>> ELSE <<title>> \o composers

WorkPair(id, title, label, composer, claims, at) ==
  << Mention(id, title, composer, at), Entity("work", id, label, claims, at) >>

-----------------------------------------------------------------------------
(* boosey: a line is [field, tail, whole]: the field its label stands for  *)
(* (or Nothing), what follows the colon, and the line as it is.            *)

ValueAt(lines, k) ==
  IF lines[k].tail # "" THEN lines[k].tail
  ELSE IF k < Len(lines) /\ (lines[k + 1].field = Nothing \/ lines[k + 1].tail # "")
  THEN lines[k + 1].whole ELSE ""

FieldValue(lines, field) ==
  LET at == {k \in DOMAIN lines : lines[k].field = field /\ ValueAt(lines, k) # ""}
  IN  IF at = {} THEN Nothing ELSE ValueAt(lines, Min(at))

(* The heading, or the head title with all it says, or the first line; a   *)
(* title is a sequence of words, the head title <<composer, title>>.       *)
BooseyTitle(page) ==
  IF page.h1 # <<>> THEN page.h1
  ELSE IF page.head # <<>> THEN page.head
  ELSE IF page.lines # <<>> THEN <<page.lines[1].whole>> ELSE <<>>

(* The head title names the composer before the work; failing that, the    *)
(* first link to a composer that is no menu entry, or the labelled field.  *)
BooseyComposer(page) ==
  IF Len(page.head) > 1 /\ Tail(page.head) = BooseyTitle(page) THEN Head(page.head)
  ELSE LET linked == FirstOf(page.links, LAMBDA n : n \notin {"", "composers"})
       IN  IF linked # Nothing THEN linked ELSE FieldValue(page.lines, "composer")

BooseyClaims(page, composer) ==
  Claim("composed_by", composer)
    \union Claim("published_by", FieldValue(page.lines, "publisher"))
    \union Claim("has_scoring", FieldValue(page.lines, "scoring"))
    \union Amount("has_duration", page.duration.hours * 60 + page.duration.minutes)
    \union Claim("composed_in", FieldValue(page.lines, "year"))

BooseyDocuments(work, page) ==
  LET title == BooseyTitle(page)
      composer == BooseyComposer(page)
  IN  IF title = <<>> THEN <<>>
      ELSE WorkPair(<<work>>, title, IF composer = Nothing THEN title ELSE Append(title, composer),
                    composer, BooseyClaims(page, composer), <<"work", work>>)

(* iter_composer_ids: a letter's ids, and the first id on each composer    *)
(* page it links; a composer page that fails is passed over, unmirrored.   *)
LinkedIds(net, paths) ==
  Flat(LAMBDA p : IF p \in net.down THEN <<>> ELSE SubSeq(net.pages[p], 1, Min({1, Len(net.pages[p])})),
       paths)

ComposerIds(net, c, index) ==
  SelectSeq(FirstOccurrences(index.ids \o LinkedIds(net, index.paths)),
            LAMBDA id : <<"composer", id>> \notin c.seen)

(* composer_work_links: the search is remembered by the server, its pages  *)
(* are followed until one links back or the bound is reached.              *)
WorkLinks(net, c, composer) ==
  LET searched == Page(net, [c EXCEPT !.notes = <<>>], <<"search", composer>>, LAMBDA a, page : a)
  IN  Each(searched, [n \in 1 .. MaxListPages |-> n], LAMBDA a, n :
        Page(net, a, <<"items", composer, n>>, LAMBDA b, page :
          LET told == Note(b, page.works) IN IF page.more THEN told ELSE Break(told)))

ReadBooseyWork(net, c, work, max) ==
  IF <<"work", work>> \in c.seen THEN c
  ELSE IF c.read >= max THEN Return(See(c, <<"work", work>>))
  ELSE TryPage(net, Count(See(c, <<"work", work>>)), <<"work", work>>, Always,
               LAMBDA b, page : Emit(b, BooseyDocuments(work, page)))

ReadBooseyComposer(net, c, id, max) ==
  LET listed == WorkLinks(net, See(c, <<"composer", id>>), id)
  IN  Each(listed, FirstOccurrences(listed.notes), LAMBDA a, work : ReadBooseyWork(net, a, work, max))

BooseyScrape(net, c, max) ==
  LET walked ==
        Each(c, Letters, LAMBDA a, letter :
          Page(net, a, <<"index", letter>>, LAMBDA b, index :
            LET asked == Each(b, index.paths, LAMBDA d, path : Send(net, d, path))
            IN  Each(asked, ComposerIds(net, asked, index),
                     LAMBDA d, id : ReadBooseyComposer(net, d, id, max))))
  IN  IF Going(walked) /\ walked.seen = {} THEN Raise(walked) ELSE walked

-----------------------------------------------------------------------------
(* Instrumentation as baerenreiter states it: a part is a voicing of its   *)
(* own, or [names, solo, parens], where names are the alternatives before  *)
(* the parentheses and a parenthesis is [kind, value].                     *)

VoiceOf == [s |-> "soprano", a |-> "alto", t |-> "tenor", b |-> "bass"]

(* _resolve: the alternatives of a name must agree.                        *)
Resolve(names) ==
  LET found == {IF n \in DOMAIN CategoryFor THEN CategoryFor[n] ELSE Nothing : n \in ToSet(names)}
  IN  IF Cardinality(found) = 1 THEN CHOOSE f \in found : TRUE ELSE Nothing

PartInstrument(part) ==
  IF part.voicing # "" THEN "choir"
  ELSE IF part.solo /\ Len(part.names) = 1 /\ part.names[1] \in DOMAIN VoiceOf
  THEN VoiceOf[part.names[1]] ELSE Resolve(part.names)

(* A parenthesis that lists instruments throughout names doublings.        *)
AlsoPlayed(part) ==
  Flat(LAMBDA p : IF p.kind = "instruments" /\ ToSet(p.value) \subseteq DOMAIN CategoryFor
                  THEN [n \in DOMAIN p.value |-> CategoryFor[p.value[n]]] ELSE <<>>, part.parens)

DetailInstruments(parts) ==
  UNION {({PartInstrument(p)} \union ToSet(AlsoPlayed(p))) \ {Nothing} : p \in ToSet(parts)}

(* What the edition is written for, what that includes, and the orchestra  *)
(* shorthand where no detail is stated.                                    *)
ScoringCategories(parts) == {PartInstrument(p) : p \in ToSet(parts)} \ {Nothing}
Members(categories) == UNION {MembersOf[k] : k \in categories \intersect DOMAIN MembersOf}

IncludedInstruments(product) ==
  DetailInstruments(product.detail)
    \union Members(ScoringCategories(product.scoring))
    \union (IF product.detail = <<>> THEN ToSet(product.shorthand) ELSE {})

BaerenreiterClaims(product) ==
  Claims("composed_by", ToSet(product.composers))
    \union Claims("written_for", ScoringCategories(product.scoring))
    \union Claims("includes_instrument", IncludedInstruments(product))
    \union Claims("arranged_by", ToSet(product.arrangers))
    \union Claim("published_by", product.publisher)
    \union Amount("has_duration", product.minutes)
    \union Claims("edition_type", product.types)

(* The works of an anthology, each by its own composer or the volume's     *)
(* only one; ids are places in the contents.                               *)
ItemMentions(product) ==
  LET fallback == IF Len(product.composers) = 1 THEN product.composers[1] ELSE Nothing
      By(item) == IF item.composer = Nothing THEN fallback ELSE item.composer
  IN  Collect([n \in DOMAIN product.items |-> n],
              LAMBDA n : product.items[n].title # "" /\ By(product.items[n]) # Nothing,
              LAMBDA n : Mention(<<product.id, n - 1>>, product.items[n].title, By(product.items[n]),
                                 <<"product", product.id>>))

BaerenreiterDocuments(product) ==
  LET pair == WorkPair(<<product.id>>, product.title, Label(product.title, product.composers),
                       IF product.composers = <<>> THEN Nothing ELSE product.composers[1],
                       BaerenreiterClaims(product), <<"product", product.id>>)
  IN  IF "Anthology" \in product.types THEN ItemMentions(product) \o Tail(pair) ELSE pair

(* An API answer is no object, lacks an id or title, or is a product.      *)
IsObject(body) == body # Nothing
IsSheetMusic(product) == product.title # "" /\ product.types \intersect NonMusicTypes = {}

(* A digital edition, [print |-> the printed one's id], is left out when   *)
(* the sitemap lists its printed twin.                                     *)
Wanted(listed) ==
  SelectSeq(listed, LAMBDA p : p.print = Nothing \/ p.print \notin {q.id : q \in ToSet(listed)})

ReadProduct(net, c, id, max) ==
  IF c.read >= max THEN Break(c)
  ELSE TryPage(net, Count(c), <<"product", id>>, IsObject, LAMBDA b, product :
         IF IsObject(product) /\ IsSheetMusic(product) THEN Emit(b, BaerenreiterDocuments(product)) ELSE b)

BaerenreiterScrape(net, c, max) ==
  Page(net, c, <<"sitemap">>, LAMBDA a, listed :
    Each(a, Wanted(FirstOccurrences(listed)), LAMBDA b, p : ReadProduct(net, b, p.id, max)))

-----------------------------------------------------------------------------
(* henle: a scoring is [named, solo]: the categories it names, or else the *)
(* instrument of a "... concerto".                                         *)

WrittenFor(scoring) ==
  IF scoring.named # {} THEN scoring.named
  ELSE IF scoring.solo \in DOMAIN CategoryFor THEN {CategoryFor[scoring.solo], "orchestra"} ELSE {}

HenleWorkClaims(composers, product, grade) ==
  Claims("composed_by", ToSet(composers))
    \union Claims("written_for", WrittenFor(product.scoring))
    \union Claims("includes_instrument", Members(WrittenFor(product.scoring)))
    \union (IF grade = Nothing THEN {} ELSE {<<"difficulty_level", grade>>})

HenleEditionClaims(product) ==
  {<<"published_by", "G. Henle Verlag">>}
    \union Claims("edited_by", {k.name : k \in {k \in product.contributors : "editor" \in k.roles}})
    \union Claims("fingering_by", {k.name : k \in {k \in product.contributors : "fingering" \in k.roles}})
    \union Claim("edition_type", product.edition)

ItemComposers(product, item) ==
  IF item.composer = Nothing THEN product.composers ELSE <<item.composer>>

(* A single work: its contents row, if any, corrects title and composer.   *)
HenleSingle(product) ==
  LET row == product.works # <<>>
      title == IF row THEN product.works[1].title ELSE product.title
      composers == IF row THEN ItemComposers(product, product.works[1]) ELSE product.composers
      grade == IF row THEN product.works[1].grade ELSE Nothing
  IN  WorkPair(<<product.id>>, title, Label(title, composers),
               IF composers = <<>> THEN Nothing ELSE composers[1],
               HenleWorkClaims(composers, product, grade) \union HenleEditionClaims(product),
               <<"product", product.id>>)

(* A volume: an entity of its own, and a pair per row with a composer,     *)
(* each part of the volume.                                                *)
HenleVolume(product) ==
  LET volume == Label(product.title, product.composers)
      Row(item) == LET composers == ItemComposers(product, item)
                   IN  WorkPair(<<product.id, item.index>>, item.title, Label(item.title, composers),
                                composers[1],
                                HenleWorkClaims(composers, product, item.grade)
                                  \union {<<"part_of", volume>>}, <<"product", product.id>>)
  IN  <<Entity("work", <<product.id>>, volume,
               HenleWorkClaims(product.composers, product, Nothing) \union HenleEditionClaims(product),
               <<"product", product.id>>)>>
      \o Flat(Row, SelectSeq(product.works, LAMBDA item : ItemComposers(product, item) # <<>>))

HenleDocuments(product) == IF Len(product.works) > 1 THEN HenleVolume(product) ELSE HenleSingle(product)

(* A page without the product marker is not kept; one without a title, or  *)
(* with neither scoring nor contents, yields nothing.                      *)
IsProduct(page) == page # Nothing
IsHenleMusic(page) == page.title # "" /\ (page.scored \/ page.works # <<>>)

ReadEdition(net, c, id, max) ==
  IF c.read >= max THEN Break(c)
  ELSE TryPage(net, Count(c), <<"product", id>>, IsProduct, LAMBDA b, page :
         IF IsProduct(page) /\ IsHenleMusic(page) THEN Emit(b, HenleDocuments(page)) ELSE b)

(* The sitemap index, every English sitemap, and then the products, each   *)
(* once.                                                                   *)
HenleScrape(net, c, max) ==
  Page(net, c, <<"sitemaps">>, LAMBDA a, maps :
    LET listed == Each(a, maps, LAMBDA b, m :
                    Page(net, b, <<"sitemap", m>>, LAMBDA d, ids : Note(d, ids)))
    IN  Each(listed, FirstOccurrences(listed.notes), LAMBDA b, id : ReadEdition(net, b, id, max)))
=============================================================================
