------------------------------- MODULE Crawl -------------------------------
(***************************************************************************)
(* One source's crawl, as HttpSourceAdapter.fetch runs it: a generator     *)
(* that asks a SourceSession for pages and yields documents as it goes.    *)
(* A crawl is the record built by Begin; the operators below are the       *)
(* session's ways of asking and the loops of the adapters' scrape methods. *)
(* The adapters themselves are the operators of the ...Sources modules.    *)
(*                                                                         *)
(* net is the network a crawl meets: pages, the body every URL answers     *)
(* with; down, the URLs that spend all their retries; cut, the number of   *)
(* requests after which the process is killed.                             *)
(***************************************************************************)
EXTENDS Naturals, Sequences, FiniteSets, SequencesExt

CONSTANTS
  Nothing,    \* Python's None
  LoopBound   \* bounds the pages a listing loop may ask for

NoCap == 1000    \* max_pages=None

(* mirror is what the page mirror serves (its fresh entries); notes is     *)
(* what a scrape remembers for the documents it yields at the end; read    *)
(* counts what max_pages caps; seen is what the scrape has met already.    *)
Begin(mirror) ==
  [docs |-> <<>>, asked |-> <<>>, mirror |-> mirror, notes |-> <<>>,
   seen |-> {}, read |-> 0, state |-> "going"]

Going(c) == c.state = "going"
Break(c) == [c EXCEPT !.state = "broke"]       \* leaves the innermost loop
Return(c) == [c EXCEPT !.state = "returned"]   \* ends the scrape
Raise(c) == [c EXCEPT !.state = "raised"]      \* an exception leaves the scrape

Emit(c, documents) == [c EXCEPT !.docs = @ \o documents]
Note(c, things) == [c EXCEPT !.notes = @ \o things]
See(c, key) == [c EXCEPT !.seen = @ \union {key}]
Count(c) == [c EXCEPT !.read = @ + 1]

(* The end of a scrape: what ran to its end or returned early is a         *)
(* finished snapshot, an exception or a kill leaves a partial one.         *)
Finish(c) == IF c.state \in {"going", "returned"} THEN [c EXCEPT !.state = "finished"] ELSE c

(* What comes after c, unless the scrape has ended there.                  *)
Then(c, Do(_)) == IF Going(c) THEN Do(c) ELSE c

(* for item in items, with break, return and exceptions.                   *)
Each(c, items, Do(_, _)) ==
  LET end == FoldLeft(LAMBDA a, item : IF Going(a) THEN Do(a, item) ELSE a, c, items)
  IN  IF end.state = "broke" THEN [end EXCEPT !.state = "going"] ELSE end

Counting == [k \in 1 .. LoopBound |-> k]       \* while True

Send(net, c, url) ==
  IF Len(c.asked) >= net.cut THEN [c EXCEPT !.state = "killed"]
                             ELSE [c EXCEPT !.asked = Append(@, url)]

(* SourceSession.lookup, and store.                                        *)
IsMirrored(c, url) == url \in DOMAIN c.mirror
Keep(c, url, body) == [c EXCEPT !.mirror = (url :> body) @@ @]

(* Every attempt that call_with_retries makes fails.                       *)
OutOfRetries(net, url) == url \in net.down

(* SourceSession.mirrored around a tolerant or a strict request: a fresh   *)
(* entry costs no request; an answer is stored only when valid accepts it. *)
Mirrored(net, c, url, Valid(_), Lost(_), Use(_, _)) ==
  IF IsMirrored(c, url) THEN Use(c, c.mirror[url])
  ELSE LET sent == Send(net, c, url)
       IN  IF ~Going(sent) THEN sent
           ELSE IF OutOfRetries(net, url) THEN Lost(sent)
           ELSE LET body == net.pages[url]
                IN  Use(IF Valid(body) THEN Keep(sent, url, body) ELSE sent, body)

Always(body) == TRUE
Id(c) == c

(* get_text(mirror=True) and get_json(mirror=True): raise when spent.      *)
MirroredPage(net, c, url, Valid(_), Use(_, _)) == Mirrored(net, c, url, Valid, Raise, Use)

(* SourceSession.get_text, get_json, get_bytes and post_text unmirrored: a *)
(* URL whose retries are spent raises.                                     *)
Page(net, c, url, Use(_, _)) ==
  LET sent == Send(net, c, url)
  IN  IF ~Going(sent) THEN sent
      ELSE IF OutOfRetries(net, url) THEN Raise(sent)
      ELSE Use(sent, net.pages[url])

(* try_get_text(mirror=True) where a lost page is skipped.                 *)
TryPage(net, c, url, Valid(_), Use(_, _)) == Mirrored(net, c, url, Valid, Id, Use)

(* try_get_text(mirror=True) where the caller goes on without the page.    *)
TryOrNothing(net, c, url, Valid(_), Use(_, _)) ==
  Mirrored(net, c, url, Valid, LAMBDA lost : Use(lost, Nothing), Use)

-----------------------------------------------------------------------------
(* The documents a source yields. claims is a set of <<predicate, value>> *)
(* (for a mention: what its raw payload tells of the performance); at is   *)
(* the page its url names.                                                 *)

Entity(kind, id, name, claims, at) ==
  [kind |-> kind, id |-> id, name |-> name, by |-> Nothing, claims |-> claims, at |-> at]
MentionOf(id, title, composer, told, at) ==
  [kind |-> "mention", id |-> id, name |-> title, by |-> composer, claims |-> told, at |-> at]
Person(id, name, claims, at) == Entity("person", id, name, claims, at)
Mention(id, title, composer, at) == MentionOf(id, title, composer, {}, at)

Composing == {<<"has_profession", "composer">>}
Claim(predicate, value) == IF value \in {Nothing, ""} THEN {} ELSE {<<predicate, value>>}
Amount(predicate, number) == IF number \in {Nothing, 0} THEN {} ELSE {<<predicate, number>>}
Claims(predicate, values) == {<<predicate, v>> : v \in values}

-----------------------------------------------------------------------------
(* The items as they are listed, repeated ones included.                   *)
AllOccurrences(items) == items

(* dict.fromkeys: the items in the order they first occur.                 *)
FirstOccurrences(items) ==
  LET at == SelectSeq([k \in DOMAIN items |-> k],
                      LAMBDA k : \A j \in 1 .. k - 1 : items[j] # items[k])
  IN  [n \in DOMAIN at |-> items[at[n]]]

(* A set's elements as a sequence, in some order.                          *)
InSomeOrder(things) == FoldSet(LAMBDA x, seq : Append(seq, x), <<>>, things)

(* The items Wanted accepts, each turned into what Of makes of it.         *)
Collect(items, Wanted(_), Of(_)) ==
  LET kept == SelectSeq(items, Wanted) IN [n \in DOMAIN kept |-> Of(kept[n])]

Flat(Of(_), items) == FoldLeft(LAMBDA a, item : a \o Of(item), <<>>, items)

(* The first item Wanted accepts, or Nothing.                              *)
FirstOf(items, Wanted(_)) ==
  LET kept == SelectSeq(items, Wanted) IN IF kept = <<>> THEN Nothing ELSE kept[1]
=============================================================================
