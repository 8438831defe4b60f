------------------------------ MODULE MCWorks -------------------------------
(***************************************************************************)
(* Mozart under three names.  Titles: 1 "Symphony No. 40, K. 550",         *)
(* 2 "Symphony in G minor", 3 an arrangement of K. 550, 4 "K. 551".        *)
(***************************************************************************)
EXTENDS Works

CONSTANTS KV, wikidata, k550, k551, q1, arrangement, m1, m2, m3

Plain(t) == [title |-> t, ids |-> {}, derivation |-> Original, parents |-> {}, opus |-> 0, number |-> 0]
MCTitleFeatures ==
    [t \in Titles |->
        CASE t = 1 -> [Plain(t) EXCEPT !.ids = {<<KV, k550>>}]
          [] t = 2 -> Plain(t)
          [] t = 3 -> [Plain(t) EXCEPT !.derivation = arrangement, !.parents = {<<KV, k550>>}]
          [] t = 4 -> [Plain(t) EXCEPT !.ids = {<<KV, k551>>}]]
MCRatio == [p \in Titles \X Titles |-> IF p[1] = p[2] THEN 100 ELSE 75]

Stating(c, t, ids, date) ==
    [composer |-> c, title |-> t, stated |-> ids, opus |-> 0, premiere |-> date]
Entitled == Stating(1, 2, {<<wikidata, q1>>}, <<1788, 7>>)
BySurname == Stating(2, 1, {}, <<1787, 6>>)
Arranged == Stating(2, 3, {}, NoDate)
Numbered == Stating(3, 2, {<<KV, k550>>}, <<1787>>)
Anonymous == Stating(0, 4, {<<KV, k550>>}, NoDate)
Numberless == [Stating(1, 2, {}, NoDate) EXCEPT !.opus = 40]
MCFeeds == [m \in Mentions |->
    CASE m = m1 -> {Entitled} [] m = m2 -> {BySurname} [] m = m3 -> {Arranged, Numbered}]
MCClusterings == {[c \in Composers |-> c], [c \in Composers |-> 1]}
\* Beside the run: works without a composer, and an opus number stated beside the title.
MCFeedsAnonymous == [m \in Mentions |->
    CASE m = m1 -> {Stating(1, 1, {}, NoDate)} [] m = m2 -> {Stating(0, 4, {}, NoDate)} [] m = m3 -> {Anonymous}]
MCFeedsOpus == [m \in Mentions |-> {Numberless}]
=============================================================================
