---------------------------- MODULE MCGraphExport ----------------------------
(***************************************************************************)
(* Ann (1, also spelled 2) composed what Ben (3) and an orchestra (5, also *)
(* spelled 6) play.  Ben studied with somebody nobody lists (4), and plays *)
(* in an ensemble without a concert (7).                                   *)
(***************************************************************************)
EXTENDS GraphExport

CONSTANTS x1, x2, e1, e2

MCSymmetry == Permutations(Exporters)

Claim(id, subject, predicate, object, value, source, record) ==
    [id |-> id, subject |-> subject, predicate |-> predicate, object |-> object, value |-> value,
     source |-> source, record |-> record]
Record(id, entity) == [id |-> id, entity |-> entity, run |-> 1]
Credit(event, entity, role) == [event |-> event, entity |-> entity, role |-> role]
Item(event, mention) == [event |-> event, mention |-> mention]
MCKind(e) == IF e \in 1 .. 4 THEN "person" ELSE IF e \in 5 .. 7 THEN "ensemble"
             ELSE IF e \in {8, 9} THEN "place" ELSE IF e = 10 THEN "work" ELSE "genre"

World ==
    [kinds |-> [e \in 1 .. 11 |-> MCKind(e)],
     canonical |-> (2 :> 1 @@ 6 :> 5),
     claims |-> {Claim(1, 1, "born_in", 8, None, 1, 1), Claim(2, 2, "born_in", 8, None, 1, 2),
                 Claim(3, 3, "student_of", 4, None, 1, None), Claim(4, 3, "part_of", 7, None, 1, None),
                 Claim(5, 8, "in_country", 9, None, 1, None), Claim(6, 5, "based_in", 8, None, 1, None),
                 Claim(7, 5, "first_season", None, 6, 3, None), Claim(8, 10, "composed_by", 1, None, 1, 4),
                 Claim(9, 3, "sitelink_count", None, 3, 1, None), Claim(10, 1, "has_genre", 11, None, 1, 1),
                 Claim(13, 1, "born_on", None, 1, 1, 1), Claim(14, 2, "born_on", None, 1, 1, 2),
                 Claim(15, 1, "born_on", None, 2, 2, 1), Claim(16, 2, "born_on", None, 2, 3, 2),
                 Claim(17, 5, "first_season", None, 6, 1, None), Claim(18, 6, "first_season", None, 5, 2, 3),
                 Claim(19, 5, "first_season", None, 5, 2, None),
                 Claim(11, 10, "part_of", 7, None, 1, 4)},
     records |-> {Record(1, 1), Record(2, 2), Record(3, 6), Record(4, 10)},
     runs |-> {1},
     works |-> (21 :> 2 @@ 22 :> 4),
     titles |-> {21, 22},
     links |-> {<<21, 22>>},
     mentions |-> ("m1" :> [composer |-> 2, work |-> 21, title |-> 41, run |-> 1]
                @@ "m2" :> [composer |-> 1, work |-> None, title |-> 42, run |-> 1]),
     workEntities |-> {[work |-> 21, entity |-> 10, source |-> 1]},
     events |-> (31 :> "concert" @@ 32 :> "concert" @@ 33 :> "recording"),
     credits |-> {Credit(31, 3, "soloist"), Credit(31, 5, "ensemble"), Credit(32, 6, "ensemble"),
                  Credit(33, 3, "soloist"), Credit(33, 3, "conductor"), Credit(33, 2, "performer"),
                  Credit(32, None, "soloist")},
     items |-> {Item(31, "m1"), Item(32, "m1"), Item(33, "m2"), Item(33, "m1"), Item(31, "m2")}]

\* The orchestra of Ben's ensemble, which is on no programme, and links that no pass made yet.
MCSilvers == {World, [World EXCEPT !.canonical = NoRows, !.claims = @ \union {Claim(12, 7, "based_in", 9, None, 1, None)}]}

Options(evidence, collapse, prune, referrers) ==
    [evidence |-> evidence, collapse |-> collapse, prune |-> prune, referrers |-> referrers]
MCConfigs == {Options(TRUE, TRUE, TRUE, 1), Options(TRUE, TRUE, FALSE, 2), Options(FALSE, FALSE, TRUE, 2)}
Least(concerts, recordings, works, programmes, sitelinks) ==
    [persons |-> [concerts |-> concerts, recordings |-> recordings, appearancesOfComposers |-> 0,
                  works |-> works, programmes |-> programmes, sitelinks |-> sitelinks],
     ensembles |-> [concerts |-> concerts, recordings |-> recordings]]
MCDefaults == Least(1, 1, 1, 1, None)
MCThresholds == {Least(2, 2, 2, 4, 3)}

\* A load sights Ann again and brings a quartet that nobody booked, in which Ben plays, or a
\* work of his; a dedupe pass links him and lets go of a spelling of hers; the concerts are
\* derived again, and one credit is another's.
Rows(kinds, canonical, claims, records, runs, works, mentions, credits) ==
    [kinds |-> kinds, canonical |-> canonical, claims |-> claims, records |-> records, runs |-> runs,
     works |-> works, titles |-> {}, links |-> {}, mentions |-> mentions, workEntities |-> {}, events |-> NoRows,
     credits |-> credits, items |-> {}]
Empty == Rows(NoRows, NoRows, {}, {}, {}, NoRows, NoRows, {})
NoKeys == [table \in DOMAIN Empty |-> {}]
MCLate == {[adds |-> Rows(12 :> "ensemble", NoRows, {Claim(20, 3, "part_of", 12, None, 2, 5)},
                          {[Record(1, 1) EXCEPT !.run = 2], [Record(5, 3) EXCEPT !.run = 2]}, {2}, NoRows, NoRows, {}),
            drops |-> [NoKeys EXCEPT !.records = {Record(1, 1)}]],
           [adds |-> [Empty EXCEPT !.runs = {3}, !.works = 23 :> 3, !.titles = {23},
                                   !.mentions = "m3" :> [composer |-> 3, work |-> 23, title |-> 43, run |-> 3]],
            drops |-> NoKeys],
           [adds |-> [Empty EXCEPT !.canonical = 3 :> 1], drops |-> [NoKeys EXCEPT !.canonical = {2}]],
           [adds |-> [Empty EXCEPT !.credits = {Credit(32, 7, "ensemble")}],
            drops |-> [NoKeys EXCEPT !.credits = {Credit(33, 3, "conductor")}]]}

\* No two of these commits write the same row.
MCSilverStates ==
    {FoldSet(LAMBDA c, s : Committed(s, c), first, commits) : first \in MCSilvers, commits \in SUBSET MCLate}

MCKumuConfigs == {[limit |-> 1, weight |-> 1, performances |-> TRUE, claims |-> TRUE],
                  [limit |-> 0, weight |-> 2, performances |-> TRUE, claims |-> FALSE]}
MCLog == [n \in 0 .. 20 |-> 10 + 4 * n]
MCInverseRoot == <<100, 70, 58, 50, 45, 41, 38, 35, 33, 32, 30, 29>>
=============================================================================
