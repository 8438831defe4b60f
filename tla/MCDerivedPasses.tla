--------------------------- MODULE MCDerivedPasses ---------------------------
(***************************************************************************)
(* One composer, whose symphony has an arrangement and a volume that holds *)
(* it; two works without a composer, of which the third folds into the     *)
(* symphony and teaches it the number by which the next run folds the      *)
(* second; three pages of two recordings and a concert.  The late entities *)
(* make what a name means ambiguous.                                       *)
(***************************************************************************)
EXTENDS DerivedPasses

CONSTANTS r1, r2
MCRefreshers == Permutations({r1, r2})

Plain(kind, name) ==
    [kind |-> kind, name |-> name, item |-> NoItem, aliases |-> {}, cities |-> {}, spells |-> {}, subset |-> FALSE]
MCEntity == [e \in Entities |->
    CASE e = "berlin" -> Plain("place", "Berlin")
      [] e \in {"Q64", "Q142659"} -> [Plain("place", "Berlin") EXCEPT !.item = e]
      [] e = "tone poem" -> Plain("genre", "tone poem")
      [] e = "Q1" -> [Plain("genre", "symphonic poem") EXCEPT !.item = e, !.aliases = {"tone poem"}]
      [] e \in {"Q2", "Q3"} -> [Plain("genre", "tone poem") EXCEPT !.item = e]
      [] e = "orchestra" -> [Plain("ensemble", "Symphony Orchestra") EXCEPT !.spells = {"Berlin"}]
      [] e = "Q4" -> [Plain("ensemble", "Rundfunk") EXCEPT !.item = e, !.aliases = {"Symphony Orchestra"}, !.cities = {"Berlin"}]
      [] e = "Q5" -> [Plain("ensemble", "Symphony Orchestra") EXCEPT !.item = e]
      [] e = "members" -> [Plain("ensemble", "Symphony Orchestra") EXCEPT !.subset = TRUE]
      [] e = "Ann" -> Plain("person", "Ann")
      [] e = "symphony" -> Plain("work", "symphony")]
MCMembers == [n \in {550, 551, 1000, 7} |-> IF n = 1000 THEN {550, 551} ELSE {}]

K(n) == {<<"KV", n>>}
By(composer, derivation, ids, parents) ==
    [composer |-> composer, derivation |-> derivation, ids |-> ids, parents |-> parents]
MCWorkOf == [w \in Works |->
    CASE w = "symphony" -> By("Ann", Original, K(550), {})
      [] w = "second" -> By("Nobody", Original, K(551), {})
      [] w = "third" -> By("Nobody", Original, K(550) \union K(551) \union {<<"wikidata", 7>>}, {})
      [] w = "arrangement" -> By("Ann", "arrangement", {}, K(551))
      [] w = "volume" -> By("Ann", Original, K(1000), {})]

\* A work without a composer folds into the one whose number it has, of those that had it
\* when the run began (merge.py:138-149).
MCMerges(some, into) ==
    LET known(w) == UNION {MCWorkOf[v].ids : v \in {u \in Works : into[u] = w}}
        owners(w) == {v \in some : MCWorkOf[v].composer = "Ann" /\ known(v) \intersect known(w) # {}}
    IN  [w \in some |->
            IF MCWorkOf[w].composer = "Nobody" /\ owners(w) # {} THEN CHOOSE v \in owners(w) : TRUE ELSE w]

Page(key, catalogue, credits) ==
    [key |-> key, fields |-> [title |-> "Album", catalogue |-> catalogue], credits |-> credits]
First == Page(1, "C1", <<<<"Sir Ann", "conductor", Null>>>>)
Second == Page(2, Null, <<<<"Ann", "soloist", "piano">>, <<"Ben", "performer", Null>>>>)
Third == Page(3, "C2", <<<<"Ben", "conductor", Null>>>>)
Concert == Page(4, Null, <<<<"Rundfunk", "ensemble", Null>>, <<"Ann", "soloist", Null>>>>)
MCPerformer == [n \in Names |-> IF n = "Sir Ann" THEN "Ann" ELSE n]
MCSourceOf == [k \in Keys |-> 1]
MCRecordingPayload == {First, Second, Third}
MCConcertPayload == {Concert}
MCSightings == <<{First}, {Second}, {Third}, {Concert}>>
MCWorksFor == <<{"symphony"}, {"second", "third"}, {"arrangement"}, {"volume"}>>
MCComposerOf == [m \in Mentions |-> "Ann"]
MCPartOf == <<{}, {}, {}, {7}>>
MCRecordOf == <<"symphony", Nothing, Nothing, Nothing>>

Rows(M) == [m \in Mentions |->
    IF m \in M THEN [payload |-> CHOOSE p \in MCSightings[m] : TRUE, work |-> CHOOSE w \in MCWorksFor[m] : TRUE]
    ELSE Nothing]
Silver(M, late) ==
    [minted |-> Entities \ late, mentions |-> Rows(M), works |-> UNION {MCWorksFor[m] : m \in M}]
MCBase == {Silver({1, 2, 4}, {"Q142659", "Q2"}), Silver({1, 2, 3}, {"Q2", "Q3", "Q5"})}
\* Beside the run: the first page is the last to be loaded.
MCBaseLater == {Silver({2, 3}, {})}
=============================================================================
