---------------------------- MODULE MCIngestRuns ----------------------------
(***************************************************************************)
(* Small instances of IngestRuns for TLC: two versions of each of two      *)
(* documents, a record and a mention whose composer changes.  The entity   *)
(* of one is an object of another, so that loads of two sources mint the   *)
(* same entities at different times: before a record, with a mention that  *)
(* is known, at the end of a batch and at the end of a load.               *)
(***************************************************************************)
EXTENDS IngestRuns

CONSTANTS r1, r2, r3, a, b, x, y, z

MCSourceOf == [r \in {r1, r2, r3} |-> IF r = r3 THEN b ELSE a]

First == [id |-> 1, content |-> "v1", entity |-> x, objects |-> {y}]
FirstChanged == [id |-> 1, content |-> "v2", entity |-> x, objects |-> {}]
Second == [id |-> 2, content |-> "v1", entity |-> y, objects |-> {}]
SecondRenamed == [id |-> 2, content |-> "v2", entity |-> z, objects |-> {}]

MCFeeds == {<<First>>, <<FirstChanged, Second>>, <<SecondRenamed, First, FirstChanged>>}
=============================================================================
