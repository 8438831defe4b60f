--------------------------- MODULE MCPersonLinks ---------------------------
(***************************************************************************)
(* Small instances of PersonLinks for TLC.  The sessions are alike.        *)
(***************************************************************************)
EXTENDS PersonLinks

MCSessions == Permutations(Commands)
=============================================================================
