--------------------------- MODULE MCHistorySync ---------------------------
(***************************************************************************)
(* Model checking HistorySync: every transfer goes one way, so that with   *)
(* pages of one transfer this direction has several; the other is empty.   *)
(***************************************************************************)
EXTENDS HistorySync

MCDirOf == [t \in Transfer |-> "to"]

MCTokenOf == [t \in Transfer |-> IF t = 1 THEN "unlisted" ELSE "listed"]
=============================================================================
