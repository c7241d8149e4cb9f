---------------------------- MODULE MCTableTree ------------------------------
(* A small instance of TableTree for TLC. *)
EXTENDS TableTree

MCTables     == <<"t", "u">>
MCLeaves     == <<"chain", "counter">>
MCObjects    == {"counter"}
MCResettable == {"counter"}

(* Windows of one row and of two; the program starts with one of no end. *)
MCHeights    == {1, 2}

(* Matching a table, the leaves of one name, nothing. *)
MCQueries    == {{"u"}, {"chain"}, {}}
=============================================================================
