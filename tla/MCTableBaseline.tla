--------------------------- MODULE MCTableBaseline ---------------------------
(***************************************************************************)
(* TableBaseline for TLC: a table of two columns that may turn into any    *)
(* other table of three.                                                   *)
(***************************************************************************)
EXTENDS TableBaseline

MCNames  == 1 .. 3
MCLevels == {0, 9}
MCTable  == [n \in {1, 2} |-> [type |-> "text", nulls |-> 0]]
=============================================================================
