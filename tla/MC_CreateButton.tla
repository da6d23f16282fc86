--------------------------- MODULE MC_CreateButton ---------------------------
(***************************************************************************)
(* Model-checking instance of CreateButton: two clusters, every selection *)
(* of them (none, either one, both).                                       *)
(***************************************************************************)
EXTENDS CreateButton

CONSTANTS c1, c2

MC_Selections == {<<>>, <<c1>>, <<c2>>, <<c1, c2>>}
=============================================================================
