---------------------------- MODULE MC_Pipeline ----------------------------
(***************************************************************************)
(* Model-checking instance of Pipeline: up to two processors per pipeline,*)
(* appending an 'age' column, a column object or an unknown column name.  *)
(***************************************************************************)
EXTENDS Pipeline
=============================================================================
