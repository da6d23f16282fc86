--------------------------- MODULE MC_WatchCache ---------------------------
(***************************************************************************)
(* Model-checking instance of WatchCache: two uids, enough events for one *)
(* object to be created, modified and deleted while another is created.   *)
(***************************************************************************)
EXTENDS WatchCache

CONSTANTS u1, u2

MC_Uids == {u1, u2}
=============================================================================
