---------------------------- MODULE MC_Throttle ----------------------------
(***************************************************************************)
(* Model-checking instance of Throttle: an interval of 2 ticks, a clock   *)
(* of 8 ticks and 4 source values, enough for two immediate emissions,    *)
(* a superseded timer, a trailing emission and an emission after it.      *)
(***************************************************************************)
EXTENDS Throttle
=============================================================================
