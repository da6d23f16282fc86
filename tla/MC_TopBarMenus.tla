---------------------------- MODULE MC_TopBarMenus ----------------------------
(***************************************************************************)
(* Model-checking instance of TopBarMenus and the settings page it leads   *)
(* to: two default row options, typed values around the ends of            *)
(* [5, 1000], and two timezones.                                           *)
(***************************************************************************)
EXTENDS TopBarMenus

\* The real defaults are [15, 25, 50]; two of them keep the menu small.
MC_DefaultOptions == <<15, 25>>
\* Below, at and above the range's ends, inside it, and a default.
MC_Typed == {4, 5, 20, 1001, 15}
====
