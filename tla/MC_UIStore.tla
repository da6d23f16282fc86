----------------------------- MODULE MC_UIStore -----------------------------
(***************************************************************************)
(* Model-checking instance of UIStore: one key per keyed registry, one    *)
(* header-action id carried by two different functions, one plugin        *)
(* section, one theme, and room for one reset after module load.          *)
(***************************************************************************)
EXTENDS UIStore

CONSTANTS k1, v1, a1, f1, f2, s1, t1

MC_Keys == {k1}
MC_Vals == {v1}
MC_Ids == {a1}
MC_Fns == {f1, f2}
MC_Sections == {s1}
MC_Themes == {t1}
=============================================================================
