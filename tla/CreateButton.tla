----------------------------- MODULE CreateButton -----------------------------
(***************************************************************************)
(* CreateButton (CreateButton.tsx): the target cluster of "Create /        *)
(* Apply".  The component keeps targetCluster in state and resets it in a  *)
(* passive effect on [clusters] when it is no longer selected.             *)
(* openActivity builds the dialog element when it is called: the          *)
(* cluster Select's options and value are those of that render, and the   *)
(* launched activity keeps showing that element.                          *)
(*                                                                         *)
(* useSelectedClusters (not under src/) returns the selected clusters;    *)
(* whether a render that leaves the selection alone hands back a new      *)
(* array (and so re-runs the effect) is not fixed by this code: it is a   *)
(* nondeterministic choice.  errorMessage is only ever set to '', so it   *)
(* is left out.                                                           *)
(***************************************************************************)
EXTENDS Sequences, SequencesExt

CONSTANTS
  Selections,  \* the cluster selections the user can make (sequences)
  None         \* no activity open

VARIABLES
  clusters,    \* useSelectedClusters()
  target,      \* targetCluster
  effectDue,   \* the [clusters] effect is due
  activity     \* None, or the launched dialog: its options and its value

vars == <<clusters, target, effectDue, activity>>

Clusters == UNION {Range(s) : s \in Selections}

\* clusters[0] || ''
FirstOr(cs) == IF cs = <<>> THEN "" ELSE Head(cs)

TypeOK ==
  /\ clusters \in Selections
  /\ target \in Clusters \cup {""}
  /\ effectDue \in BOOLEAN
  /\ activity = None \/ activity \in [options : Selections, value : Clusters \cup {""}]

\* First render: useState(clusters[0] || ''); the effect runs after it.
Init ==
  /\ clusters \in Selections
  /\ target = FirstOr(clusters)
  /\ effectDue = TRUE
  /\ activity = None

\* React flushes passive effects before it handles a discrete event.
Quiet == ~effectDue

\* The user changes the cluster selection: a new `clusters` array.
SelectClusters(cs) ==
  /\ Quiet
  /\ cs # clusters
  /\ clusters' = cs
  /\ effectDue' = TRUE
  /\ UNCHANGED <<target, activity>>

\* The effect on [clusters]: none selected -> ''; a target that is no
\* longer selected -> the first selected cluster.
ClustersEffect ==
  /\ effectDue
  /\ target' = IF clusters = <<>> THEN ""
               ELSE IF target \notin Range(clusters) THEN Head(clusters)
               ELSE target
  /\ effectDue' = FALSE
  /\ UNCHANGED <<clusters, activity>>

\* openActivity: the dialog element, with a cluster Select only when more
\* than one cluster is selected, launched under the id 'create-button'
\* (launching again replaces it).
OpenActivity ==
  /\ Quiet
  /\ activity' = [options |-> IF Len(clusters) > 1 THEN clusters ELSE <<>>,
                  value |-> target]
  /\ UNCHANGED <<clusters, target, effectDue>>

\* The Select's onChange: setTargetCluster(chosen).  The re-render may or
\* may not bring a new `clusters` array.
ChooseTarget(c) ==
  /\ Quiet
  /\ activity # None
  /\ c \in Range(activity.options)
  /\ target' = c
  /\ effectDue' \in BOOLEAN
  /\ UNCHANGED <<clusters, activity>>

\* onClose: Activity.close(id).
CloseActivity ==
  /\ Quiet
  /\ activity # None
  /\ activity' = None
  /\ UNCHANGED <<clusters, target, effectDue>>

Next ==
  \/ \E cs \in Selections : SelectClusters(cs)
  \/ ClustersEffect
  \/ OpenActivity
  \/ \E c \in Clusters : ChooseTarget(c)
  \/ CloseActivity

Spec == Init /\ [][Next]_vars /\ WF_vars(ClustersEffect)

(***************************************************************************)
(* Properties.                                                             *)
(***************************************************************************)

\* The comment above the effect: once it has run, the target cluster is one
\* of the selected clusters ('' when none is selected).
TargetSelected ==
  Quiet => target = FirstOr(clusters) \/ target \in Range(clusters)
=============================================================================
