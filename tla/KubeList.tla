------------------------------ MODULE KubeList ------------------------------
(***************************************************************************)
(* KubeList.applyUpdate (src/frontend/src/lib/k8s/api/v2/KubeList.ts):    *)
(* the pure reducer that applies one watch event to a list of Kubernetes *)
(* resources.  A resource is abstracted to its identity (uid) and its     *)
(* resourceVersion; `new itemClass(update.object)` wraps the raw object   *)
(* without changing either, so Construct keeps both.                      *)
(***************************************************************************)
EXTENDS Naturals, Sequences, SequencesExt

CONSTANTS
  NoUid,      \* metadata.uid of an object that has none (an ERROR Status)
  NoVersion   \* metadata.resourceVersion of an object that has none

\* The event types the code's switch names; any other string takes `default`.
KnownTypes == {"ADDED", "MODIFIED", "DELETED", "ERROR"}

\* An item of the list: what `new itemClass(update.object)` keeps of it.
Construct(update) == [uid |-> update.uid, rv |-> update.rv]

\* items.findIndex(item => item.metadata.uid === update.object.metadata.uid),
\* shifted to 1-based: 0 stands for -1 (not found).
IndexOfUid(items, uid) == SelectInSeq(items, LAMBDA it : it.uid = uid)

(***************************************************************************)
(* Mutants: plausible slips in the two branches of the switch.            *)
(***************************************************************************)
\* ADDED/MODIFIED without the findIndex check: always push.
UpsertAlwaysAppend(items, index, update) == Append(items, Construct(update))
\* DELETED without `if (index !== -1)`: splice(-1, 1) drops the last item.
DeleteUnguarded(items, index) ==
  IF index # 0 THEN RemoveAt(items, index)
  ELSE IF items = <<>> THEN items ELSE RemoveAt(items, Len(items))
\* DELETED that forgets to splice.
DeleteNothing(items, index) == items

-----------------------------------------------------------------------------
\* case 'ADDED' / 'MODIFIED': replace in place if present, else push.
UpsertItem(items, index, update) ==
  IF index # 0 THEN ReplaceAt(items, index, Construct(update))
               ELSE Append(items, Construct(update))

\* case 'DELETED': splice the item out if present.
DeleteItem(items, index) ==
  IF index # 0 THEN RemoveAt(items, index) ELSE items

\* ERROR grouped with ADDED/MODIFIED (a fallthrough into the upsert).
ApplyUpdateErrorAsUpsert(list, update) ==
  LET index == IndexOfUid(list.items, update.uid)
      newItems ==
        CASE update.type \in {"ADDED", "MODIFIED", "ERROR"} ->
               IF index # 0 THEN ReplaceAt(list.items, index, Construct(update))
                            ELSE Append(list.items, Construct(update))
          [] update.type = "DELETED" -> DeleteItem(list.items, index)
          [] OTHER -> list.items
  IN [items |-> newItems, rv |-> update.rv]

\* KubeList.applyUpdate(list, update, itemClass).  ERROR and unknown types
\* only log (console.error); every type overwrites the cursor with the
\* event object's resourceVersion.
ApplyUpdate(list, update) ==
  LET index == IndexOfUid(list.items, update.uid)
      newItems ==
        CASE update.type \in {"ADDED", "MODIFIED"} -> UpsertItem(list.items, index, update)
          [] update.type = "DELETED"               -> DeleteItem(list.items, index)
          [] OTHER                                 -> list.items
  IN [items |-> newItems, rv |-> update.rv]
=============================================================================
