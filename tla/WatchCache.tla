----------------------------- MODULE WatchCache -----------------------------
(***************************************************************************)
(* A client-side mirror of one resource kind: an API server changes       *)
(* objects and emits watch events, the transport hands them over, and the *)
(* cache folds each delivered event into its list with                    *)
(* KubeList.applyUpdate, one event at a time (single writer).             *)
(*                                                                         *)
(* The server and the transport are the environment: the server side      *)
(* follows Kubernetes (a uid is never reused, every change bumps one      *)
(* global resourceVersion), the transport is either an ordered stream or  *)
(* one that may reorder and duplicate (transport).  The cache side is    *)
(* the code: Deliver is KubeList.applyUpdate plus the publication of     *)
(* the new list.                                                          *)
(***************************************************************************)
EXTENDS Naturals, Sequences, FiniteSets, SequencesExt

CONSTANTS
  Uids,           \* uids the server may assign
  NoUid,          \* uid of an object without one (ERROR Status, BOOKMARK)
  NoVersion,      \* resourceVersion of an object without one
  MaxLog,         \* bound on the number of events the server emits
  MaxDeliveries,  \* bound on deliveries (duplicates make them unbounded)
  Transports      \* the kinds of transport a watch may run over

\* "ordered": in emission order, exactly once; "unreliable": any order,
\* possibly more than once.
TransportKinds == {"ordered", "unreliable"}

ASSUME MaxLog \in Nat /\ MaxDeliveries \in Nat
ASSUME Transports \subseteq TransportKinds /\ Transports # {}

VARIABLES
  server,    \* uid -> "absent" | "live" | "deleted"
  revision,  \* the server's resourceVersion counter
  log,       \* every event the server has emitted, in emission order
  inflight,  \* indices into log not yet (or, if unreliable, again) deliverable
  list,      \* the cached KubeList: [items, rv]
  applied,   \* history: indices of log, in the order the cache applied them
  transport  \* the kind of transport of this watch (fixed)

vars == <<server, revision, log, inflight, list, applied, transport>>

KL == INSTANCE KubeList

Event == [type : KL!KnownTypes \cup {"BOOKMARK"},
          uid  : Uids \cup {NoUid}, rv : Nat \cup {NoVersion}]

TypeOK ==
  /\ server \in [Uids -> {"absent", "live", "deleted"}]
  /\ revision \in Nat
  /\ log \in Seq(Event)
  /\ inflight \subseteq 1..Len(log)
  /\ list.items \in Seq([uid : Uids, rv : Nat])
  /\ list.rv \in Nat \cup {NoVersion}
  /\ applied \in Seq(1..Len(log))
  /\ transport \in Transports

Init ==
  /\ server = [u \in Uids |-> "absent"]
  /\ revision = 0
  /\ log = <<>>
  /\ inflight = {}
  /\ list = [items |-> <<>>, rv |-> 0]   \* the initial (empty) list at rv 0
  /\ applied = <<>>
  /\ transport \in Transports

(***************************************************************************)
(* Environment: the API server.                                           *)
(***************************************************************************)
Emit(e) ==
  /\ log' = Append(log, e)
  /\ inflight' = inflight \cup {Len(log) + 1}

ServerChange(u, from, to, type) ==
  /\ Len(log) < MaxLog
  /\ server[u] = from
  /\ server' = [server EXCEPT ![u] = to]
  /\ revision' = revision + 1
  /\ Emit([type |-> type, uid |-> u, rv |-> revision + 1])
  /\ UNCHANGED <<list, applied, transport>>

Create(u) == ServerChange(u, "absent", "live", "ADDED")
Modify(u) == ServerChange(u, "live", "live", "MODIFIED")
Delete(u) == ServerChange(u, "live", "deleted", "DELETED")

\* A watch error: a Status object, which has neither uid nor resourceVersion.
WatchError ==
  /\ Len(log) < MaxLog
  /\ Emit([type |-> "ERROR", uid |-> NoUid, rv |-> NoVersion])
  /\ UNCHANGED <<server, revision, list, applied, transport>>

\* A type outside the code's switch (e.g. a BOOKMARK carrying the cursor).
Bookmark ==
  /\ Len(log) < MaxLog
  /\ Emit([type |-> "BOOKMARK", uid |-> NoUid, rv |-> revision])
  /\ UNCHANGED <<server, revision, list, applied, transport>>

(***************************************************************************)
(* The cache: the transport hands over event i, the cache applies it.     *)
(***************************************************************************)
Deliverable ==
  IF transport # "ordered" \/ inflight = {} THEN inflight
  ELSE {CHOOSE i \in inflight : \A j \in inflight : i <= j}

Deliver(i) ==
  /\ i \in Deliverable
  /\ Len(applied) < MaxDeliveries
  /\ list' = KL!ApplyUpdate(list, log[i])
  /\ applied' = Append(applied, i)
  /\ \/ inflight' = inflight \ {i}
     \/ transport = "unreliable" /\ UNCHANGED inflight
  /\ UNCHANGED <<server, revision, log, transport>>

Next ==
  \/ \E u \in Uids : Create(u) \/ Modify(u) \/ Delete(u)
  \/ WatchError
  \/ Bookmark
  \/ \E i \in 1..Len(log) : Deliver(i)

\* The cache processes whatever the transport has delivered; the server is
\* free to stop changing.
Fairness == WF_vars(\E i \in 1..Len(log) : Deliver(i))

Spec == Init /\ [][Next]_vars /\ Fairness

(***************************************************************************)
(* What the server holds after its first k events, in the order the       *)
(* objects were created: the reference the cache is compared against.     *)
(***************************************************************************)
LiveAfter(k) ==
  {u \in Uids : \E i \in 1..k : log[i].uid = u /\ log[i].type = "ADDED"}
  \ {u \in Uids : \E i \in 1..k : log[i].uid = u /\ log[i].type = "DELETED"}

LastRvAfter(u, k) ==
  log[CHOOSE i \in 1..k : log[i].uid = u /\ \A j \in 1..k : log[j].uid = u => j <= i].rv

CreatedAt(u) == CHOOSE i \in 1..Len(log) : log[i].uid = u /\ log[i].type = "ADDED"

ServerItemsAfter(k) ==
  SetToSortSeq({[uid |-> u, rv |-> LastRvAfter(u, k)] : u \in LiveAfter(k)},
               LAMBDA a, b : CreatedAt(a.uid) < CreatedAt(b.uid))

CachedUids == {list.items[i].uid : i \in 1..Len(list.items)}

\* The mirror claims are made of ordered transports only.
Ordered == transport = "ordered"

(***************************************************************************)
(* Properties.                                                             *)
(***************************************************************************)

\* Over an ordered stream, after the cache applied the first k events its
\* items are exactly the server's objects after k events, at the same
\* resourceVersions and in creation order (applyUpdate's replace-in-place
\* keeps the display order stable).
MirrorsServer == Ordered => list.items = ServerItemsAfter(Len(applied))

\* Whatever the transport does, the cached list never holds two items with
\* one uid (applyUpdate's findIndex before push).
UidsUnique ==
  \A i, j \in 1..Len(list.items) : list.items[i].uid = list.items[j].uid => i = j

\* Spec 8: applying an event the cache has received a second time leaves
\* the list (items and cursor) as applying it once did, from every list the
\* cache can reach: what makes a duplicated delivery harmless.
ApplyIdempotent ==
  \A i \in 1..Len(log) :
    LET once == KL!ApplyUpdate(list, log[i])
    IN KL!ApplyUpdate(once, log[i]) = once

\* Whatever the transport's order, once every emitted event has been
\* delivered each object alive on the server is in the cache.
CompleteWhenDrained ==
  inflight = {} => {u \in Uids : server[u] = "live"} \subseteq CachedUids

\* Spec 4.1: the cursor is the resourceVersion of the last applied event,
\* unchanged by ERROR (and by unknown types).
CursorTracksServer ==
  LET carrying == {j \in 1..Len(applied) : log[applied[j]].type \in {"ADDED", "MODIFIED", "DELETED"}}
  IN carrying # {} =>
       list.rv = log[applied[CHOOSE j \in carrying : \A k \in carrying : k <= j]].rv
=============================================================================
