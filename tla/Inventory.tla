----------------------------- MODULE Inventory -----------------------------
(***************************************************************************)
(* services/collector/internal/inventory: the collector's copy of the      *)
(* cluster, kept by one list/watch loop per scope (watch.go) in a store    *)
(* that all of them share (store.go).                                      *)
(*                                                                         *)
(* The API server is the environment.  Its state is the log of changes to  *)
(* the objects; a resourceVersion is a position in that log, so that a     *)
(* list returns the objects as of the end of the log, and a watch from     *)
(* resourceVersion n delivers the later changes of its scope in order, or  *)
(* fails.  The content of an object is the position of the change that     *)
(* gave it that content.                                                   *)
(***************************************************************************)
EXTENDS Integers, Sequences, FiniteSetsExt

CONSTANTS
    Objects,        \* API objects, named by their UIDs
    KindOf,         \* the kind of each
    NamespaceOf,    \* the namespace of each
    Configurations, \* the sets of kindSpecs (kind and namespace) to look at together
    MaxPodHistory,  \* maxPodHistory
    MaxChanges,     \* bound on the changes to the cluster
    MaxFailures     \* bound on failed calls and on streams that end

(* The namespace of a cluster-wide kindSpec.                               *)
AllNamespaces == ""

InScope(o, s) == KindOf[o] = s.kind /\ s.namespace \in {AllNamespaces, NamespaceOf[o]}

ObjectsIn(s) == {o \in Objects : InScope(o, s)}

Scope == [kind: {KindOf[o] : o \in Objects},
          namespace: {AllNamespaces} \cup {NamespaceOf[o] : o \in Objects}]

(* New and secretSpecs: a kind is watched cluster-wide, or in namespaces   *)
(* that differ.                                                            *)
ASSUME InventoryAssumption ==
    /\ Configurations \subseteq SUBSET Scope
    /\ \A c \in Configurations : \A s, t \in c : s # t => ObjectsIn(s) \cap ObjectsIn(t) = {}
    /\ MaxPodHistory \in Nat /\ MaxChanges \in Nat /\ MaxFailures \in Nat

VARIABLES
    specs,      \* Collector.specs: the scopes that have a loop
    log,        \* the API server: the changes to the cluster, in order
    failures,   \* failed calls and ended streams so far
    cancelled,  \* whether the loops' context is done
    pc,         \* per scope: list, watch, stream, stopped
    rv,         \* per scope: the resourceVersion the next watch starts from
    base,       \* per scope: the resourceVersion of the first list
    gaps,       \* the scopes about which a gap was recorded
    objs,       \* Store.objs: each object's content, 0 if it is not there
    history,    \* Store.history: the Pods observed
    versions,   \* Store.versions: content and version of the Secrets observed
    synced      \* Store.synced

clusterVars == <<specs, log, failures>>
storeVars == <<objs, history, versions, synced>>
inventoryVars == <<specs, log, failures, cancelled, pc, rv, base, gaps, objs, history, versions, synced>>

Change == [uid: Objects, type: {"added", "modified", "deleted"}]

(* The content of an object as of resourceVersion n, 0 if there is none.   *)
ChangesTo(o, n) == {i \in 1..n : log[i].uid = o}

At(o, n) ==
    LET cs == ChangesTo(o, n)
    IN  IF cs = {} THEN 0 ELSE IF log[Max(cs)].type = "deleted" THEN 0 ELSE Max(cs)

Now == Len(log)

InventoryInit ==
    /\ specs \in Configurations
    /\ log = <<>>
    /\ failures = 0
    /\ cancelled = FALSE
    /\ pc = [s \in specs |-> "list"]
    /\ rv = [s \in specs |-> 0]
    /\ base = [s \in specs |-> 0]
    /\ gaps = {}
    /\ objs = [o \in Objects |-> 0]
    /\ history = {}
    /\ versions = [o \in Objects |-> [rv |-> 0, version |-> 0]]
    /\ synced = {}

-----------------------------------------------------------------------------
(* The cluster, as far as a loop looks, until the loops are cancelled: a   *)
(* later change is like one before that which is not delivered.  A UID is  *)
(* never used again.                                                       *)

ChangesWith(o, type) ==
    /\ ~cancelled
    /\ Len(log) < MaxChanges
    /\ IF type = "added" THEN ChangesTo(o, Now) = {} ELSE At(o, Now) # 0
    /\ \E s \in specs : InScope(o, s)
    /\ log' = Append(log, [uid |-> o, type |-> type])

-----------------------------------------------------------------------------
(* The store.  Each operation runs under its lock.                         *)

(* observeLocked that counts every observation of a Secret.                *)
ObservedAlways(v, content) == [rv |-> content, version |-> v.version + 1]

(* observeLocked, for the objects of S with the contents they have in c.   *)
(* The history takes what fits, in any order.                              *)
ObservedVersion(v, content) ==
    IF v.rv = content THEN v ELSE [rv |-> content, version |-> v.version + 1]

Observe(S, c) ==
    /\ versions' = [o \in Objects |->
                        IF o \in S /\ KindOf[o] = "secrets" THEN ObservedVersion(versions[o], c[o])
                        ELSE versions[o]]
    /\ LET new == {o \in S : KindOf[o] = "pods"} \ history
           room == MaxPodHistory - Cardinality(history)
       IN  \E P \in kSubset(Min({Cardinality(new), room}), new) : history' = history \cup P

Upsert(o, content) ==
    /\ objs' = [objs EXCEPT ![o] = content]
    /\ Observe({o}, [x \in {o} |-> content])
    /\ UNCHANGED synced

Delete(o) ==
    /\ objs' = [objs EXCEPT ![o] = 0]
    /\ UNCHANGED <<history, versions, synced>>

(* A relist that replaces all objects of the kind.                         *)
ReplaceKind(s, items) ==
    /\ objs' = [o \in Objects |-> IF o \in ObjectsIn(s) THEN items[o]
                                  ELSE IF KindOf[o] = s.kind THEN 0 ELSE objs[o]]
    /\ Observe({o \in ObjectsIn(s) : items[o] # 0}, items)
    /\ synced' = synced \cup {s}

(* ReplaceIn: only the objects of the scope are replaced.                  *)
ReplaceIn(s, items) ==
    /\ objs' = [o \in Objects |-> IF o \in ObjectsIn(s) THEN items[o] ELSE objs[o]]
    /\ Observe({o \in ObjectsIn(s) : items[o] # 0}, items)
    /\ synced' = synced \cup {s}

-----------------------------------------------------------------------------
(* The loop of a scope.                                                    *)

Goto(s, place) == pc' = [pc EXCEPT ![s] = place]

Gap(s) == gaps' = gaps \cup {s}

Fails ==
    /\ failures < MaxFailures
    /\ failures' = failures + 1

(* A list that succeeds.  Every list but the first is recorded as a gap    *)
(* (relist).                                                               *)
List(s) ==
    /\ pc[s] = "list" /\ ~cancelled
    /\ ReplaceIn(s, [o \in ObjectsIn(s) |-> At(o, Now)])
    /\ rv' = [rv EXCEPT ![s] = Now]
    /\ base' = IF s \in synced THEN base ELSE [base EXCEPT ![s] = Now]
    /\ IF s \in synced THEN Gap(s) ELSE UNCHANGED gaps
    /\ Goto(s, "watch")
    /\ UNCHANGED <<clusterVars, cancelled>>

(* list-failed; after a pause the list is tried again.                     *)
ListFails(s) ==
    /\ pc[s] = "list" /\ ~cancelled
    /\ Fails
    /\ Gap(s)
    /\ UNCHANGED <<specs, log, cancelled, pc, rv, base, storeVars>>

Watch(s) ==
    /\ pc[s] = "watch" /\ ~cancelled
    /\ Goto(s, "stream")
    /\ UNCHANGED <<clusterVars, cancelled, rv, base, gaps, storeVars>>

(* The watch is refused (resource-version-expired, watch-failed): relist.  *)
WatchFails(s) ==
    /\ pc[s] = "watch" /\ ~cancelled
    /\ Fails
    /\ Gap(s)
    /\ Goto(s, "list")
    /\ UNCHANGED <<specs, log, cancelled, rv, base, storeVars>>

(* The stream delivers the first change after rv.  It may do so after the  *)
(* context is done: select takes either.                                   *)
Pending(s) == {i \in rv[s] + 1..Now : log[i].uid \in ObjectsIn(s)}

Deliver(s) ==
    /\ pc[s] = "stream"
    /\ Pending(s) # {}
    /\ LET i == Min(Pending(s))
       IN  /\ IF log[i].type = "deleted" THEN Delete(log[i].uid) ELSE Upsert(log[i].uid, i)
           /\ rv' = [rv EXCEPT ![s] = i]
    /\ UNCHANGED <<clusterVars, cancelled, pc, base, gaps>>

(* A bookmark: nothing to deliver up to there.                             *)
Bookmark(s) ==
    /\ pc[s] = "stream"
    /\ \E n \in rv[s] + 1..Now :
         /\ \A i \in Pending(s) : n < i
         /\ rv' = [rv EXCEPT ![s] = n]
    /\ UNCHANGED <<clusterVars, cancelled, pc, base, gaps, storeVars>>

(* The stream reports an error (resource-version-expired, watch-error):    *)
(* relist.                                                                 *)
StreamError(s) ==
    /\ pc[s] = "stream"
    /\ Fails
    /\ Gap(s)
    /\ Goto(s, "list")
    /\ UNCHANGED <<specs, log, cancelled, rv, base, storeVars>>

(* The loop gives up when the stream ends.                                 *)
StreamEndsLoop(s) ==
    /\ pc[s] = "stream" /\ ~cancelled
    /\ Fails
    /\ Gap(s)
    /\ Goto(s, "stopped")
    /\ UNCHANGED <<specs, log, cancelled, rv, base, storeVars>>

(* The stream ends (watch-restarted): watch again from rv.                 *)
StreamEnds(s) ==
    /\ pc[s] = "stream" /\ ~cancelled
    /\ Fails
    /\ Gap(s)
    /\ Goto(s, "watch")
    /\ UNCHANGED <<specs, log, cancelled, rv, base, storeVars>>

(* A loop that does not look at the context between list and watch.        *)
LoopStopsLate(s) ==
    /\ cancelled
    /\ pc[s] \in {"list", "stream"}
    /\ Goto(s, "stopped")
    /\ UNCHANGED <<clusterVars, cancelled, rv, base, gaps, storeVars>>

LoopStops(s) ==
    /\ cancelled
    /\ pc[s] # "stopped"
    /\ Goto(s, "stopped")
    /\ UNCHANGED <<clusterVars, cancelled, rv, base, gaps, storeVars>>

Cancel ==
    /\ ~cancelled
    /\ cancelled' = TRUE
    /\ UNCHANGED <<clusterVars, pc, rv, base, gaps, storeVars>>

Loop(s) ==
    \/ List(s)
    \/ ListFails(s)
    \/ Watch(s)
    \/ WatchFails(s)
    \/ Deliver(s)
    \/ Bookmark(s)
    \/ StreamError(s)
    \/ StreamEnds(s)
    \/ LoopStops(s)
=============================================================================
