----------------------------- MODULE Collector -----------------------------
(***************************************************************************)
(* One run of the collector (cmd/afterlock-collector/main.go) over the     *)
(* list/watch loops of Inventory: requests to the API server leave audit   *)
(* records, run stops the loops and writes the bundle, and correlate       *)
(* (internal/bundle/bundle.go) finds the Pods that the records are about.  *)
(*                                                                         *)
(* An audit record names a Pod and not its UID.  Time is the number of     *)
(* changes to the cluster.  How records reach the spool, and what happens  *)
(* to gaps when it is full, is the subject of Webhook; here every record   *)
(* and every gap arrives.                                                  *)
(***************************************************************************)
EXTENDS Inventory

CONSTANTS
    NameOf,       \* the name of each object
    Window,       \* CorrelationWindow
    MaxRequests,  \* bound on the audit records
    Unknown       \* the UID of a target that was not found

ASSUME CollectorAssumption ==
    /\ Window \in Nat \ {0} /\ MaxRequests \in Nat
    /\ Unknown \notin Objects

VARIABLES
    requests,  \* the audit records: successful creations of Pods and execs into Pods
    outcome    \* how run ended: "none" yet, "bundle" written, or "error" returned

runVars == <<requests, outcome>>
vars == <<specs, log, failures, cancelled, pc, rv, base, gaps, objs, history, versions, synced,
          requests, outcome>>

Request == [resource: {"pods", "pods/exec"}, target: Objects, at: Nat]

Init ==
    /\ InventoryInit
    /\ requests = {}
    /\ outcome = "none"

-----------------------------------------------------------------------------
(* The cluster and its users.                                              *)

Live == {o \in Objects : At(o, Now) # 0}

NameFree(o) ==
    \A p \in Live : <<KindOf[p], NamespaceOf[p], NameOf[p]>> # <<KindOf[o], NamespaceOf[o], NameOf[o]>>

Audited(resource, o, at) ==
    /\ Cardinality(requests) < MaxRequests
    /\ requests' = requests \cup {[resource |-> resource, target |-> o, at |-> at]}

(* An object is created; the creation of a Pod may be a request that the   *)
(* audit policy covers.                                                    *)
Create(o) ==
    /\ NameFree(o)
    /\ ChangesWith(o, "added")
    /\ IF KindOf[o] = "pods" THEN Audited("pods", o, Now + 1) \/ UNCHANGED requests ELSE UNCHANGED requests
    /\ UNCHANGED <<specs, failures, cancelled, pc, rv, base, gaps, storeVars, outcome>>

ModifyOrDelete(o) ==
    /\ ChangesWith(o, "modified") \/ ChangesWith(o, "deleted")
    /\ UNCHANGED <<specs, failures, cancelled, pc, rv, base, gaps, storeVars, runVars>>

Exec(o) ==
    /\ ~cancelled
    /\ o \in Live
    /\ KindOf[o] = "pods"
    /\ Audited("pods/exec", o, Now)
    /\ UNCHANGED <<inventoryVars, outcome>>

-----------------------------------------------------------------------------
(* bundle.Write.                                                           *)

(* An object's creationTimestamp.                                          *)
Created(o) == Min(ChangesTo(o, Now))

(* correlate: the Pods observed with the request's name and with a         *)
(* creationTimestamp that fits.                                            *)
Matches(r) ==
    {p \in history :
        /\ NamespaceOf[p] = NamespaceOf[r.target] /\ NameOf[p] = NameOf[r.target]
        /\ Created(p) <= r.at + 1
        /\ r.resource = "pods" => Created(p) >= r.at - Window}

(* The first of the Pods that match.                                       *)
CorrelateFirst(r) == IF Matches(r) # {} THEN CHOOSE p \in Matches(r) : TRUE ELSE Unknown

(* No Pod or several become a gap.                                         *)
Correlate(r) ==
    IF Cardinality(Matches(r)) = 1 THEN CHOOSE p \in Matches(r) : TRUE ELSE Unknown

(* The scopes about which the bundle has a gap: those of the loops, and    *)
(* those never listed (inventory-unsynced).                                *)
BundleGaps == gaps \cup (specs \ synced)

(* run, after the loops have returned.                                     *)
LoopsReturned == outcome = "none" /\ \A s \in specs : pc[s] = "stopped"

(* Snapshot and Write.                                                     *)
WriteBundle ==
    /\ LoopsReturned
    /\ outcome' = "bundle"
    /\ UNCHANGED <<inventoryVars, requests>>

(* RecordWindowGap cannot write its gap, or Write finds credential         *)
(* material or cannot write a file: run returns the error.                 *)
WriteBundleRaises ==
    /\ LoopsReturned
    /\ outcome' = "error"
    /\ UNCHANGED <<inventoryVars, requests>>

(* While the loops run, the audit log cannot be read or ingested or the    *)
(* webhook cannot be served: run returns the error, and cancelColl, which  *)
(* is deferred, stops the loops.                                           *)
RunRaises ==
    /\ outcome = "none"
    /\ outcome' = "error"
    /\ cancelled' = TRUE
    /\ UNCHANGED <<clusterVars, pc, rv, base, gaps, storeVars, requests>>

Next ==
    \/ \E o \in Objects : Create(o) \/ ModifyOrDelete(o) \/ Exec(o)
    \/ \E s \in specs : Loop(s) /\ UNCHANGED runVars
    \/ Cancel /\ UNCHANGED runVars
    \/ WriteBundle
    \/ WriteBundleRaises
    \/ RunRaises

(* A loop goes on: its calls return, its stream is read, and it stops when *)
(* it is cancelled.  run goes on when the loops have stopped, to a bundle  *)
(* or to an error.                                                         *)
Progress(s) ==
    /\ s \in specs
    /\ List(s) \/ Watch(s) \/ Deliver(s) \/ LoopStops(s)
    /\ UNCHANGED runVars

Fairness ==
    /\ \A s \in UNION Configurations : WF_vars(Progress(s))
    /\ WF_vars(WriteBundle \/ WriteBundleRaises)

Spec == Init /\ [][Next]_vars /\ Fairness
-----------------------------------------------------------------------------
(* Properties.                                                             *)

ScopeOf(o) == CHOOSE s \in specs : InScope(o, s)

(* The store holds, for each scope that was listed, exactly the objects    *)
(* the cluster had at the scope's resourceVersion: nothing is left over    *)
(* from before a relist, from another scope or from a resumed watch.       *)
MirrorsPast ==
    \A s \in synced : \A o \in ObjectsIn(s) : objs[o] = At(o, rv[s])

(* A Secret's version counts its changes since it was first seen.  Where a *)
(* relist made the collector miss some the count is only too low, and a    *)
(* gap about the scope says so.                                            *)
ChangesSince(o, s) ==
    (IF At(o, base[s]) # 0 THEN 1 ELSE 0)
        + Cardinality({i \in ChangesTo(o, rv[s]) : i > base[s] /\ log[i].type # "deleted"})

VersionsExact ==
    \A s \in synced : \A o \in ObjectsIn(s) :
        KindOf[o] = "secrets" =>
            /\ versions[o].version <= ChangesSince(o, s)
            /\ s \notin BundleGaps => versions[o].version = ChangesSince(o, s)

(* A Pod stays traceable after it is gone.  The history holds every Pod    *)
(* there was since the first list, deleted ones included, unless a gap     *)
(* about Pods says that some were not seen; and correlate never takes one  *)
(* of them for another: whatever other Pods had the name, the target of a  *)
(* record is found, or is unknown and so becomes a gap.                    *)
PodsTraceable ==
    /\ \A s \in synced : \A o \in ObjectsIn(s) :
          KindOf[o] = "pods" /\ s \notin BundleGaps /\ ChangesSince(o, s) > 0 => o \in history
    /\ \A r \in requests : r.target \in history => Correlate(r) \in {r.target, Unknown}

(* bundle.go: ambiguity or absence becomes a gap; a UID is never guessed   *)
(* from the name alone.  A record whose target was never observed is not   *)
(* given the UID of another Pod, unless a gap says that Pods are missing   *)
(* or the target was gone before the first list.                           *)
NeverGuessed ==
    outcome = "bundle" => \A r \in requests :
        \/ Correlate(r) \in {r.target, Unknown}
        \/ ScopeOf(r.target) \in BundleGaps
        \/ At(r.target, base[ScopeOf(r.target)]) = 0
           /\ Created(r.target) <= base[ScopeOf(r.target)]

(* A run that is told to stop ends: whatever its loops are doing they all  *)
(* return, and then the bundle is written or the error that kept it from   *)
(* being written is returned.                                              *)
RunEnds == cancelled ~> outcome \in {"bundle", "error"}

(* While it is not told to stop, and the API server does not keep failing, *)
(* the store comes to hold the cluster as it is.                           *)
Converges ==
    <>[](cancelled \/ \A s \in specs : \A o \in ObjectsIn(s) : objs[o] = At(o, Now))
=============================================================================
