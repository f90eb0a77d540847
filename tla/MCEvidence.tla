----------------------------- MODULE MCEvidence -----------------------------
(* Instances of Evidence for TLC. *)
EXTENDS Evidence

Envelope(source, seq, type) ==
    [source |-> source, seq |-> seq, type |-> type, at |-> 0, gap |-> None,
     user |-> None, pod |-> None, audience |-> None, expires |-> None, ok |-> TRUE,
     verb |-> None, resource |-> None, namespace |-> None, name |-> None,
     uid |-> None, sa |-> None, version |-> None]

Response(source, seq, user, pod, verb, resource) ==
    [Envelope(source, seq, "k8s.api.response") EXCEPT
        !.user = user, !.pod = pod, !.verb = verb, !.resource = resource, !.namespace = "demo"]

(* The attacker enters p1, creates p2 from there and a controller from p2, *)
(* whose Pod p3 lists Secrets.  The sequence numbers run against that      *)
(* order.                                                                  *)
Enters == [Response(1, 6, "mallory", None, "create", "pods/exec") EXCEPT !.uid = "p1"]
Creates == [Response(1, 5, "sa1", "p1", "create", "pods") EXCEPT !.uid = "p2", !.sa = "sa2"]
Deploys == [Response(1, 4, "sa2", "p2", "create", "deployments") EXCEPT !.uid = "d"]
Lists == Response(1, 3, "sa3", "p3", "list", "secrets")

(* p2 uses a token and later a renewed one; the second reads a Secret that *)
(* is not in the inventory.                                                *)
Gets == [Response(1, 1, "sa2", "p2", "get", "secrets") EXCEPT !.name = "db", !.expires = 10]
GetsLater == [Response(1, 7, "sa2", "p2", "get", "secrets") EXCEPT !.name = "gone", !.expires = 20]

(* A second record under the number of the first, and a Pod that is gone   *)
(* and whose account is unknown.                                           *)
EntersDenied == [Enters EXCEPT !.ok = FALSE]
EntersGone == [Response(2, 1, "mallory", None, "create", "pods/exec") EXCEPT !.uid = "p4"]

BadExpiry == [Response(2, 2, "sa1", "p1", "get", "secrets") EXCEPT !.name = "db", !.expires = Malformed]

Gap(seq, id) == [Envelope(2, seq, "collector.gap") EXCEPT !.gap = id]
Heartbeat(seq, at) == [Envelope(1, seq, "collector.heartbeat") EXCEPT !.at = at]
Receipt == Envelope(2, 6, "lab.receipt")

MCEnvelopes ==
    {Enters, Creates, Deploys, Lists, Gets, GetsLater, EntersDenied, EntersGone, BadExpiry,
     Gap(3, "open"), Gap(4, "closed"), Heartbeat(8, 5), Heartbeat(9, 1), Receipt}

MCControllerOf == [p \in InventoryPods |-> IF p = "p3" THEN "d" ELSE None]
MCSecretVersions == [s \in {<<"demo", "db">>} |-> 1]
=============================================================================
