-------------------------------- MODULE Case --------------------------------
(***************************************************************************)
(* An analysis input (AnalysisInput in packages/afterlock/model.py), which *)
(* the engine and the reference checker are both given.                    *)
(***************************************************************************)
EXTENDS Semantics

CONSTANTS
    Inputs,      \* the inputs: inventory, initial facts, remediation, bounds, ...
    Objectives   \* what the attacker must not be able to do

(* The attributes of Env, and the kinds of DefenderAction.                 *)
EnvFields ==
    {"time", "accounts", "pods", "controllers", "bindings", "secrets", "services", "counter"}
ActionKinds ==
    {"remove_binding", "delete_pod", "delete_controller", "delete_pods_except",
     "delete_controllers_except", "delete_service_account", "rotate_downstream_credential", "wait"}

ASSUME CaseAssumption ==
    \A i \in Inputs :
        /\ DOMAIN i.inventory = EnvFields
        /\ IsFiniteSet(i.inventory.pods) /\ IsFiniteSet(i.inventory.controllers)
        /\ IsFiniteSet(i.inventory.accounts) /\ IsFiniteSet(i.initial_facts)
        /\ \A c \in i.inventory.controllers : c.uid # None
        /\ \A u \in DOMAIN i.inventory.counter : i.inventory.counter[u] \in Nat
        /\ \A p, q \in i.inventory.pods : p.uid = q.uid => p = q
        /\ \A c, d \in i.inventory.controllers : c.uid = d.uid => c = d
        /\ \A o \in i.inventory.pods \cup i.inventory.controllers : IsFiniteSet(o.audiences)
        /\ IsFiniteSet(i.inventory.secrets) /\ IsFiniteSet(i.inventory.services)
        /\ \A s \in i.inventory.secrets : "secret" \in DOMAIN s
        /\ \A s \in i.inventory.services : "name" \in DOMAIN s
        /\ i.inventory.time \in Int
        /\ Len(i.remediation) \in Nat
        /\ \A k \in 1..Len(i.remediation) :
              /\ i.remediation[k].kind \in ActionKinds
              /\ i.remediation[k].kind = "wait" => i.remediation[k].seconds \in Nat

(* What the parser of model.py checks besides: names are keys, and the     *)
(* window of the possible past does not end before it starts.              *)
ASSUME KeysAssumption ==
    \A i \in Inputs :
        /\ i.inventory = [field \in EnvFields |-> i.inventory[field]]
        /\ \A s, t \in i.inventory.accounts : s.account = t.account => s = t
        /\ \A s \in i.inventory.accounts : s.account # None
        /\ \A s, t \in i.inventory.services : s.name = t.name => s = t
        /\ \A s \in i.inventory.services : "source" \in DOMAIN s
        /\ i.history_start # None => i.history_start \in Int /\ i.history_start <= i.inventory.time
        /\ \A f \in i.initial_facts :
              f.kind = "possesses_credential" /\ f.arg.expires_at # None => f.arg.expires_at \in Int

VARIABLE input   \* the input that is analysed

(* The environment at analysis time, as Env.from_inventory makes it.       *)
Inventory == input.inventory

(* An InitialFact is something the attacker acquired before analysis time: *)
(* its kind (possesses_credential, controls_pod, controls_controller,      *)
(* knows_secret or historical_pod), what it is about (arg) and its status  *)
(* (observed, assumed or inferred).                                        *)

(* _Run.initial that filters the wrong view.                               *)
BelievedSwapped(kind, view) ==
    {f.arg : f \in {g \in input.initial_facts :
                      g.kind = kind /\ (view = "evidence_supported" \/ g.status # "inferred")}}

(* The initial facts of a kind that a view believes: the evidence-         *)
(* supported view leaves out what was only inferred.                       *)
Believed(kind, view) ==
    {f.arg : f \in {g \in input.initial_facts :
                      g.kind = kind /\ (view = "conservative_possible" \/ g.status # "inferred")}}

(* A historical pod as a pod of the environment.                           *)
HistoricalPods(view) ==
    {[uid |-> h.uid, name |-> h.uid, account |-> h.account, audiences |-> {}, controller |-> None] :
        h \in Believed("historical_pod", view)}

(* The conservative view looks into the past when there was a pod that is  *)
(* gone, or a seeded credential that was valid earlier.                    *)
HasHistory(view) ==
    /\ view = "conservative_possible"
    /\ \/ HistoricalPods(view) # {}
       \/ \E c \in Believed("possesses_credential", view) :
             c.expires_at # None /\ c.expires_at <= Inventory.time

(* The scratch environment of the possible past.  Of two facts about one   *)
(* UID the first, in the order of their text, makes the pod.               *)
HistoryEnv(view) ==
    LET gone == UidsOf(HistoricalPods(view)) \ UidsOf(Inventory.pods)
    IN  [Inventory EXCEPT
            !.pods = @ \cup {CHOOSE p \in HistoricalPods(view) : p.uid = uid : uid \in gone}]
=============================================================================
