------------------------------- MODULE MCCase -------------------------------
(***************************************************************************)
(* A small cluster in the shape of the repository's replay cases: the      *)
(* attacker holds the token of a build account (ci), which may start       *)
(* workloads as a release account (rel), which may read the secret (db)    *)
(* that a downstream service (svc) authenticates with.  The pod web, run   *)
(* by the controller front, is a legitimate user of the secret.            *)
(***************************************************************************)
EXTENDS Semantics

CONSTANTS n, ci, rel, db, svc, web, front, old, api, vault, seed, legacy

Ci == <<n, ci>>
Rel == <<n, rel>>
Db == <<n, db>>

Rule(verbs, resources) == [verbs |-> verbs, resources |-> resources, resource_names |-> None]

MCRoles ==
    {[ns |-> n, name |-> "create", rules |-> {Rule({"create"}, {"pods"})}],
     [ns |-> n, name |-> "deploy", rules |-> {Rule({"create"}, {"deployments"})}],
     [ns |-> n, name |-> "exec", rules |->
         {[verbs |-> {"create"}, resources |-> {"pods/exec"}, resource_names |-> {web}]}],
     [ns |-> None, name |-> "read", rules |-> {Rule({"get", "list"}, {"secrets"})}]}

Binding(name, roleNs, roleName, account) ==
    [ns |-> n, name |-> name, role_kind |-> IF roleNs = None THEN "ClusterRole" ELSE "Role",
     role_name |-> roleName, subjects |-> {[kind |-> "ServiceAccount", name |-> account]}]

CreateBinding == Binding("ci-create", n, "create", Ci)
DeployBinding == Binding("ci-deploy", n, "deploy", Ci)
ExecBinding == Binding("ci-exec", n, "exec", Ci)
ReadBinding == Binding("rel-read", None, "read", Rel)

(* ci may start workloads as rel only.                                     *)
OnlyRel == {[ns |-> n, supported |-> TRUE, allowed |-> [c \in {Ci} |-> {rel}]]}

WebPod == [uid |-> web, name |-> web, account |-> Rel, audiences |-> {}, controller |-> front]
FrontController == [uid |-> front, name |-> front, account |-> Rel, audiences |-> {api, vault}]

ClusterWith(bindings, propagation) ==
    [time |-> 10,
     accounts |-> {[account |-> Ci, uid |-> ci], [account |-> Rel, uid |-> rel]},
     pods |-> {WebPod}, controllers |-> {FrontController}, bindings |-> bindings,
     secrets |-> {[secret |-> Db, version |-> 1]},
     services |-> {[name |-> svc, source |-> Db, accepted_version |-> 1,
                    propagation |-> propagation, grace |-> {}]},
     counter |-> [c \in {} |-> 0]]

CiToken(expires) ==
    [id |-> seed, kind |-> "sa_token", account |-> Ci, sa_uid |-> ci, bound_pod |-> None,
     audience |-> api, expires_at |-> expires]
LegacyToken ==
    [id |-> legacy, kind |-> "legacy_secret", account |-> Ci, sa_uid |-> None, bound_pod |-> None,
     audience |-> api, expires_at |-> None]

Fact(kind, arg, status) == [kind |-> kind, arg |-> arg, status |-> status]

(* The remediation vocabulary.                                             *)
RemoveBindingOf(b) == [kind |-> "remove_binding", ns |-> b.ns, name |-> b.name]
KillWeb == [kind |-> "delete_pod", uid |-> web]
KillFront == [kind |-> "delete_controller", uid |-> front]
KillPods == [kind |-> "delete_pods_except", account |-> Rel, keep_uids |-> {web}]
KillControllers == [kind |-> "delete_controllers_except", account |-> Rel, keep_uids |-> {front}]
KillRel == [kind |-> "delete_service_account", account |-> Rel]
RotateSvc == [kind |-> "rotate_downstream_credential", service |-> svc]
Wait == [kind |-> "wait", seconds |-> 2]

PlansUpTo(k, actions) == UNION {[1..m -> actions] : m \in 0..k}

MCObjectives == {[kind |-> "no_secret_read", target |-> Db], [kind |-> "no_downstream_use", target |-> svc]}
MCLegitimateOperations == {[kind |-> "read_secret", pod |-> web, target |-> Db],
                           [kind |-> "use_service", pod |-> web, target |-> svc]}
=============================================================================
