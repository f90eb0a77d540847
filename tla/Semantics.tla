----------------------------- MODULE Semantics -----------------------------
(***************************************************************************)
(* packages/afterlock/semantics.py, with the entities of model.py: what    *)
(* the Kubernetes API allows in an environment, and what a defender action *)
(* and the controllers make of one.                                        *)
(*                                                                         *)
(* An environment is a record of sets: the dictionaries of Env are sets of *)
(* records that carry their key.  A service account is named by its key    *)
(* <<namespace, name>>, which stands for its username too.  Identifiers    *)
(* that come with the input are model values; the UIDs the engine makes up *)
(* are tuples.  Roles and admission policies never change.                 *)
(***************************************************************************)
EXTENDS Integers, FiniteSets, FiniteSetsExt, Sequences

CONSTANTS
    None,               \* an absent optional field
    Any,                \* the "*" of an admission policy
    Roles,              \* Inventory.roles
    AdmissionPolicies,  \* Inventory.admission_policies
    ApiAudiences,       \* Profile.api_audiences
    DefaultAudience,    \* the first of them
    TokenTTL            \* Profile.projected_token_ttl_seconds

ASSUME SemanticsAssumption ==
    /\ DefaultAudience \in ApiAudiences
    /\ TokenTTL \in Nat \ {0}
    /\ None \notin Int

NamespaceOf(account) == account[1]

-----------------------------------------------------------------------------
(* RBAC.                                                                   *)

(* PolicyRule.matches.                                                     *)
Matches(rule, verb, resource, name) ==
    /\ {"*", verb} \cap rule.verbs # {}
    /\ {"*", resource} \cap rule.resources # {}
    /\ rule.resource_names = None \/ (name # None /\ name \in rule.resource_names)

(* _subject_matches.  A group is named by the accounts it holds: <<>> are  *)
(* the authenticated ones, <<"serviceaccounts">> all accounts and          *)
(* <<"serviceaccounts", ns>> those of a namespace.                         *)
SubjectMatches(binding, account) ==
    \E s \in binding.subjects :
        \/ s.kind \in {"ServiceAccount", "User"} /\ s.name = account
        \/ /\ s.kind = "Group"
           /\ s.name \in {<<>>, <<"serviceaccounts">>, <<"serviceaccounts", NamespaceOf(account)>>}

RoleOf(binding) ==
    {r \in Roles : /\ r.name = binding.role_name
                   /\ r.ns = IF binding.role_kind = "Role" THEN binding.ns ELSE None}

AuthorizingBindings(env, account, verb, resource, ns, name) ==
    {b \in env.bindings :
        /\ b.ns \in {None, ns}
        /\ SubjectMatches(b, account)
        /\ \E r \in RoleOf(b) : \E rule \in r.rules : Matches(rule, verb, resource, name)}

Authorized(env, account, verb, resource, ns, name) ==
    AuthorizingBindings(env, account, verb, resource, ns, name) # {}

SecretReadVerbs == {"get", "list", "watch"}

(* A secret is named by <<namespace, name>>.                               *)
CanReadSecret(env, account, secret) ==
    \E verb \in SecretReadVerbs :
        Authorized(env, account, verb, "secrets", secret[1], secret[2])

-----------------------------------------------------------------------------
(* Credentials.                                                            *)

Supported(cred) == cred.kind = "sa_token" /\ cred.account # None

(* credential_usable of a supported credential.                            *)
CredentialUsable(env, cred, at) ==
    /\ cred.expires_at = None \/ at < cred.expires_at
    /\ cred.audience \in ApiAudiences
    /\ \E s \in env.accounts :
          s.account = cred.account /\ cred.sa_uid \in {None, s.uid}
    /\ cred.bound_pod # None =>
          \E p \in env.pods : p.uid = cred.bound_pod /\ p.account = cred.account

(* The token a pod's volume holds for an audience.                         *)
ProjectedToken(env, pod, aud) ==
    [id |-> <<"projected", pod.uid, aud>>, kind |-> "sa_token", account |-> pod.account,
     sa_uid |-> (CHOOSE s \in env.accounts : s.account = pod.account).uid,
     bound_pod |-> pod.uid, audience |-> aud, expires_at |-> env.time + TokenTTL]

AudiencesOf(pod) == IF pod.audiences = {} THEN {DefaultAudience} ELSE pod.audiences

(* What the pods in `controlled` that exist and have an account yield.     *)
TokensFrom(env, controlled) ==
    UNION {{ProjectedToken(env, p, aud) : aud \in AudiencesOf(p)} :
             p \in {q \in env.pods : /\ q.uid \in controlled
                                     /\ \E s \in env.accounts : s.account = q.account}}

-----------------------------------------------------------------------------
(* admission_decision.                                                     *)

AllowedAccounts(policy, creator) ==
    IF creator \in DOMAIN policy.allowed THEN policy.allowed[creator]
    ELSE IF Any \in DOMAIN policy.allowed THEN policy.allowed[Any] ELSE {Any}

AdmissionDecision(creator, account) ==
    LET relevant == {p \in AdmissionPolicies : p.ns = NamespaceOf(account)}
    IN  IF \E p \in relevant : ~p.supported THEN "unsupported"
        ELSE IF \A p \in relevant : {Any, account[2]} \cap AllowedAccounts(p, creator) # {}
             THEN "allow" ELSE "deny"

-----------------------------------------------------------------------------
(* Environment transitions.                                                *)

UidsOf(objects) == {o.uid : o \in objects}

ModelPodUid(account, interval) == <<"model-pod", account, interval>>
ModelControllerUid(account, interval) == <<"model-deploy", account, interval>>

(* A controller's k-th pod.                                                *)
ReplicaUid(controller, k) == <<"replica", controller, k>>

PodOf(controller, k) ==
    [uid |-> ReplicaUid(controller.uid, k), name |-> <<controller.name, k>>,
     account |-> controller.account, audiences |-> controller.audiences,
     controller |-> controller.uid]

CounterOf(env, controller) ==
    IF controller.uid \in DOMAIN env.counter THEN env.counter[controller.uid] ELSE 0

(* The next k for which no pod of that UID exists.                         *)
NextReplica(env, controller) ==
    LET k0 == CounterOf(env, controller) + 1
    IN  Min({k \in k0..(k0 + Cardinality(env.pods)) :
                 ReplicaUid(controller.uid, k) \notin UidsOf(env.pods)})

Orphaned(env) ==
    {c \in env.controllers : \A p \in env.pods : p.controller # c.uid}

(* reconcile_controllers that starts counting at the pods that exist.      *)
ReconcileUncounted(env) ==
    [env EXCEPT !.pods = @ \cup {PodOf(c, 1) : c \in Orphaned(env)}]

(* reconcile_controllers: a controller without a pod gets one.             *)
Reconcile(env) ==
    [env EXCEPT
        !.pods = @ \cup {PodOf(c, NextReplica(env, c)) : c \in Orphaned(env)},
        !.counter = [uid \in DOMAIN @ \cup UidsOf(Orphaned(env)) |->
                        IF \E c \in Orphaned(env) : c.uid = uid
                        THEN NextReplica(env, CHOOSE c \in Orphaned(env) : c.uid = uid)
                        ELSE @[uid]]]

DeletePods(env, uids) == [env EXCEPT !.pods = {p \in @ : p.uid \notin uids}]

(* Deleting a controller takes its pods with it.                           *)
DeleteControllers(env, uids) ==
    [env EXCEPT !.controllers = {c \in @ : c.uid \notin uids},
                !.pods = {p \in @ : p.controller \notin uids}]

(* Those an ..._except action selects.                                     *)
Selected(objects, action) ==
    UidsOf({o \in objects : o.account = action.account}) \ action.keep_uids

RemoveBinding(env, action) ==
    [env EXCEPT !.bindings = {b \in @ : <<b.ns, b.name>> # <<action.ns, action.name>>}]

DeleteServiceAccount(env, action) ==
    [env EXCEPT !.accounts = {s \in @ : s.account # action.account}]

(* DownstreamService.accepts.                                              *)
Accepts(service, version, time) ==
    \/ version = service.accepted_version
    \/ \E g \in service.grace : g[1] = version /\ time < g[2]

(* The version a rotation of the service installs: past the accepted one   *)
(* and past the secret's.                                                  *)
RotatedVersion(env, service) ==
    1 + Max({service.accepted_version}
            \cup {s.version : s \in {x \in env.secrets : x.secret = service.source}})

RotateService(service, version, time) ==
    [service EXCEPT
        !.accepted_version = version,
        !.grace = IF service.propagation > 0
                  THEN @ \cup {<<service.accepted_version, time + service.propagation>>}
                  ELSE @]

(* rotate_downstream_credential: the secret and the service move to the    *)
(* new version together; the old one may stay accepted for a while.        *)
Rotate(env, action) ==
    LET rotated == {s \in env.services : s.name = action.service}
        SourceOf(secret) == {s \in rotated : s.source = secret.secret}
    IN  [env EXCEPT
            !.secrets = {IF SourceOf(x) = {} THEN x
                         ELSE [x EXCEPT !.version =
                                 RotatedVersion(env, CHOOSE s \in SourceOf(x) : TRUE)] : x \in @},
            !.services = {IF s \in rotated
                          THEN RotateService(s, RotatedVersion(env, s), env.time) ELSE s : s \in @}]

ApplyDefenderAction(env, action) ==
    CASE action.kind = "remove_binding" -> RemoveBinding(env, action)
      [] action.kind = "delete_pod" -> DeletePods(env, {action.uid})
      [] action.kind = "delete_controller" -> DeleteControllers(env, {action.uid})
      [] action.kind = "delete_pods_except" -> DeletePods(env, Selected(env.pods, action))
      [] action.kind = "delete_controllers_except" ->
            DeleteControllers(env, Selected(env.controllers, action))
      [] action.kind = "delete_service_account" -> DeleteServiceAccount(env, action)
      [] action.kind = "rotate_downstream_credential" -> Rotate(env, action)
      [] action.kind = "wait" -> [env EXCEPT !.time = @ + action.seconds]

-----------------------------------------------------------------------------
(* Legitimate operations.                                                  *)

(* legit_can_read.                                                         *)
LegitCanRead(env, podUid, secret) ==
    /\ \E p \in env.pods :
          /\ p.uid = podUid
          /\ \E s \in env.accounts : s.account = p.account
          /\ Authorized(env, p.account, "get", "secrets", secret[1], secret[2])
    /\ \E x \in env.secrets : x.secret = secret

(* legit_can_use_service.                                                  *)
LegitCanUseService(env, podUid, service) ==
    \E s \in env.services :
        /\ s.name = service
        /\ LegitCanRead(env, podUid, s.source)
        /\ \E x \in env.secrets : x.secret = s.source /\ x.version = s.accepted_version
=============================================================================
