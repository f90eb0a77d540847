------------------------------- MODULE Engine -------------------------------
(***************************************************************************)
(* packages/afterlock/engine.py: run_view in its full mode.                *)
(*                                                                         *)
(* The engine analyses one input twice, once per view.  It replays the     *)
(* remediation, and in each interval it derives everything the attacker    *)
(* can do until nothing new follows.  A step is one rule of a sweep of     *)
(* closure, applied to everything it applies to (the code goes through the *)
(* credentials one by one, which derives the same in the end); the sweeps  *)
(* of an interval go on until one changes nothing.  Derivations, which the *)
(* code keeps for its explanations, and the baseline modes are left out.   *)
(***************************************************************************)
EXTENDS Case

Views == <<"evidence_supported", "conservative_possible">>

VARIABLES
    view,      \* index in Views of the view being run, or 3 when analyze is done
    phase,     \* begin, history or main
    interval,  \* the current interval, -1 in the possible-history phase
    env,       \* the environment of the interval
    att,       \* the persistent facts: credentials, pods, controllers, secrets, downstream
    eph,       \* the facts of this interval: reads, uses
    rule,      \* index in Rules of the next rule of the sweep
    changed,   \* whether this sweep has changed anything
    count,     \* derivations so far
    unknowns,  \* what could not be decided
    goals,     \* goals_final: eph of the last interval that was closed
    outcome    \* the ViewOutcome of each view that was run

vars == <<input, view, phase, interval, env, att, eph, rule, changed, count, unknowns, goals,
          outcome>>

(* The rules in the order of a sweep; a sweep that changed nothing leaves  *)
(* rule at Closed.                                                         *)
Rules == <<"controller_pod", "projected_token", "create_pod", "create_controller", "exec_pod",
           "read_secret", "downstream_credential", "use_downstream">>
Closed == Len(Rules) + 1

NoFacts == [credentials |-> {}, pods |-> {}, controllers |-> {}, secrets |-> {},
            downstream |-> {}]
NoGoals == [reads |-> {}, uses |-> {}]

HistoryInterval == -1

Init ==
    /\ input \in Inputs
    /\ view = 1 /\ phase = "begin" /\ interval = HistoryInterval
    /\ env = Inventory
    /\ att = NoFacts /\ eph = NoGoals /\ goals = NoGoals
    /\ rule = 1 /\ changed = FALSE /\ count = 0 /\ unknowns = {}
    /\ outcome = <<>>

-----------------------------------------------------------------------------
(* _Run.initial, and the start of run_view.                                *)

View == Views[view]

InitialFacts ==
    [credentials |-> Believed("possesses_credential", View),
     pods        |-> Believed("controls_pod", View),
     controllers |-> Believed("controls_controller", View),
     secrets     |-> Believed("knows_secret", View),
     downstream  |-> {}]

BeginHistory ==
    /\ phase = "begin" /\ view <= 2
    /\ HasHistory(View)
    /\ phase' = "history" /\ interval' = HistoryInterval
    /\ env' = HistoryEnv(View)
    /\ att' = [InitialFacts EXCEPT !.pods = @ \cup UidsOf(HistoricalPods(View))]
    /\ UNCHANGED <<input, view, eph, rule, changed, count, unknowns, goals, outcome>>

BeginMain ==
    /\ phase = "begin" /\ view <= 2
    /\ ~HasHistory(View)
    /\ phase' = "main" /\ interval' = 0
    /\ env' = Reconcile(Inventory)
    /\ att' = InitialFacts
    /\ UNCHANGED <<input, view, eph, rule, changed, count, unknowns, goals, outcome>>

-----------------------------------------------------------------------------
(* What the rules of closure derive.                                       *)

(* _use_time: the time for which a credential is checked; in the possible  *)
(* past, the last one of the window at which it was valid.                 *)
UseTime(cred) ==
    IF phase # "history" \/ cred.expires_at = None \/ cred.expires_at > env.time
    THEN env.time
    ELSE IF input.history_start # None /\ cred.expires_at - 1 < input.history_start
         THEN input.history_start ELSE cred.expires_at - 1

(* The service accounts the attacker can act as.                           *)
Identities ==
    {c.account : c \in {d \in att.credentials :
                          Supported(d) /\ CredentialUsable(env, d, UseTime(d))}}

UnsupportedCredentials ==
    {<<"credential", c.id>> : c \in {d \in att.credentials : ~Supported(d)}}

(* R-CONTROLLER-POD and R-EXEC-POD: pods that come under control.          *)
OwnedPods == UidsOf({p \in env.pods : p.controller \in att.controllers})
ExecPods ==
    LET ids == Identities
    IN  UidsOf({p \in env.pods : \E a \in ids :
                  Authorized(env, a, "create", "pods/exec", NamespaceOf(p.account), p.name)})

(* The refresh test of R-OBTAIN-PROJECTED-TOKEN with the comparison the    *)
(* wrong way round at the boundary.                                        *)
StaleTokensAlways ==
    {t \in TokensFrom(env, att.pods) :
        ~\E c \in att.credentials :
            c.id = t.id /\ c.expires_at # None /\ c.expires_at > t.expires_at}

(* R-OBTAIN-PROJECTED-TOKEN: tokens that are new or would last longer.     *)
StaleTokens ==
    {t \in TokensFrom(env, att.pods) :
        ~\E c \in att.credentials :
            c.id = t.id /\ c.expires_at # None /\ c.expires_at >= t.expires_at}

(* _controls_live that takes any controlled pod of the account for a       *)
(* model-created one.                                                      *)
ControlsLiveAny(account, kind) ==
    IF kind = "pods"
    THEN \E p \in env.pods : p.uid \in att.pods /\ p.account = account
    ELSE \E c \in env.controllers : c.uid \in att.controllers /\ c.account = account

(* _controls_live: a model-created workload of the account is there.       *)
ControlsLive(account, kind) ==
    \E i \in HistoryInterval..interval :
        IF kind = "pods"
        THEN ModelPodUid(account, i) \in att.pods \cap UidsOf(env.pods)
        ELSE ModelControllerUid(account, i) \in att.controllers \cap UidsOf(env.controllers)

(* The accounts _create_workloads would make a workload for, if admission  *)
(* decided so.                                                             *)
Creatable(kind, decision) ==
    LET ids == Identities
    IN  {a \in {s.account : s \in env.accounts} :
            /\ ~ControlsLive(a, kind)
            /\ \E c \in ids : /\ AdmissionDecision(c, a) = decision
                              /\ Authorized(env, c, "create", kind, NamespaceOf(a), None)}

UnsupportedAdmission(kind) ==
    {<<"admission", a, kind>> : a \in Creatable(kind, "unsupported")}

(* R-CREATE-POD and R-CREATE-CONTROLLER: the UID is made of the account    *)
(* and the interval; what has it already is not made again.                *)
NewPods ==
    {p \in {[uid |-> ModelPodUid(a, interval), name |-> ModelPodUid(a, interval), account |-> a,
             audiences |-> {}, controller |-> None] : a \in Creatable("pods", "allow")} :
        p.uid \notin UidsOf(env.pods)}

NewControllers ==
    {c \in {[uid |-> ModelControllerUid(a, interval), name |-> ModelControllerUid(a, interval),
             account |-> a, audiences |-> {}] : a \in Creatable("deployments", "allow")} :
        c.uid \notin UidsOf(env.controllers)}

(* R-READ-SECRET.                                                          *)
Readable ==
    LET ids == Identities
    IN  {s \in env.secrets : \E a \in ids : CanReadSecret(env, a, s.secret)}
ReadVersions == {<<s.secret, s.version>> : s \in Readable}
ReadNames == {s.secret : s \in Readable}

(* R-DOWNSTREAM-CREDENTIAL and R-USE-DOWNSTREAM.                           *)
DownstreamKnown ==
    UNION {{<<s.name, k[2]>> : k \in {x \in att.secrets : x[1] = s.source}} : s \in env.services}
Usable ==
    {s.name : s \in {x \in env.services :
                \E d \in att.downstream : d[1] = x.name /\ Accepts(x, d[2], env.time)}}

-----------------------------------------------------------------------------
(* A sweep.                                                                *)

(* The facts the next rule adds, each of which _tick counts.               *)
Derived ==
    CASE Rules[rule] = "controller_pod" -> Cardinality(OwnedPods \ att.pods)
      [] Rules[rule] = "projected_token" -> Cardinality(StaleTokens)
      [] Rules[rule] = "create_pod" -> Cardinality(NewPods)
      [] Rules[rule] = "create_controller" -> Cardinality(NewControllers)
      [] Rules[rule] = "exec_pod" -> Cardinality(ExecPods \ att.pods)
      [] Rules[rule] = "read_secret" ->
            Cardinality(ReadVersions \ att.secrets) + Cardinality(ReadNames \ eph.reads)
      [] Rules[rule] = "downstream_credential" -> Cardinality(DownstreamKnown \ att.downstream)
      [] Rules[rule] = "use_downstream" -> Cardinality(Usable \ eph.uses)

Sweeping == phase \in {"history", "main"} /\ rule # Closed

(* Apply whose sweeps go on whether or not anything changed.               *)
ApplyForever(r) ==
    /\ Sweeping /\ Rules[rule] = r
    /\ LET derived == Derived
       IN  /\ count + derived <= input.max_derivations
           /\ count' = count + derived
           /\ rule' = IF rule = Len(Rules) THEN 1 ELSE rule + 1
           /\ changed' = FALSE
    /\ UNCHANGED <<input, view, phase, interval, goals, outcome>>

(* Rule r is applied, and the sweep goes on; after the last rule another   *)
(* sweep begins if this one changed something.                             *)
Apply(r) ==
    /\ Sweeping /\ Rules[rule] = r
    /\ LET derived == Derived
           any == changed \/ derived > 0
           last == rule = Len(Rules)
       IN  /\ count + derived <= input.max_derivations
           /\ count' = count + derived
           /\ rule' = IF last /\ any THEN 1 ELSE rule + 1
           /\ changed' = (any /\ ~last)
    /\ UNCHANGED <<input, view, phase, interval, goals, outcome>>

ControllerPod ==
    /\ Apply("controller_pod")
    /\ att' = [att EXCEPT !.pods = @ \cup OwnedPods]
    /\ UNCHANGED <<env, eph, unknowns>>

ObtainToken ==
    /\ Apply("projected_token")
    /\ LET new == StaleTokens
       IN  att' = [att EXCEPT !.credentials = new \cup {c \in @ : \A t \in new : t.id # c.id}]
    /\ UNCHANGED <<env, eph, unknowns>>

CreatePod ==
    /\ Apply("create_pod")
    /\ LET new == NewPods
       IN  /\ env' = [env EXCEPT !.pods = @ \cup new]
           /\ att' = [att EXCEPT !.pods = @ \cup UidsOf(new)]
    /\ unknowns' = unknowns \cup UnsupportedCredentials \cup UnsupportedAdmission("pods")
    /\ UNCHANGED eph

(* The counter starts at -1, so that the first replica is number 0.        *)
CreateController ==
    /\ Apply("create_controller")
    /\ LET new == NewControllers
           uids == UidsOf(new)
       IN  /\ env' = IF new = {} THEN env
                     ELSE Reconcile([env EXCEPT
                            !.controllers = @ \cup new,
                            !.counter = [uid \in DOMAIN @ \cup uids |->
                                            IF uid \in uids THEN -1 ELSE @[uid]]])
           /\ att' = [att EXCEPT !.controllers = @ \cup uids]
    /\ unknowns' = unknowns \cup UnsupportedAdmission("deployments")
    /\ UNCHANGED eph

ExecPod ==
    /\ Apply("exec_pod")
    /\ att' = [att EXCEPT !.pods = @ \cup ExecPods]
    /\ UNCHANGED <<env, eph, unknowns>>

ReadSecret ==
    /\ Apply("read_secret")
    /\ att' = [att EXCEPT !.secrets = @ \cup ReadVersions]
    /\ eph' = [eph EXCEPT !.reads = @ \cup ReadNames]
    /\ UNCHANGED <<env, unknowns>>

DownstreamCredential ==
    /\ Apply("downstream_credential")
    /\ att' = [att EXCEPT !.downstream = @ \cup DownstreamKnown]
    /\ UNCHANGED <<env, eph, unknowns>>

UseDownstream ==
    /\ Apply("use_downstream")
    /\ eph' = [eph EXCEPT !.uses = @ \cup Usable]
    /\ UNCHANGED <<env, att, unknowns>>

-----------------------------------------------------------------------------
(* run_view.                                                               *)

(* closure that goes on with the facts of the interval before.             *)
EnterIntervalKeeping ==
    /\ eph' = eph
    /\ rule' = 1 /\ changed' = FALSE

(* closure is entered with no facts of the interval.                       *)
EnterInterval ==
    /\ eph' = NoGoals
    /\ rule' = 1 /\ changed' = FALSE

EndHistory ==
    /\ phase = "history" /\ rule = Closed
    /\ phase' = "main" /\ interval' = 0
    /\ env' = Reconcile(Inventory)
    /\ EnterInterval
    /\ UNCHANGED <<input, view, att, count, unknowns, goals, outcome>>

(* The next defender action, left out where nothing is reached any more.   *)
RemediateWhileReached ==
    /\ phase = "main" /\ rule = Closed
    /\ interval < Len(input.remediation)
    /\ goals' = eph
    /\ interval' = interval + 1
    /\ env' = IF eph = NoGoals THEN env
              ELSE Reconcile(ApplyDefenderAction(env, input.remediation[interval + 1]))
    /\ EnterInterval
    /\ UNCHANGED <<input, view, phase, att, count, unknowns, outcome>>

(* The next defender action.                                               *)
Remediate ==
    /\ phase = "main" /\ rule = Closed
    /\ interval < Len(input.remediation)
    /\ goals' = eph
    /\ interval' = interval + 1
    /\ env' = Reconcile(ApplyDefenderAction(env, input.remediation[interval + 1]))
    /\ EnterInterval
    /\ UNCHANGED <<input, view, phase, att, count, unknowns, outcome>>

(* The scratch environment of the possible past is not kept.               *)
EndView(final, exceeded) ==
    /\ outcome' = Append(outcome, [goals |-> final, unknowns |-> unknowns,
                                   bounds_exceeded |-> exceeded,
                                   env |-> IF phase = "history" THEN Inventory ELSE env])
    /\ view' = view + 1
    /\ phase' = "begin" /\ interval' = HistoryInterval
    /\ env' = Inventory
    /\ att' = NoFacts /\ goals' = NoGoals
    /\ EnterInterval
    /\ count' = 0 /\ unknowns' = {}
    /\ UNCHANGED input

FinishView ==
    /\ phase = "main" /\ rule = Closed
    /\ interval = Len(input.remediation)
    /\ EndView(eph, FALSE)

(* BoundsExceeded: the view ends with the goals of the last interval that  *)
(* was closed.  (The code has by then made a part of what the rule derives;*)
(* of that only attacker workloads in the final environment remain.)       *)
ExceedBounds ==
    /\ Sweeping
    /\ count + Derived > input.max_derivations
    /\ EndView(goals, TRUE)

Done == view = 3

Stop == Done /\ UNCHANGED vars

Next ==
    \/ BeginHistory
    \/ BeginMain
    \/ ControllerPod
    \/ ObtainToken
    \/ CreatePod
    \/ CreateController
    \/ ExecPod
    \/ ReadSecret
    \/ DownstreamCredential
    \/ UseDownstream
    \/ EndHistory
    \/ Remediate
    \/ FinishView
    \/ ExceedBounds
    \/ Stop

Spec == Init /\ [][Next]_vars
FairSpec == Spec /\ WF_vars(Next)
=============================================================================
