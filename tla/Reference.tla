----------------------------- MODULE Reference -----------------------------
(***************************************************************************)
(* packages/afterlock_reference: explore, the independent checker.  Where  *)
(* the engine computes a fixpoint per interval, explore lets the attacker  *)
(* take single steps and the defender act at any time between them, and    *)
(* visits every interleaving.  A behaviour is one path of that search.     *)
(*                                                                         *)
(* The attacker may have up to MaxLive workloads of its own per account,   *)
(* named by a sequence number, and keeps every token it ever obtained.     *)
(***************************************************************************)
EXTENDS Case

CONSTANT MaxLive   \* ReferenceLimits.max_live

VARIABLES
    rview,   \* the view explored
    stage,   \* history or main
    taken,   \* the number of defender actions taken (phase in the code)
    renv,    \* the environment
    ratt     \* the attacker: credentials, pods, controllers, secrets

refVars == <<rview, stage, taken, renv, ratt>>

(* The counters of the names ref-pod:... and ref-deploy:...                *)
PodSeq == <<"ref-pod-seq">>
DeploySeq == <<"ref-deploy-seq">>

SeqOf(counter) == IF counter \in DOMAIN renv.counter THEN renv.counter[counter] ELSE 0

Counted(counter) ==
    [k \in DOMAIN renv.counter \cup {counter} |->
        IF k = counter THEN SeqOf(counter) + 1 ELSE renv.counter[k]]

RefInit(view) ==
    /\ rview = view
    /\ taken = 0
    /\ IF HasHistory(view)
       THEN /\ stage = "history"
            /\ renv = HistoryEnv(view)
       ELSE /\ stage = "main"
            /\ renv = Reconcile(Inventory)
    /\ ratt = [credentials |-> Believed("possesses_credential", view),
               pods |-> Believed("controls_pod", view)
                        \cup (IF HasHistory(view) THEN UidsOf(HistoricalPods(view)) ELSE {}),
               controllers |-> Believed("controls_controller", view),
               secrets |-> Believed("knows_secret", view)]

-----------------------------------------------------------------------------
(* _attacker_steps.                                                        *)

(* _cred_ok: in the possible past a use may fall on any time of the window *)
(* [history_start, analysis_time].                                         *)
Earliest(cred) ==
    IF stage # "history" THEN renv.time
    ELSE IF input.history_start # None THEN input.history_start
    ELSE IF cred.expires_at = None THEN renv.time ELSE cred.expires_at - 1

CredOk(cred) == Supported(cred) /\ CredentialUsable(renv, cred, Earliest(cred))

ActingAs == {c.account : c \in {d \in ratt.credentials : CredOk(d)}}

Take(kind, item) ==
    /\ ratt' = [ratt EXCEPT ![kind] = @ \cup {item}]
    /\ UNCHANGED renv

RefObtain == {t \in TokensFrom(renv, ratt.pods) : t \notin ratt.credentials}

RefControl ==
    LET ids == ActingAs
    IN  {p.uid : p \in {q \in renv.pods :
           /\ q.uid \notin ratt.pods
           /\ \/ q.controller \in ratt.controllers
              \/ \E a \in ids :
                   Authorized(renv, a, "create", "pods/exec", NamespaceOf(q.account), q.name)}}

RefRead ==
    LET ids == ActingAs
    IN  {<<s.secret, s.version>> : s \in {x \in renv.secrets :
           \E a \in ids : CanReadSecret(renv, a, x.secret)}} \ ratt.secrets

(* The attacker's own live workloads of an account.                        *)
Mine(objects, prefix, account) ==
    {o \in objects : o.account = account
                     /\ \E k \in 0..(SeqOf(PodSeq) + SeqOf(DeploySeq)) : o.uid = <<prefix, account, k>>}

RefCreate(kind, objects, prefix) ==
    LET ids == ActingAs
    IN  {a \in {s.account : s \in renv.accounts} :
           /\ Cardinality(Mine(objects, prefix, a)) < MaxLive
           /\ \E c \in ids : /\ AdmissionDecision(c, a) = "allow"
                             /\ Authorized(renv, c, "create", kind, NamespaceOf(a), None)}

RefPods == RefCreate("pods", renv.pods, "ref-pod")
RefControllers == RefCreate("deployments", renv.controllers, "ref-deploy")

RefCreatePod(a) ==
    LET uid == <<"ref-pod", a, SeqOf(PodSeq)>>
        pod == [uid |-> uid, name |-> uid, account |-> a, audiences |-> {}, controller |-> None]
    IN  /\ renv' = [renv EXCEPT !.pods = @ \cup {pod}, !.counter = Counted(PodSeq)]
        /\ ratt' = [ratt EXCEPT !.pods = @ \cup {uid}]

RefCreateController(a) ==
    LET uid == <<"ref-deploy", a, SeqOf(DeploySeq)>>
        ctrl == [uid |-> uid, name |-> uid, account |-> a, audiences |-> {}]
    IN  /\ renv' = Reconcile([renv EXCEPT !.controllers = @ \cup {ctrl},
                                          !.counter = Counted(DeploySeq)])
        /\ ratt' = [ratt EXCEPT !.controllers = @ \cup {uid}]

AttackerStep ==
    /\ \/ \E t \in RefObtain : Take("credentials", t)
       \/ \E p \in RefControl : Take("pods", p)
       \/ \E k \in RefRead : Take("secrets", k)
       \/ \E a \in RefPods : RefCreatePod(a)
       \/ \E a \in RefControllers : RefCreateController(a)
    /\ UNCHANGED <<rview, stage, taken>>

(* There is nothing left for the attacker to do.                           *)
Exhausted ==
    /\ RefObtain = {} /\ RefControl = {} /\ RefRead = {}
    /\ RefPods = {} /\ RefControllers = {}

-----------------------------------------------------------------------------
(* explore.                                                                *)

(* The search of the possible past is run to its end and the facts of all  *)
(* its paths are put together; a path that is exhausted has them all but   *)
(* for the names of workloads that are thrown away here.                   *)
RefEndHistory ==
    /\ stage = "history"
    /\ Exhausted
    /\ stage' = "main"
    /\ renv' = Reconcile(Inventory)
    /\ UNCHANGED <<rview, taken, ratt>>

DefenderStep ==
    /\ stage = "main"
    /\ taken < Len(input.remediation)
    /\ taken' = taken + 1
    /\ renv' = Reconcile(ApplyDefenderAction(renv, input.remediation[taken + 1]))
    /\ UNCHANGED <<rview, stage, ratt>>

(* _goals, looked at when the remediation is complete.                     *)
Final == stage = "main" /\ taken = Len(input.remediation)

RefReached(objective) ==
    IF objective.kind = "no_secret_read"
    THEN /\ \E s \in renv.secrets : s.secret = objective.target
         /\ \E a \in ActingAs : CanReadSecret(renv, a, objective.target)
    ELSE \E s \in renv.services :
            /\ s.name = objective.target
            /\ \E k \in ratt.secrets : k[1] = s.source /\ Accepts(s, k[2], renv.time)
=============================================================================
