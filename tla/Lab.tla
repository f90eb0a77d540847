-------------------------------- MODULE Lab --------------------------------
(***************************************************************************)
(* The laboratory supervisor (labs/supervisor): create, reset, spike,      *)
(* spike --repeat, collect and destroy on the kind cluster behind one      *)
(* kubeconfig context.  A step is one call that changes the cluster, or    *)
(* one probe together with the receipt about it.  Any call may fail, the   *)
(* supervisor may be killed between any two, and somebody may put another  *)
(* cluster behind the context at any time.                                 *)
(***************************************************************************)
EXTENDS Naturals, FiniteSets

CONSTANTS
    MaxCommands,       \* bound: commands started in a behaviour
    MaxReplaced,       \* bound: clusters put behind the context from outside
    MaxRepeat,         \* spike --repeat N
    RotationAttempts   \* ROTATION_ATTEMPTS

ASSUME LabAssumption ==
    /\ MaxCommands \in Nat
    /\ MaxReplaced \in Nat
    /\ MaxRepeat \in Nat \ {0}
    /\ RotationAttempts \in Nat \ {0}

VARIABLES
    lab,       \* the cluster behind the context, its canary and probes
    recorded,  \* the identity in labs/.state/lab.json, 0 without the file
    sup,       \* the supervisor process
    live,      \* its LiveCollector: processes, files, evidence
    budget     \* commands and replacements left

vars == <<lab, recorded, sup, live, budget>>

(* Identities (API endpoint, CA, namespace UID, instance label as one) and *)
(* Secret values are random: a new one differs from all that are in use.   *)
Fresh(used) == CHOOSE n \in 1 .. Cardinality(used) + 1 : n \notin used

NoCluster == [id |-> 0, local |-> FALSE, binding |-> FALSE, pod |-> FALSE,
              policy |-> FALSE, source |-> 0, accepted |-> 0, mounted |-> 0]

Idle == [cmd |-> "none", phase |-> "none", pc |-> "idle", ident |-> 0, runs |-> 0,
         copied |-> 0, old |-> 0, attempt |-> 0, first |-> 0, new |-> 0,
         ack |-> FALSE, contradicted |-> FALSE, receipt |-> "none",
         killed |-> FALSE, intruded |-> FALSE]

NoCollector == [proc |-> "none", secrets |-> FALSE, restarts |-> 0, audit |-> {},
                known |-> {}, held |-> {}, files |-> {}, kept |-> {}, flaw |-> "none"]

Init ==
    /\ lab = NoCluster
    /\ recorded = 0
    /\ sup = Idle
    /\ live = NoCollector
    /\ budget = [commands |-> MaxCommands, replaced |-> MaxReplaced]

Collecting == sup.cmd = "collect"

(* A collector runs: what the audit log gets is in its evidence window.    *)
Observed == Collecting /\ sup.phase = "spike"

-----------------------------------------------------------------------------
(* Receipts *)

(* No answer (0) is never a refusal: it only agrees with "no_answer".      *)
agrees(observed, expect) ==
    IF expect = "no_answer" THEN observed = 0
    ELSE /\ observed # 0
         /\ (observed \in 200 .. 299) = (expect = "answer_ok")

check_receipt(passed) == IF passed THEN 200 ELSE 422

(* Mutant: only the last receipt decides.                                  *)
recordLast(s, observed, expect, next) ==
    [s EXCEPT !.pc = next, !.contradicted = ~agrees(observed, expect)]

(* The supervisor after a receipt of an observation, at its next step.     *)
record(s, observed, expect, next) ==
    [s EXCEPT !.pc = next, !.contradicted = @ \/ ~agrees(observed, expect)]

validation == IF sup.contradicted THEN "lab_contradicted" ELSE "lab_confirmed"

Goto(next) == [sup EXCEPT !.pc = next]

(* An HTTP probe from inside a Pod is answered, or gives status 0.         *)
http_probe(answer) == {answer, 0}

canary_use(value) == http_probe(IF lab.mounted = value THEN 200 ELSE 401)

-----------------------------------------------------------------------------
(* Commands *)

(* Mutant: any local lab will do.                                          *)
require_any_lab == recorded # 0 /\ lab.id # 0 /\ lab.local

(* recorded must equal the live identity, and the endpoint must be local.  *)
require_recorded_lab == recorded # 0 /\ recorded = lab.id /\ lab.local

Start(cmd, phase, pc, runs) ==
    /\ sup.pc = "idle"
    /\ budget.commands > 0
    /\ budget' = [budget EXCEPT !.commands = @ - 1]
    /\ sup' = [Idle EXCEPT !.cmd = cmd, !.phase = phase, !.pc = pc, !.ident = recorded,
                           !.runs = runs]
    /\ live' = NoCollector
    /\ UNCHANGED <<lab, recorded>>

cmd_create == lab.id = 0 /\ Start("create", "create", "kind_create", 0)

cmd_reset == require_recorded_lab /\ Start("reset", "reset", "reset_pods", 0)

(* A plain spike expects the post-create state and does not reset.         *)
cmd_spike ==
    /\ require_recorded_lab
    /\ \/ Start("spike", "spike", "create_pod", 1)
       \/ \E n \in 2 .. MaxRepeat : Start("spike", "reset", "reset_pods", n)

cmd_collect == require_recorded_lab /\ Start("collect", "reset", "reset_pods", 1)

cmd_destroy == require_recorded_lab /\ Start("destroy", "destroy", "kind_delete", 0)

(* Mutant: collect without its finally.                                    *)
AbortWithoutClose ==
    /\ sup.pc # "idle"
    /\ sup' = Idle
    /\ UNCHANGED <<lab, recorded, live, budget>>

(* kubectl or another call fails, a wait or a guard gives up: the command  *)
(* ends, and cmd_collect closes its collector.                             *)
Abort ==
    /\ sup.pc # "idle"
    /\ sup' = Idle
    /\ live' = NoCollector
    /\ UNCHANGED <<lab, recorded, budget>>

(* The supervisor is killed, which leaves its collector and files behind.  *)
Kill ==
    /\ sup.pc # "idle"
    /\ sup' = [Idle EXCEPT !.killed = TRUE]
    /\ live' = [NoCollector EXCEPT !.proc = live.proc, !.secrets = live.secrets]
    /\ UNCHANGED <<lab, recorded, budget>>

(* Somebody deletes the cluster behind the context, or points the context  *)
(* at a cluster of theirs, with Pods and bindings of the same names.       *)
Replace ==
    /\ budget.replaced > 0
    /\ \/ lab' = NoCluster
       \/ \E local \in BOOLEAN :
            lab' = [NoCluster EXCEPT !.id = Fresh({lab.id, recorded, sup.ident, 0}),
                                     !.local = local, !.binding = TRUE, !.pod = TRUE,
                                     !.source = 1, !.accepted = 1, !.mounted = 1]
    /\ budget' = [budget EXCEPT !.replaced = @ - 1]
    /\ sup' = [sup EXCEPT !.intruded = (sup.pc # "idle")]
    /\ UNCHANGED <<recorded, live>>

(* The kubelet refreshes the canary's mounted Secret.                      *)
Refresh ==
    /\ lab.mounted # lab.accepted
    /\ lab' = [lab EXCEPT !.mounted = lab.accepted]
    /\ UNCHANGED <<recorded, sup, live, budget>>

-----------------------------------------------------------------------------
(* create, destroy and reset *)

At(pc) == sup.pc = pc /\ UNCHANGED budget

KindCreate ==
    /\ At("kind_create")
    /\ lab.id = 0
    /\ \E local \in BOOLEAN :
         lab' = [NoCluster EXCEPT !.id = Fresh({recorded, 0}), !.local = local]
    /\ sup' = Goto("manifests")
    /\ UNCHANGED <<recorded, live>>

(* The manifests restore the bindings; reset has deleted the rest before.  *)
ApplyManifests ==
    /\ At("manifests")
    /\ lab' = [lab EXCEPT !.binding = TRUE]
    /\ sup' = Goto("set_source")
    /\ UNCHANGED <<recorded, live>>

RecordLab ==
    /\ At("record")
    /\ lab.local
    /\ recorded' = lab.id
    /\ sup' = Goto("idle")
    /\ UNCHANGED <<lab, live>>

KindDelete ==
    /\ At("kind_delete")
    /\ lab' = NoCluster
    /\ sup' = Goto("unlink")
    /\ UNCHANGED <<recorded, live>>

Unlink ==
    /\ At("unlink")
    /\ recorded' = 0
    /\ sup' = Goto("idle")
    /\ UNCHANGED <<lab, live>>

ResetPods ==
    /\ At("reset_pods")
    /\ lab' = [lab EXCEPT !.pod = FALSE]
    /\ sup' = [Goto("reset_policy") EXCEPT !.receipt = "none"]
    /\ UNCHANGED <<recorded, live>>

ResetPolicy ==
    /\ At("reset_policy")
    /\ lab' = [lab EXCEPT !.policy = FALSE]
    /\ sup' = Goto("manifests")
    /\ UNCHANGED <<recorded, live>>

(* set_credential writes the source Secret, then the one that the canary   *)
(* accepts.  It is part of create, of reset and of every rotation.         *)
SetSource ==
    /\ At("set_source")
    /\ lab' = [lab EXCEPT !.source = Fresh({lab.source, lab.accepted, lab.mounted,
                                            sup.copied, sup.old, 0})]
    /\ sup' = Goto("set_accepted")
    /\ live' = IF Observed
               THEN [live EXCEPT !.audit = @ \cup {"rotation"},
                                 !.known = @ \cup {<<"rotated", sup.attempt>>}]
               ELSE live
    /\ UNCHANGED recorded

SetAccepted ==
    /\ At("set_accepted")
    /\ lab' = [lab EXCEPT !.accepted = lab.source]
    /\ sup' = Goto(CASE sup.phase = "create" -> "record"
                     [] sup.phase = "reset"  -> "seed_wait"
                     [] OTHER                -> "first_probe")
    /\ UNCHANGED <<recorded, live>>

(* Mutant: reset does not wait for the canary.                             *)
SeedUnchecked ==
    /\ At("seed_wait")
    /\ sup' = Goto("reset_check")
    /\ UNCHANGED <<lab, recorded, live>>

(* seed_credential waits until the canary accepts the value; it gives up   *)
(* after ROTATION_POLL_SECONDS (SeedTimeout).                              *)
SeedAccepted ==
    /\ At("seed_wait")
    /\ 200 \in canary_use(lab.source)
    /\ sup' = Goto("reset_check")
    /\ UNCHANGED <<lab, recorded, live>>

SeedTimeout == sup.pc = "seed_wait" /\ Abort

ResetCheck ==
    /\ At("reset_check")
    /\ require_recorded_lab
    /\ recorded = sup.ident
    /\ sup' = Goto("restored")
    /\ UNCHANGED <<lab, recorded, live>>

(* reset has returned.  collect grants the collector its token and starts  *)
(* process A.                                                              *)
AfterReset ==
    /\ At("restored")
    /\ sup' = [sup EXCEPT !.pc = IF sup.cmd = "reset" THEN "idle" ELSE "create_pod",
                          !.phase = "spike", !.contradicted = FALSE]
    /\ live' = IF Collecting
               THEN [NoCollector EXCEPT !.proc = "A", !.secrets = TRUE,
                                        !.known = {<<"collector", 0>>, <<"copied", 0>>}]
               ELSE live
    /\ UNCHANGED <<lab, recorded>>

-----------------------------------------------------------------------------
(* run_spike, in the order of its steps *)

(* Api refuses another CA, when it is made and in every request.           *)
Pinned == lab.id = sup.ident

CreatePod ==
    /\ At("create_pod")
    /\ Pinned
    /\ LET allowed == lab.binding /\ ~lab.policy
           status == CASE ~allowed -> 403 [] lab.pod -> 409 [] OTHER -> 201
       IN  /\ lab' = [lab EXCEPT !.pod = @ \/ allowed]
           /\ sup' = record(sup, status, "answer_ok", "pod_token")
           /\ live' = IF Observed
                      THEN [live EXCEPT !.known = @ \cup {<<"ci", 0>>},
                                        !.audit = IF status = 201 THEN {"create-pod"} ELSE @]
                      ELSE live
    /\ UNCHANGED recorded

(* Reads the Pod's token, kills the collector and starts B on its spool;   *)
(* B writes a gap if A had spooled anything.                               *)
PodToken ==
    /\ At("pod_token")
    /\ Pinned /\ lab.pod
    /\ sup' = Goto("read_secret")
    /\ \E spooled \in BOOLEAN :
         live' = IF ~Collecting THEN live
                 ELSE [live EXCEPT !.proc = "B", !.known = @ \cup {<<"stolen", 0>>},
                                   !.restarts = IF spooled THEN @ + 1 ELSE @]
    /\ UNCHANGED <<lab, recorded>>

ReadSecret ==
    /\ At("read_secret")
    /\ Pinned
    /\ sup' = [record(sup, 200, "answer_ok", "use_copied") EXCEPT !.copied = lab.source]
    /\ UNCHANGED <<lab, recorded, live>>

UseCopied ==
    /\ At("use_copied")
    /\ \E status \in canary_use(sup.copied) : sup' = record(sup, status, "answer_ok", "canary_isolated")
    /\ UNCHANGED <<lab, recorded, live>>

(* A control probe of a destination, then one from another Pod that should *)
(* get no answer.                                                          *)
Isolation(pc, answer, next) ==
    /\ At(pc)
    /\ \E control, status \in http_probe(answer) :
         sup' = record(record(sup, control, "answer_denied", next), status, "no_answer", next)
    /\ UNCHANGED <<lab, recorded, live>>

RemoveBinding ==
    /\ At("remove_binding")
    /\ lab.binding
    /\ lab' = [lab EXCEPT !.binding = FALSE]
    /\ sup' = Goto("await_denied")
    /\ live' = [live EXCEPT !.audit = IF Observed THEN @ \cup {"delete-binding"} ELSE @]
    /\ UNCHANGED recorded

(* Polls until the removal is effective or POLL_SECONDS have passed.       *)
AwaitDenied ==
    /\ At("await_denied")
    /\ Pinned
    /\ \E status \in {403, 201} : sup' = record(sup, status, "answer_denied", "residual")
    /\ UNCHANGED <<lab, recorded, live>>

ResidualToken ==
    /\ At("residual")
    /\ Pinned
    /\ sup' = record(sup, IF lab.pod THEN 200 ELSE 401, "answer_ok",
                     IF Collecting THEN "finish" ELSE "delete_pod")
    /\ UNCHANGED <<lab, recorded, live>>

DeletePod ==
    /\ At("delete_pod")
    /\ lab.pod
    /\ lab' = [lab EXCEPT !.pod = FALSE]
    /\ sup' = Goto("await_rejected")
    /\ live' = [live EXCEPT !.audit = IF Observed THEN @ \cup {"delete-pod"} ELSE @]
    /\ UNCHANGED recorded

AwaitRejected ==
    /\ At("await_rejected")
    /\ Pinned
    /\ \E status \in {401, 200} : sup' = record(sup, status, "answer_denied", "survives")
    /\ UNCHANGED <<lab, recorded, live>>

CopySurvives ==
    /\ At("survives")
    /\ \E status \in canary_use(sup.copied) :
         sup' = [record(sup, status, "answer_ok", "set_source") EXCEPT !.old = sup.copied,
                                                                      !.attempt = 1]
    /\ UNCHANGED <<lab, recorded, live>>

(* measure_rotation, after set_credential: the old value once, then new    *)
(* and old until the new one is accepted and the old one refused.          *)
FirstProbe ==
    /\ At("first_probe")
    /\ \E status \in canary_use(sup.old) :
         sup' = [sup EXCEPT !.pc = "poll_new", !.first = status, !.new = 0, !.ack = FALSE]
    /\ UNCHANGED <<lab, recorded, live>>

PollNew ==
    /\ At("poll_new")
    /\ \E status \in canary_use(lab.source) : sup' = [sup EXCEPT !.pc = "poll_old", !.new = status]
    /\ UNCHANGED <<lab, recorded, live>>

PollOld ==
    /\ At("poll_old")
    /\ \E status \in canary_use(sup.old) :
         LET acknowledged == sup.new = 200 /\ status = 401
         IN  sup' = [sup EXCEPT !.ack = acknowledged,
                                !.pc = IF acknowledged THEN "attempted" ELSE "poll_new"]
    /\ UNCHANGED <<lab, recorded, live>>

PollTimeout ==
    /\ At("poll_new")
    /\ sup' = Goto("attempted")
    /\ UNCHANGED <<lab, recorded, live>>

(* The rotation is repeated if the first probe did not see the old value   *)
(* accepted.                                                               *)
Attempted ==
    /\ At("attempted")
    /\ live' = [live EXCEPT !.held = IF Collecting THEN @ \cup {<<"rotated", sup.attempt>>} ELSE @]
    /\ sup' = IF sup.first = 200 \/ sup.attempt = RotationAttempts
              THEN Goto("acknowledged")
              ELSE [sup EXCEPT !.pc = "set_source", !.attempt = @ + 1, !.old = lab.source]
    /\ UNCHANGED <<lab, recorded>>

(* Four receipts: the acknowledgement, the copy refused, a delay measured, *)
(* and what the first probe saw.                                           *)
Acknowledged ==
    /\ At("acknowledged")
    /\ \E status \in canary_use(sup.copied) :
         LET one == record(sup, sup.new, "answer_ok", "late_probe")
             two == record(one, status, "answer_denied", "late_probe")
             three == record(two, check_receipt(sup.ack), "answer_ok", "late_probe")
             four == record(three, sup.first, "answer_ok", "late_probe")
         IN  sup' = [four EXCEPT !.first = 0, !.new = 0, !.ack = FALSE, !.attempt = 0]
    /\ UNCHANGED <<lab, recorded, live>>

LateProbe ==
    /\ At("late_probe")
    /\ \E status \in canary_use(sup.old) : sup' = [record(sup, status, "answer_denied", "legitimate") EXCEPT !.old = 0]
    /\ UNCHANGED <<lab, recorded, live>>

LegitimateUse ==
    /\ At("legitimate")
    /\ Pinned
    /\ \E status \in canary_use(lab.source) :
         sup' = record(sup, status, "answer_ok", IF Collecting THEN "finish_contained" ELSE "restore_binding")
    /\ live' = IF Collecting
               THEN [live EXCEPT !.known = @ \cup {<<"legit", 0>>}, !.held = @ \cup {<<"legit", 0>>}]
               ELSE live
    /\ UNCHANGED <<lab, recorded>>

RestoreBinding ==
    /\ At("restore_binding")
    /\ ~lab.binding
    /\ lab' = [lab EXCEPT !.binding = TRUE]
    /\ sup' = Goto("apply_policy")
    /\ UNCHANGED <<recorded, live>>

ApplyPolicy ==
    /\ At("apply_policy")
    /\ lab' = [lab EXCEPT !.policy = TRUE]
    /\ sup' = Goto("negative_control")
    /\ UNCHANGED <<recorded, live>>

NegativeControl ==
    /\ At("negative_control")
    /\ Pinned
    /\ \E status \in {403, 201} :
         sup' = record(sup, status, "answer_denied", IF Collecting THEN "close" ELSE "receipt")
    /\ UNCHANGED <<lab, recorded, live>>

CloseCollector ==
    /\ At("close")
    /\ live' = [NoCollector EXCEPT !.kept = live.kept, !.flaw = live.flaw]
    /\ sup' = Goto("receipt")
    /\ UNCHANGED <<lab, recorded>>

WriteReceipt ==
    /\ At("receipt")
    /\ sup' = [sup EXCEPT !.receipt = validation, !.runs = @ - 1,
                          !.pc = IF sup.runs > 1 THEN "reset_pods" ELSE "idle",
                          !.phase = "reset"]
    /\ UNCHANGED <<lab, recorded, live>>

-----------------------------------------------------------------------------
(* LiveCollector: two windows of evidence, each a bundle that is checked   *)

(* What analyze concludes from a bundle, the given gaps being resolved.    *)
Conclusion(b, resolved) ==
    CASE b.pod /\ "create-pod" \in b.events -> "residual_path"
      [] b.gaps \subseteq resolved -> "contained_within_scope"
      [] OTHER -> "unknown"

GapResolutions == {"audit-before-window", "rbac-rule-unmodeled"}

(* The gap kinds every bundle of the lab has, and those of its flaws.      *)
Bundle(flaw, lost, extra) ==
    [events |-> IF flaw = "lost" THEN live.audit \ {lost} ELSE live.audit,
     correlated |-> flaw # "uncorrelated",
     pod |-> lab.pod \/ flaw = "stale",
     binding |-> lab.binding,
     gaps |-> GapResolutions \cup extra
              \cup (IF flaw = "lost" THEN {"audit-dropped"} ELSE {})
              \cup (IF flaw = "uncorrelated" THEN {"pod-uncorrelated"} ELSE {})
              \cup (IF flaw = "unsynced" THEN {"inventory-unsynced"} ELSE {})]

(* A flaw of a bundle: a record was lost, the watch has not delivered the  *)
(* deletion yet, the creation could not be given a UID, or the initial     *)
(* lists timed out.                                                        *)
Flaws == {"none", "lost", "stale", "uncorrelated", "unsynced"}

inventory_checks(b) ==
    {"create-pod", "delete-binding"} \subseteq b.events /\ b.correlated /\ b.pod /\ ~b.binding

containment_checks(b) ==
    /\ {"create-pod", "delete-binding", "delete-pod", "rotation"} \subseteq b.events
    /\ b.correlated
    /\ ~b.binding /\ ~b.pod

compare_conclusions(collected, reference) == collected = reference

(* Mutant: every collector gap is declared resolved.                       *)
resolve_all_gaps(gaps) == [resolved |-> gaps, blocking |-> {}]

(* Only gaps with a stated reason may be resolved; any other blocks.       *)
plan_gap_resolution(gaps) ==
    [resolved |-> gaps \cap GapResolutions, blocking |-> gaps \ GapResolutions]

compare_containment(b) ==
    LET plan == plan_gap_resolution(b.gaps)
    IN  /\ compare_conclusions(Conclusion(b, plan.resolved), "contained_within_scope")
        /\ plan.blocking = {}
        /\ Conclusion(b, {}) # "residual_path"

(* Held values, and anything that looks like a JWT, in any file.           *)
scan_for_leaks(files, held) == files \cap (held \cup ({"ci", "stolen", "collector", "legit"} \X {0}))

(* What the collector may have put into its files: at most one credential. *)
Leaks == {{}} \cup {{c} : c \in live.known}

(* Mutant: the scan looks for the tokens alone.                            *)
FinishHeldTokens == live.held \cup {<<"ci", 0>>, <<"stolen", 0>>}

FinishHeld == live.held \cup {<<"ci", 0>>, <<"stolen", 0>>, <<"copied", 0>>}

(* B is stopped; C ingests the audit log, relists and writes the bundle.   *)
(* It may fail, or the bundle may not load: that is a receipt, too.        *)
Finish ==
    /\ At("finish")
    /\ \E leak \in Leaks, failed, spooled \in BOOLEAN, flaw \in {"none", "lost"} :
       \E lost \in live.audit :
         LET files == live.files \cup leak
             restarts == IF spooled \/ live.restarts > 0 THEN live.restarts + 1 ELSE 0
             b == Bundle(flaw, lost, IF restarts > 0 THEN {"collector-restart"} ELSE {})
             clean == scan_for_leaks(files, FinishHeld \cup {<<"collector", 0>>}) = {}
             passed == /\ ~failed
                       /\ inventory_checks(b)
                       /\ compare_conclusions(Conclusion(b, {}), "residual_path")
                       /\ restarts >= 2
                       /\ clean
         IN  /\ sup' = record(sup, check_receipt(passed), "answer_ok", "start_contained")
             /\ live' = [live EXCEPT !.proc = "none", !.files = files, !.held = FinishHeld,
                                     !.restarts = 0,
                                     !.kept = IF ~failed /\ clean THEN @ \cup leak ELSE @]
    /\ UNCHANGED <<lab, recorded>>

(* D, on a fresh spool, with a token for the webhook relay.                *)
StartContained ==
    /\ At("start_contained")
    /\ live' = [live EXCEPT !.proc = "D", !.known = @ \cup {<<"webhook", 0>>}]
    /\ sup' = Goto("delete_pod")
    /\ UNCHANGED <<lab, recorded>>

(* The audit log is relayed to D, which is stopped and writes the bundle.  *)
FinishContained ==
    /\ At("finish_contained")
    /\ \E leak \in Leaks, failed \in BOOLEAN, flaw \in Flaws :
       \E lost \in live.audit :
         LET files == live.files \cup leak
             b == Bundle(flaw, lost, {})
             clean == scan_for_leaks(files, live.held \cup ({"collector", "webhook"} \X {0})) = {}
             passed == ~failed /\ containment_checks(b) /\ compare_containment(b) /\ clean
         IN  /\ sup' = record(sup, check_receipt(passed), "answer_ok", "restore_binding")
             /\ live' = [live EXCEPT !.proc = "none", !.files = files, !.flaw = flaw,
                                     !.kept = IF ~failed /\ clean THEN @ \cup leak ELSE @]
    /\ UNCHANGED <<lab, recorded>>

-----------------------------------------------------------------------------
Supervise ==
    \/ KindCreate \/ ApplyManifests \/ RecordLab \/ KindDelete \/ Unlink
    \/ ResetPods \/ ResetPolicy \/ SetSource \/ SetAccepted \/ SeedAccepted
    \/ ResetCheck \/ AfterReset
    \/ CreatePod \/ PodToken \/ ReadSecret \/ UseCopied
    \/ Isolation("canary_isolated", 401, "outsider_isolated")
    \/ Isolation("outsider_isolated", 404, "remove_binding")
    \/ RemoveBinding \/ AwaitDenied \/ ResidualToken \/ DeletePod \/ AwaitRejected
    \/ CopySurvives \/ FirstProbe \/ PollNew \/ PollOld \/ PollTimeout \/ Attempted
    \/ Acknowledged \/ LateProbe \/ LegitimateUse \/ RestoreBinding \/ ApplyPolicy
    \/ NegativeControl \/ CloseCollector \/ WriteReceipt
    \/ Finish \/ StartContained \/ FinishContained

Command == cmd_create \/ cmd_reset \/ cmd_spike \/ cmd_collect \/ cmd_destroy

Next == Command \/ Supervise \/ SeedTimeout \/ Abort \/ Kill \/ Replace \/ Refresh

(* A command goes on until it returns or raises.  Its polling loops are    *)
(* bounded by the clock.                                                   *)
Fairness ==
    /\ WF_vars(Supervise \/ Abort)
    /\ WF_vars(SeedTimeout)
    /\ SF_vars(PollTimeout)

Spec == Init /\ [][Next]_vars /\ Fairness

-----------------------------------------------------------------------------
(* Properties *)

(* When reset returns, the recorded cluster is in its post-create state    *)
(* whatever earlier commands left half-done: no attacker Pod, no admission *)
(* policy, the binding back, one credential at its source, at the canary   *)
(* and in the canary's mount.                                              *)
ResetRestores ==
    [][sup'.pc = "restored" /\ sup.pc # "restored" =>
         /\ lab'.id = recorded' /\ lab'.local
         /\ lab'.binding /\ ~lab'.pod /\ ~lab'.policy
         /\ lab'.source = lab'.accepted /\ lab'.accepted = lab'.mounted]_vars

(* No command changes a cluster other than the recorded, local one, except *)
(* create, which makes it, and a command whose cluster was replaced while  *)
(* it ran: kubectl names the context, and only Api pins the CA.            *)
ForeignUntouched ==
    [][lab' # lab /\ sup' # sup /\ budget' = budget =>
         sup.cmd = "create" \/ sup.intruded \/ (lab.id = recorded /\ lab.local)]_vars

(* A lab_confirmed receipt is never wrong about the cluster it was written *)
(* on: the attacker's Pod is gone and the canary refuses what it copied,   *)
(* although any probe may fail and the kubelet refreshes when it likes.    *)
ConfirmedContained ==
    sup.receipt = "lab_confirmed" /\ lab.id = sup.ident =>
        ~lab.pod /\ lab.mounted = lab.source /\ lab.mounted # sup.copied

(* A collect that is confirmed rests on a bundle of the second window in   *)
(* which nothing was lost, stale, uncorrelated or unsynced.                *)
EvidenceComplete ==
    Collecting /\ sup.receipt = "lab_confirmed" => live.flaw = "none"

(* No credential that existed during a collect is in a bundle kept under   *)
(* labs/collected, whatever the collector writes into its files.           *)
LeakFree == live.kept = {}

(* Every command ends, and unless it was killed with no collector running  *)
(* and no kubeconfig left behind.                                          *)
CommandsEnd ==
    (sup.pc # "idle") ~> (sup.pc = "idle" /\ (sup.killed \/ (live.proc = "none" /\ ~live.secrets)))
=============================================================================
