----------------------------- MODULE LabProofs ------------------------------
(***************************************************************************)
(* Proofs about Lab, for any number of commands, replaced clusters, runs   *)
(* and rotations.  A supervisor's place says what has been done since the  *)
(* last reset, on the cluster whose identity the command began with; any   *)
(* other cluster behind the context makes the invariants say nothing.      *)
(***************************************************************************)
EXTENDS Lab, FiniteSetTheorems, TLAPS

-----------------------------------------------------------------------------
(* The places of a command.                                                *)

ResetOnly == {"reset_pods", "reset_policy", "seed_wait", "reset_check", "restored"}

(* run_spike before the first window of evidence ends, and from there to   *)
(* the end of the second.                                                  *)
Early == {"create_pod", "pod_token", "read_secret", "use_copied", "canary_isolated",
          "outsider_isolated", "remove_binding", "await_denied", "residual", "finish"}
Measured == {"first_probe", "poll_new", "poll_old", "attempted"}
Late == {"start_contained", "delete_pod", "await_rejected", "survives"} \cup Measured
        \cup {"acknowledged", "late_probe", "legitimate", "finish_contained"}
Ended == {"restore_binding", "apply_policy", "negative_control", "close", "receipt"}

SpikeOnly == Early \cup Late \cup Ended

CollectOnly == {"finish", "start_contained", "finish_contained", "close"}

LabFields == {"id", "local", "binding", "pod", "policy", "source", "accepted", "mounted"}
SupFields == {"cmd", "phase", "pc", "ident", "runs", "copied", "old", "attempt", "first", "new",
              "ack", "contradicted", "receipt", "killed", "intruded"}
LiveFields == {"proc", "secrets", "restarts", "audit", "known", "held", "files", "kept", "flaw"}

Fields == DOMAIN lab = LabFields /\ DOMAIN sup = SupFields /\ DOMAIN live = LiveFields

(* The phase goes with the place, and a receipt is the last thing that     *)
(* happens; only create works on a cluster that nobody has recorded.       *)
Control ==
    /\ sup.pc \in ResetOnly => sup.phase = "reset"
    /\ sup.pc \in SpikeOnly => sup.phase = "spike"
    /\ sup.pc \in {"kind_create", "record"} => sup.phase = "create"
    /\ sup.pc = "manifests" => sup.phase \in {"create", "reset"}
    /\ sup.pc \in {"set_source", "set_accepted"} => sup.phase \in {"create", "reset", "spike"}
    /\ sup.pc \in CollectOnly => Collecting
    /\ sup.phase = "create" <=> sup.cmd = "create"
    /\ sup.receipt = "none" \/ sup.pc \in {"idle", "reset_pods"}
    /\ sup.receipt = "lab_confirmed" => ~sup.contradicted
    /\ sup.pc # "idle" /\ sup.cmd # "create" => sup.ident # 0
    /\ sup.receipt = "lab_confirmed" => sup.ident # 0

(* The cluster a command works on is the recorded one, unless it was       *)
(* replaced meanwhile.                                                     *)
Recorded ==
    sup.pc \notin {"idle", "unlink"} /\ sup.cmd # "create" /\ ~sup.intruded =>
        lab.id = recorded /\ lab.local

(* What a reset has restored so far.                                       *)
Restoring ==
    sup.phase = "reset" /\ lab.id = sup.ident =>
        /\ sup.pc \in {"reset_policy", "manifests", "set_source", "set_accepted", "seed_wait",
                       "reset_check", "restored"} => ~lab.pod
        /\ sup.pc \in {"manifests", "set_source", "set_accepted", "seed_wait", "reset_check",
                       "restored"} => ~lab.policy
        /\ sup.pc \in {"set_source", "set_accepted", "seed_wait", "reset_check",
                       "restored"} => lab.binding
        /\ sup.pc \in {"seed_wait", "reset_check", "restored"} => lab.accepted = lab.source
        /\ sup.pc \in {"reset_check", "restored"} => lab.mounted = lab.source

(* What a spike has contained so far, if no receipt contradicts it.        *)
Deleted == Measured \cup Ended \cup {"await_rejected", "survives", "set_source", "set_accepted",
              "acknowledged", "late_probe", "legitimate", "finish_contained"}
Rotated == Measured \cup Ended \cup {"acknowledged", "late_probe", "legitimate", "finish_contained"}
Accepted == Ended \cup {"finish_contained"}

Containing ==
    /\ sup.phase = "spike" /\ lab.id = sup.ident /\ ~sup.contradicted =>
         /\ sup.pc \in Deleted => ~lab.pod
         /\ sup.pc \in Rotated \cup {"set_accepted"} => lab.source # sup.copied
         /\ sup.pc \in Rotated => lab.accepted = lab.source
         /\ sup.pc \in Accepted => lab.mounted = lab.source
    /\ sup.receipt = "lab_confirmed" /\ lab.id = sup.ident =>
         ~lab.pod /\ lab.mounted = lab.source /\ lab.accepted = lab.source /\ lab.source # sup.copied

(* A flaw of the bundle that the conclusion rests on contradicts the run.  *)
FlawsShow == Collecting /\ live.flaw # "none" => sup.contradicted

(* Every credential there has been is one that the next scan looks for.    *)
FirstKnown == {"collector", "copied", "ci", "stolen"} \X {0}

CredentialsHeld ==
    Collecting =>
        /\ sup.pc \in Early => live.known \subseteq FirstKnown
        /\ sup.pc \in Late \/ (sup.phase = "spike" /\ sup.pc \in {"set_source", "set_accepted"}) =>
             /\ <<"copied", 0>> \in live.held
             /\ live.known \subseteq
                  live.held \cup FirstKnown \cup {<<"webhook", 0>>}
                    \cup (IF sup.pc \in Measured \cup {"set_accepted"}
                         THEN {<<"rotated", sup.attempt>>} ELSE {})

LabInv ==
    /\ Fields /\ Control /\ Recorded /\ Restoring /\ Containing
    /\ FlawsShow /\ CredentialsHeld /\ LeakFree

-----------------------------------------------------------------------------
(* What a step can do to the supervisor.                                   *)

(* It goes on to its next place, and forgets no contradiction.             *)
To(next) ==
    /\ DOMAIN sup' = SupFields
    /\ sup'.pc = next /\ sup'.cmd = sup.cmd /\ sup'.phase = sup.phase
    /\ sup'.ident = sup.ident /\ sup'.intruded = sup.intruded
    /\ sup.contradicted => sup'.contradicted

(* It goes on within run_spike to a place at which nothing more is known.  *)
Within(next) ==
    /\ sup.pc \in SpikeOnly /\ next \in SpikeOnly
    /\ next \in CollectOnly => Collecting
    /\ next \in Deleted => sup.pc \in Deleted
    /\ next \in Rotated => sup.pc \in Rotated
    /\ next \in Accepted => sup.pc \in Accepted
    /\ Collecting => /\ next \in Early => sup.pc \in Early
                     /\ next \in Late => sup.pc \in Late
    /\ next \in Measured <=> sup.pc \in Measured

(* Such a step, when it is a probe, keeps every invariant.                 *)
LEMMA ProbeKeeps ==
    ASSUME LabInv, NEW next, To(next), Within(next), sup'.copied = sup.copied,
           sup'.receipt = sup.receipt, next \in Measured => sup'.attempt = sup.attempt,
           lab' = lab, live' = live, recorded' = recorded
    PROVE  LabInv'
<1>0. /\ sup.phase = "spike" /\ sup.receipt = "none"
      /\ next \notin ResetOnly \cup {"idle", "unlink", "kind_create", "record", "manifests",
                         "set_source", "set_accepted", "reset_pods"}
      /\ sup.pc \notin {"idle", "unlink"}
  BY DEF LabInv, Control, Within, SpikeOnly, Early, Late, Ended, ResetOnly, Measured
<1>1. Fields' /\ LeakFree'
  BY DEF LabInv, Fields, To, LeakFree
<1>2. Control'
  BY <1>0 DEF LabInv, Control, To, Within, ResetOnly, Collecting
<1>3. Recorded'
  BY <1>0 DEF LabInv, Recorded, To
<1>4. Restoring'
  BY <1>0 DEF Restoring, To
<1>5. Containing'
  BY <1>0 DEF LabInv, Containing, To, Within
<1>6. FlawsShow'
  BY DEF LabInv, FlawsShow, To, Collecting
<1>7. CredentialsHeld'
  <2> SUFFICES ASSUME Collecting PROVE CredentialsHeld'
    BY DEF CredentialsHeld, Collecting, To
  <2>1. sup'.pc \in Early => live'.known \subseteq FirstKnown
    BY DEF LabInv, CredentialsHeld, To, Within, Collecting
  <2>2. CASE next \in Late
    <3>1. sup.pc \in Late /\ next \notin {"set_source", "set_accepted"}
          /\ sup.pc \notin {"set_source", "set_accepted"}
      BY <1>0, <2>2 DEF Within, SpikeOnly, Early, Late, Ended, Measured
    <3>2. CASE next \in Measured
      BY <2>1, <2>2, <3>1, <3>2 DEF LabInv, CredentialsHeld, To, Within, Collecting
    <3>3. CASE next \notin Measured
      BY <2>1, <2>2, <3>1, <3>3 DEF LabInv, CredentialsHeld, To, Within, Collecting
    <3> QED
      BY <3>2, <3>3
  <2>3. CASE next \notin Late
    BY <1>0, <2>1, <2>3 DEF CredentialsHeld, To
  <2> QED
    BY <2>2, <2>3
<1> QED
  BY <1>1, <1>2, <1>3, <1>4, <1>5, <1>6, <1>7 DEF LabInv

(* The probes.                                                             *)
LEMMA Probes ==
    ASSUME LabInv,
           \/ UseCopied \/ AwaitDenied \/ ResidualToken \/ AwaitRejected
           \/ Isolation("canary_isolated", 401, "outsider_isolated")
           \/ Isolation("outsider_isolated", 404, "remove_binding")
           \/ FirstProbe \/ PollNew \/ PollOld \/ PollTimeout
           \/ Acknowledged \/ LateProbe \/ NegativeControl
    PROVE  LabInv'
<1> DEFINE Probe(next) ==
      /\ To(next) /\ sup'.copied = sup.copied /\ sup'.receipt = sup.receipt
      /\ (next \in Measured => sup'.attempt = sup.attempt)
      /\ lab' = lab /\ live' = live /\ recorded' = recorded
<1> USE DEF LabInv, Fields, SupFields, To, At, Goto, record
<1>1. CASE UseCopied
  <2>1. Probe("canary_isolated")
    BY <1>1 DEF UseCopied, Measured
  <2>2. Within("canary_isolated")
    BY <1>1 DEF UseCopied, Within, SpikeOnly, Deleted, Rotated, Accepted, Early, Late,
       Ended, Measured, CollectOnly, Collecting
  <2> QED
    BY <2>1, <2>2, ProbeKeeps
<1>2. CASE Isolation("canary_isolated", 401, "outsider_isolated")
  <2>1. Probe("outsider_isolated")
    BY <1>2 DEF Isolation, Measured
  <2>2. Within("outsider_isolated")
    BY <1>2 DEF Isolation, Within, SpikeOnly, Deleted, Rotated, Accepted, Early, Late,
       Ended, Measured, CollectOnly, Collecting
  <2> QED
    BY <2>1, <2>2, ProbeKeeps
<1>3. CASE Isolation("outsider_isolated", 404, "remove_binding")
  <2>1. Probe("remove_binding")
    BY <1>3 DEF Isolation, Measured
  <2>2. Within("remove_binding")
    BY <1>3 DEF Isolation, Within, SpikeOnly, Deleted, Rotated, Accepted, Early, Late,
       Ended, Measured, CollectOnly, Collecting
  <2> QED
    BY <2>1, <2>2, ProbeKeeps
<1>4. CASE AwaitDenied
  <2>0. PICK status : sup' = record(sup, status, "answer_denied", "residual")
    BY <1>4 DEF AwaitDenied
  <2>1. Probe("residual")
    BY <1>4, <2>0 DEF AwaitDenied, Measured
  <2>2. Within("residual")
    BY <1>4 DEF AwaitDenied, Within, SpikeOnly, Deleted, Rotated, Accepted, Early, Late,
       Ended, Measured, CollectOnly, Collecting
  <2> QED
    BY <2>1, <2>2, ProbeKeeps
<1>5. CASE ResidualToken
  <2>0. PICK next, status : /\ next = IF Collecting THEN "finish" ELSE "delete_pod"
                            /\ sup' = record(sup, status, "answer_ok", next)
    <3> DEFINE status == IF lab.pod THEN 200 ELSE 401
               next == IF Collecting THEN "finish" ELSE "delete_pod"
    <3>1. sup' = record(sup, status, "answer_ok", next)
      BY <1>5 DEF ResidualToken
    <3> HIDE DEF status, record
    <3> QED
      BY <3>1
  <2>1. Probe(next)
    BY <1>5, <2>0, ZenonT(60) DEF ResidualToken, Measured
  <2>2. Within(next)
    BY <1>5, <2>0 DEF ResidualToken, Within, SpikeOnly, Deleted, Rotated, Accepted, Early, Late,
       Ended, Measured, CollectOnly, Collecting
  <2> QED
    BY <2>1, <2>2, ProbeKeeps
<1>6. CASE AwaitRejected
  <2>0. PICK status : sup' = record(sup, status, "answer_denied", "survives")
    BY <1>6 DEF AwaitRejected
  <2>1. Probe("survives")
    BY <1>6, <2>0 DEF AwaitRejected, Measured
  <2>2. Within("survives")
    BY <1>6 DEF AwaitRejected, Within, SpikeOnly, Deleted, Rotated, Accepted, Early, Late,
       Ended, Measured, CollectOnly, Collecting
  <2> QED
    BY <2>1, <2>2, ProbeKeeps
<1>7. CASE FirstProbe
  <2>1. Probe("poll_new")
    BY <1>7 DEF FirstProbe, Measured
  <2>2. Within("poll_new")
    BY <1>7 DEF FirstProbe, Within, SpikeOnly, Deleted, Rotated, Accepted, Early, Late,
       Ended, Measured, CollectOnly, Collecting
  <2> QED
    BY <2>1, <2>2, ProbeKeeps
<1>8. CASE PollNew
  <2>1. Probe("poll_old")
    BY <1>8 DEF PollNew, Measured
  <2>2. Within("poll_old")
    BY <1>8 DEF PollNew, Within, SpikeOnly, Deleted, Rotated, Accepted, Early, Late,
       Ended, Measured, CollectOnly, Collecting
  <2> QED
    BY <2>1, <2>2, ProbeKeeps
<1>9. CASE PollOld
  <2>0. PICK next \in {"attempted", "poll_new"} :
          \E ack : sup' = [sup EXCEPT !.ack = ack, !.pc = next]
    BY <1>9 DEF PollOld
  <2>a. PICK ack : sup' = [sup EXCEPT !.ack = ack, !.pc = next]
    BY <2>0
  <2>b. lab' = lab /\ live' = live /\ recorded' = recorded
    BY <1>9 DEF PollOld
  <2>1. Probe(next)
    BY <2>a, <2>b DEF Measured
  <2>2. Within(next)
    BY <1>9, <2>0 DEF PollOld, Within, SpikeOnly, Deleted, Rotated, Accepted, Early, Late,
       Ended, Measured, CollectOnly, Collecting
  <2> QED
    BY <2>1, <2>2, ProbeKeeps
<1>10. CASE PollTimeout
  <2>1. Probe("attempted")
    BY <1>10 DEF PollTimeout, Measured
  <2>2. Within("attempted")
    BY <1>10 DEF PollTimeout, Within, SpikeOnly, Deleted, Rotated, Accepted, Early, Late,
       Ended, Measured, CollectOnly, Collecting
  <2> QED
    BY <2>1, <2>2, ProbeKeeps
<1>11. CASE Acknowledged
  <2>1. Probe("late_probe")
    BY <1>11, ZenonT(60) DEF Acknowledged, Measured
  <2>2. Within("late_probe")
    BY <1>11 DEF Acknowledged, Within, SpikeOnly, Deleted, Rotated, Accepted, Early, Late,
       Ended, Measured, CollectOnly, Collecting
  <2> QED
    BY <2>1, <2>2, ProbeKeeps
<1>12. CASE LateProbe
  <2>1. Probe("legitimate")
    BY <1>12 DEF LateProbe, Measured
  <2>2. Within("legitimate")
    BY <1>12 DEF LateProbe, Within, SpikeOnly, Deleted, Rotated, Accepted, Early, Late,
       Ended, Measured, CollectOnly, Collecting
  <2> QED
    BY <2>1, <2>2, ProbeKeeps
<1>13. CASE NegativeControl
  <2>0. PICK next, status : /\ next = IF Collecting THEN "close" ELSE "receipt"
                            /\ sup' = record(sup, status, "answer_denied", next)
    BY <1>13 DEF NegativeControl
  <2>1. Probe(next)
    BY <1>13, <2>0 DEF NegativeControl, Measured
  <2>2. Within(next)
    BY <1>13, <2>0 DEF NegativeControl, Within, SpikeOnly, Deleted, Rotated, Accepted, Early, Late,
       Ended, Measured, CollectOnly, Collecting
  <2> QED
    BY <2>1, <2>2, ProbeKeeps
<1> QED
  BY <1>1, <1>2, <1>3, <1>4, <1>5, <1>6, <1>7, <1>8, <1>9, <1>10, <1>11, <1>12, <1>13

(* Among the first Cardinality(used) + 1 numbers one is not used.          *)
LEMMA FreshDiffers ==
    ASSUME NEW used, IsFiniteSet(used)
    PROVE  Fresh(used) \notin used
<1> DEFINE n == Cardinality(used)
<1>1. n \in Nat
  BY FS_CardinalityType
<1>2. IsFiniteSet(1 .. n + 1) /\ Cardinality(1 .. n + 1) = n + 1
  BY <1>1, FS_Interval
<1>3. ~ (1 .. n + 1 \subseteq used)
  BY <1>1, <1>2, FS_Subset
<1> QED
  BY <1>3 DEF Fresh

(* The same for the sets that the commands choose from.                   *)
LEMMA FreshIn ==
    ASSUME NEW a, NEW b, NEW c, NEW d, NEW e, NEW f
    PROVE  /\ Fresh({a, b}) \notin {a, b}
           /\ Fresh({a, b, c, d}) \notin {a, b, c, d}
           /\ Fresh({a, b, c, d, e, f}) \notin {a, b, c, d, e, f}
<1>1. IsFiniteSet({a})
  BY FS_Singleton
<1>2. IsFiniteSet({a} \cup {b})
  BY <1>1, FS_AddElement
<1>3. IsFiniteSet({a, b} \cup {c})
  BY <1>2, FS_AddElement
<1>4. IsFiniteSet({a, b, c} \cup {d})
  BY <1>3, FS_AddElement
<1>5. IsFiniteSet({a, b, c, d} \cup {e})
  BY <1>4, FS_AddElement
<1>6. IsFiniteSet({a, b, c, d, e} \cup {f})
  BY <1>5, FS_AddElement
<1>7. /\ {a, b} = {a} \cup {b}
      /\ {a, b, c, d} = {a, b, c} \cup {d}
      /\ {a, b, c, d, e, f} = {a, b, c, d, e} \cup {f}
  OBVIOUS
<1> QED
  BY <1>2, <1>4, <1>6, <1>7, FreshDiffers

(* create and destroy: no conclusion is drawn while they run, and what    *)
(* create makes is no cluster that anybody recorded.                       *)
LEMMA CreateSteps ==
    ASSUME LabInv,
           \/ KindCreate \/ ApplyManifests \/ RecordLab \/ KindDelete \/ Unlink
    PROVE  LabInv'
<1> USE DEF LabInv, Fields, LabFields, SupFields, LiveFields, At, Goto, record,
           NoCluster, NoCollector, Idle, ResetOnly, SpikeOnly, Early, Measured, Late, Ended,
           CollectOnly, Collecting, Observed
<1>1. CASE KindCreate
  <2>0. sup.cmd = "create" /\ sup.receipt = "none" /\ sup.phase = "create"
    BY <1>1 DEF KindCreate, Control
  <2>1. (Fields /\ LeakFree /\ FlawsShow)'
    BY <1>1 DEF KindCreate, Fields, LeakFree, FlawsShow
  <2>2. Control'
    BY <1>1 DEF KindCreate, Control
  <2>3. Recorded'
    BY <1>1, <2>0 DEF KindCreate, Recorded
  <2>4. Restoring'
    BY <1>1 DEF KindCreate, Restoring
  <2>5. Containing'
    BY <1>1, <2>0 DEF KindCreate, Containing, Deleted, Rotated, Accepted
  <2>6. CredentialsHeld'
    BY <1>1, <2>0 DEF KindCreate, CredentialsHeld, FirstKnown
  <2> QED
    BY <2>1, <2>2, <2>3, <2>4, <2>5, <2>6
<1>2. CASE ApplyManifests
  <2>0. sup.receipt = "none" /\ sup.phase # "spike"
    BY <1>2 DEF ApplyManifests, Control
  <2>1. (Fields /\ LeakFree /\ FlawsShow)'
    BY <1>2 DEF ApplyManifests, Fields, LeakFree, FlawsShow
  <2>2. Control'
    BY <1>2 DEF ApplyManifests, Control
  <2>3. Recorded'
    BY <1>2 DEF ApplyManifests, Recorded
  <2>4. Restoring'
    BY <1>2 DEF ApplyManifests, Restoring
  <2>5. Containing'
    BY <1>2, <2>0 DEF ApplyManifests, Containing, Deleted, Rotated, Accepted
  <2>6. CredentialsHeld'
    BY <1>2, <2>0 DEF ApplyManifests, CredentialsHeld, FirstKnown
  <2> QED
    BY <2>1, <2>2, <2>3, <2>4, <2>5, <2>6
<1>3. CASE RecordLab
  <2>1. (Fields /\ LeakFree /\ FlawsShow)'
    BY <1>3 DEF RecordLab, Fields, LeakFree, FlawsShow
  <2>2. Control'
    BY <1>3 DEF RecordLab, Control
  <2>3. Recorded'
    BY <1>3 DEF RecordLab, Recorded
  <2>4. Restoring'
    BY <1>3 DEF RecordLab, Restoring
  <2>5. Containing'
    BY <1>3 DEF RecordLab, Containing, Deleted, Rotated, Accepted
  <2>6. CredentialsHeld'
    BY <1>3 DEF RecordLab, CredentialsHeld, FirstKnown
  <2> QED
    BY <2>1, <2>2, <2>3, <2>4, <2>5, <2>6
<1>4. CASE KindDelete
  <2>0. sup.receipt = "none"
    BY <1>4 DEF KindDelete, Control
  <2>1. (Fields /\ LeakFree /\ FlawsShow)'
    BY <1>4 DEF KindDelete, Fields, LeakFree, FlawsShow
  <2>2. Control'
    BY <1>4 DEF KindDelete, Control
  <2>3. Recorded'
    BY <1>4 DEF KindDelete, Recorded
  <2>4. Restoring'
    BY <1>4 DEF KindDelete, Restoring
  <2>5. Containing'
    BY <1>4, <2>0 DEF KindDelete, Containing, Deleted, Rotated, Accepted
  <2>6. CredentialsHeld'
    BY <1>4 DEF KindDelete, CredentialsHeld, FirstKnown
  <2> QED
    BY <2>1, <2>2, <2>3, <2>4, <2>5, <2>6
<1>5. CASE Unlink
  <2>1. (Fields /\ LeakFree /\ FlawsShow)'
    BY <1>5 DEF Unlink, Fields, LeakFree, FlawsShow
  <2>2. Control'
    BY <1>5 DEF Unlink, Control
  <2>3. Recorded'
    BY <1>5 DEF Unlink, Recorded
  <2>4. Restoring'
    BY <1>5 DEF Unlink, Restoring
  <2>5. Containing'
    BY <1>5 DEF Unlink, Containing, Deleted, Rotated, Accepted
  <2>6. CredentialsHeld'
    BY <1>5 DEF Unlink, CredentialsHeld, FirstKnown
  <2> QED
    BY <2>1, <2>2, <2>3, <2>4, <2>5, <2>6
<1> QED
  BY <1>1, <1>2, <1>3, <1>4, <1>5

(* reset and set_credential: the place goes with what has been restored.  *)
LEMMA ResetSteps ==
    ASSUME LabInv,
           \/ ResetPods \/ ResetPolicy \/ SetSource \/ SetAccepted \/ SeedAccepted
           \/ ResetCheck \/ AfterReset
    PROVE  LabInv'
<1> USE DEF LabInv, Fields, LabFields, SupFields, LiveFields, At, Goto, record,
           NoCluster, NoCollector, Idle, ResetOnly, SpikeOnly, Early, Measured, Late, Ended,
           CollectOnly, Collecting, Observed
<1>1. CASE ResetPods
  <2>1. (Fields /\ LeakFree /\ FlawsShow)'
    BY <1>1 DEF ResetPods, Fields, LeakFree, FlawsShow
  <2>2. Control'
    BY <1>1 DEF ResetPods, Control
  <2>3. Recorded'
    BY <1>1 DEF ResetPods, Recorded
  <2>4. Restoring'
    BY <1>1 DEF ResetPods, Restoring
  <2>5. Containing'
    BY <1>1 DEF ResetPods, Containing, Deleted, Rotated, Accepted
  <2>6. CredentialsHeld'
    BY <1>1 DEF ResetPods, CredentialsHeld, FirstKnown
  <2> QED
    BY <2>1, <2>2, <2>3, <2>4, <2>5, <2>6
<1>2. CASE ResetPolicy
  <2>1. (Fields /\ LeakFree /\ FlawsShow)'
    BY <1>2 DEF ResetPolicy, Fields, LeakFree, FlawsShow
  <2>2. Control'
    BY <1>2 DEF ResetPolicy, Control
  <2>3. Recorded'
    BY <1>2 DEF ResetPolicy, Recorded
  <2>4. Restoring'
    BY <1>2 DEF ResetPolicy, Restoring
  <2>5. Containing'
    BY <1>2 DEF ResetPolicy, Containing, Deleted, Rotated, Accepted
  <2>6. CredentialsHeld'
    BY <1>2 DEF ResetPolicy, CredentialsHeld, FirstKnown
  <2> QED
    BY <2>1, <2>2, <2>3, <2>4, <2>5, <2>6
<1>3. CASE SetSource
  <2>0. sup.receipt = "none"
    BY <1>3 DEF SetSource, Control
  <2>1. (Fields /\ LeakFree /\ FlawsShow)'
    BY <1>3 DEF SetSource, Fields, LeakFree, FlawsShow
  <2>2. Control'
    BY <1>3 DEF SetSource, Control
  <2>3. Recorded'
    BY <1>3 DEF SetSource, Recorded
  <2>4. Restoring'
    BY <1>3 DEF SetSource, Restoring
  <2>5. Containing'
    <3> DEFINE used == {lab.source, lab.accepted, lab.mounted, sup.copied, sup.old, 0}
    <3>1. Fresh(used) \notin used
      BY FreshIn
    <3>2. PICK new : new = Fresh(used)
      OBVIOUS
    <3>3. new # sup.copied
      BY <3>1, <3>2
    <3>4. lab' = [lab EXCEPT !.source = new]
      BY <1>3, <3>2 DEF SetSource
    <3> QED
      BY <1>3, <2>0, <3>3, <3>4 DEF SetSource, Containing, Deleted, Rotated, Accepted
  <2>6. CredentialsHeld'
    BY <1>3 DEF SetSource, CredentialsHeld, FirstKnown
  <2> QED
    BY <2>1, <2>2, <2>3, <2>4, <2>5, <2>6
<1>4. CASE SetAccepted
  <2>0. sup.receipt = "none"
    BY <1>4 DEF SetAccepted, Control
  <2>1. (Fields /\ LeakFree /\ FlawsShow)'
    BY <1>4 DEF SetAccepted, Fields, LeakFree, FlawsShow
  <2>2. Control'
    BY <1>4 DEF SetAccepted, Control
  <2>3. Recorded'
    BY <1>4 DEF SetAccepted, Recorded
  <2>4. Restoring'
    BY <1>4 DEF SetAccepted, Restoring
  <2>5. Containing'
    BY <1>4, <2>0 DEF SetAccepted, Containing, Deleted, Rotated, Accepted
  <2>6. CredentialsHeld'
    <3>1. PICK next \in {"record", "seed_wait", "first_probe"} :
            /\ sup' = Goto(next)
            /\ next = "first_probe" => sup.phase = "spike"
      BY <1>4 DEF SetAccepted, Control
    <3> QED
      BY <1>4, <3>1 DEF SetAccepted, CredentialsHeld, FirstKnown
  <2> QED
    BY <2>1, <2>2, <2>3, <2>4, <2>5, <2>6
<1>5. CASE SeedAccepted
  <2>0. sup.receipt = "none"
    BY <1>5 DEF SeedAccepted, Control
  <2>1. (Fields /\ LeakFree /\ FlawsShow)'
    BY <1>5 DEF SeedAccepted, Fields, LeakFree, FlawsShow
  <2>2. Control'
    BY <1>5 DEF SeedAccepted, Control
  <2>3. Recorded'
    BY <1>5 DEF SeedAccepted, Recorded
  <2>4. Restoring'
    <3>1. lab.mounted = lab.source
      BY <1>5 DEF SeedAccepted, canary_use, http_probe
    <3> QED
      BY <1>5, <3>1 DEF SeedAccepted, Restoring
  <2>5. Containing'
    BY <1>5 DEF SeedAccepted, Containing, Deleted, Rotated, Accepted
  <2>6. CredentialsHeld'
    BY <1>5 DEF SeedAccepted, CredentialsHeld, FirstKnown
  <2> QED
    BY <2>1, <2>2, <2>3, <2>4, <2>5, <2>6
<1>6. CASE ResetCheck
  <2>1. (Fields /\ LeakFree /\ FlawsShow)'
    BY <1>6 DEF ResetCheck, Fields, LeakFree, FlawsShow
  <2>2. Control'
    BY <1>6 DEF ResetCheck, Control
  <2>3. Recorded'
    BY <1>6 DEF ResetCheck, Recorded
  <2>4. Restoring'
    BY <1>6 DEF ResetCheck, Restoring
  <2>5. Containing'
    BY <1>6 DEF ResetCheck, Containing, Deleted, Rotated, Accepted
  <2>6. CredentialsHeld'
    BY <1>6 DEF ResetCheck, CredentialsHeld, FirstKnown
  <2> QED
    BY <2>1, <2>2, <2>3, <2>4, <2>5, <2>6
<1>7. CASE AfterReset
  <2>1. (Fields /\ LeakFree /\ FlawsShow)'
    BY <1>7 DEF AfterReset, Fields, LeakFree, FlawsShow
  <2>2. Control'
    BY <1>7 DEF AfterReset, Control
  <2>3. Recorded'
    BY <1>7 DEF AfterReset, Recorded
  <2>4. Restoring'
    BY <1>7 DEF AfterReset, Restoring
  <2>5. Containing'
    BY <1>7 DEF AfterReset, Containing, Deleted, Rotated, Accepted
  <2>6. CredentialsHeld'
    BY <1>7 DEF AfterReset, CredentialsHeld, FirstKnown
  <2> QED
    BY <2>1, <2>2, <2>3, <2>4, <2>5, <2>6
<1> QED
  BY <1>1, <1>2, <1>3, <1>4, <1>5, <1>6, <1>7

(* The steps of run_spike that change the cluster, the copied value or     *)
(* the collector's credentials.                                            *)
LEMMA SpikeSteps ==
    ASSUME LabInv,
           \/ CreatePod \/ PodToken \/ ReadSecret \/ RemoveBinding \/ DeletePod
           \/ CopySurvives \/ Attempted \/ LegitimateUse \/ RestoreBinding \/ ApplyPolicy
           \/ CloseCollector \/ WriteReceipt \/ StartContained
    PROVE  LabInv'
<1> USE DEF LabInv, Fields, LabFields, SupFields, LiveFields, At, Goto, record,
           NoCluster, NoCollector, Idle, ResetOnly, SpikeOnly, Early, Measured, Late, Ended,
           CollectOnly, Collecting, Observed
<1>1. CASE CreatePod
  <2>0. sup.receipt = "none"
    BY <1>1 DEF CreatePod, Control
  <2>1. (Fields /\ LeakFree /\ FlawsShow)'
    BY <1>1 DEF CreatePod, Fields, LeakFree, FlawsShow
  <2>2. Control'
    BY <1>1 DEF CreatePod, Control
  <2>3. Recorded'
    BY <1>1 DEF CreatePod, Recorded
  <2>4. Restoring'
    BY <1>1 DEF CreatePod, Restoring
  <2>5. Containing'
    BY <1>1, <2>0 DEF CreatePod, Containing, Deleted, Rotated, Accepted
  <2>6. CredentialsHeld'
    BY <1>1 DEF CreatePod, CredentialsHeld, FirstKnown
  <2> QED
    BY <2>1, <2>2, <2>3, <2>4, <2>5, <2>6
<1>2. CASE PodToken
  <2>1. (Fields /\ LeakFree /\ FlawsShow)'
    BY <1>2 DEF PodToken, Fields, LeakFree, FlawsShow
  <2>2. Control'
    BY <1>2 DEF PodToken, Control
  <2>3. Recorded'
    BY <1>2 DEF PodToken, Recorded
  <2>4. Restoring'
    BY <1>2 DEF PodToken, Restoring
  <2>5. Containing'
    BY <1>2 DEF PodToken, Containing, Deleted, Rotated, Accepted
  <2>6. CredentialsHeld'
    <3>1. live'.known \subseteq live.known \cup {<<"stolen", 0>>}
      BY <1>2 DEF PodToken
    <3>2. <<"stolen", 0>> \in FirstKnown
      BY DEF FirstKnown
    <3> QED
      BY <1>2, <3>1, <3>2 DEF PodToken, CredentialsHeld
  <2> QED
    BY <2>1, <2>2, <2>3, <2>4, <2>5, <2>6
<1>3. CASE ReadSecret
  <2>0. sup.receipt = "none"
    BY <1>3 DEF ReadSecret, Control
  <2>1. (Fields /\ LeakFree /\ FlawsShow)'
    BY <1>3 DEF ReadSecret, Fields, LeakFree, FlawsShow
  <2>2. Control'
    BY <1>3 DEF ReadSecret, Control
  <2>3. Recorded'
    BY <1>3 DEF ReadSecret, Recorded
  <2>4. Restoring'
    BY <1>3 DEF ReadSecret, Restoring
  <2>5. Containing'
    BY <1>3, <2>0 DEF ReadSecret, Containing, Deleted, Rotated, Accepted
  <2>6. CredentialsHeld'
    BY <1>3 DEF ReadSecret, CredentialsHeld, FirstKnown
  <2> QED
    BY <2>1, <2>2, <2>3, <2>4, <2>5, <2>6
<1>4. CASE RemoveBinding
  <2>1. (Fields /\ LeakFree /\ FlawsShow)'
    BY <1>4 DEF RemoveBinding, Fields, LeakFree, FlawsShow
  <2>2. Control'
    BY <1>4 DEF RemoveBinding, Control
  <2>3. Recorded'
    BY <1>4 DEF RemoveBinding, Recorded
  <2>4. Restoring'
    BY <1>4 DEF RemoveBinding, Restoring
  <2>5. Containing'
    BY <1>4 DEF RemoveBinding, Containing, Deleted, Rotated, Accepted
  <2>6. CredentialsHeld'
    BY <1>4 DEF RemoveBinding, CredentialsHeld, FirstKnown
  <2> QED
    BY <2>1, <2>2, <2>3, <2>4, <2>5, <2>6
<1>5. CASE DeletePod
  <2>1. (Fields /\ LeakFree /\ FlawsShow)'
    BY <1>5 DEF DeletePod, Fields, LeakFree, FlawsShow
  <2>2. Control'
    BY <1>5 DEF DeletePod, Control
  <2>3. Recorded'
    BY <1>5 DEF DeletePod, Recorded
  <2>4. Restoring'
    BY <1>5 DEF DeletePod, Restoring
  <2>5. Containing'
    BY <1>5 DEF DeletePod, Containing, Deleted, Rotated, Accepted
  <2>6. CredentialsHeld'
    BY <1>5 DEF DeletePod, CredentialsHeld, FirstKnown
  <2> QED
    BY <2>1, <2>2, <2>3, <2>4, <2>5, <2>6
<1>6. CASE CopySurvives
  <2>0. sup.receipt = "none" /\ sup.phase = "spike"
    BY <1>6 DEF CopySurvives, Control
  <2>1. (Fields /\ LeakFree /\ FlawsShow)'
    BY <1>6 DEF CopySurvives, Fields, LeakFree, FlawsShow
  <2>2. Control'
    <3>1. PICK status : sup' = [record(sup, status, "answer_ok", "set_source")
                                  EXCEPT !.old = sup.copied, !.attempt = 1]
      BY <1>6 DEF CopySurvives
    <3> QED
      BY <1>6, <3>1 DEF CopySurvives, Control
  <2>3. Recorded'
    BY <1>6 DEF CopySurvives, Recorded
  <2>4. Restoring'
    BY <1>6, <2>0 DEF CopySurvives, Restoring
  <2>5. Containing'
    <3>1. PICK status : sup' = [record(sup, status, "answer_ok", "set_source")
                                  EXCEPT !.old = sup.copied, !.attempt = 1]
      BY <1>6 DEF CopySurvives
    <3> QED
      BY <1>6, <2>0, <3>1 DEF CopySurvives, Containing, Deleted, Rotated, Accepted
  <2>6. CredentialsHeld'
    BY <1>6, ZenonT(60) DEF CopySurvives, CredentialsHeld, FirstKnown
  <2> QED
    BY <2>1, <2>2, <2>3, <2>4, <2>5, <2>6
<1>7. CASE Attempted
  <2>0. sup.receipt = "none" /\ sup.phase = "spike"
    BY <1>7 DEF Attempted, Control
  <2>1. (Fields /\ LeakFree /\ FlawsShow)'
    BY <1>7 DEF Attempted, Fields, LeakFree, FlawsShow
  <2>2. Control'
    BY <1>7 DEF Attempted, Control
  <2>3. Recorded'
    BY <1>7 DEF Attempted, Recorded
  <2>4. Restoring'
    BY <1>7, <2>0 DEF Attempted, Restoring
  <2>5. Containing'
    BY <1>7, <2>0 DEF Attempted, Containing, Deleted, Rotated, Accepted
  <2>6. CredentialsHeld'
    BY <1>7 DEF Attempted, CredentialsHeld, FirstKnown
  <2> QED
    BY <2>1, <2>2, <2>3, <2>4, <2>5, <2>6
<1>8. CASE LegitimateUse
  <2>0. sup.receipt = "none" /\ sup.phase = "spike"
    BY <1>8 DEF LegitimateUse, Control
  <2>1. (Fields /\ LeakFree /\ FlawsShow)'
    BY <1>8 DEF LegitimateUse, Fields, LeakFree, FlawsShow
  <2>2. Control'
    BY <1>8, ZenonT(60) DEF LegitimateUse, Control
  <2>3. Recorded'
    BY <1>8 DEF LegitimateUse, Recorded
  <2>4. Restoring'
    BY <1>8, <2>0 DEF LegitimateUse, Restoring
  <2>5. Containing'
    <3> DEFINE next == IF Collecting THEN "finish_contained" ELSE "restore_binding"
    <3>1. PICK status \in canary_use(lab.source) : sup' = record(sup, status, "answer_ok", next)
      BY <1>8 DEF LegitimateUse
    <3>2. agrees(status, "answer_ok") => lab.mounted = lab.source
      BY <3>1 DEF canary_use, http_probe, agrees
    <3>3. /\ sup'.phase = sup.phase /\ sup'.ident = sup.ident /\ sup'.receipt = sup.receipt
          /\ sup'.copied = sup.copied
          /\ ~sup'.contradicted => ~sup.contradicted /\ agrees(status, "answer_ok")
      BY <3>1
    <3> QED
      BY <1>8, <2>0, <3>2, <3>3 DEF LegitimateUse, Containing, Deleted, Rotated, Accepted
  <2>6. CredentialsHeld'
    BY <1>8, ZenonT(60) DEF LegitimateUse, CredentialsHeld, FirstKnown
  <2> QED
    BY <2>1, <2>2, <2>3, <2>4, <2>5, <2>6
<1>9. CASE RestoreBinding
  <2>1. (Fields /\ LeakFree /\ FlawsShow)'
    BY <1>9 DEF RestoreBinding, Fields, LeakFree, FlawsShow
  <2>2. Control'
    BY <1>9 DEF RestoreBinding, Control
  <2>3. Recorded'
    BY <1>9 DEF RestoreBinding, Recorded
  <2>4. Restoring'
    BY <1>9 DEF RestoreBinding, Restoring
  <2>5. Containing'
    BY <1>9 DEF RestoreBinding, Containing, Deleted, Rotated, Accepted
  <2>6. CredentialsHeld'
    BY <1>9 DEF RestoreBinding, CredentialsHeld, FirstKnown
  <2> QED
    BY <2>1, <2>2, <2>3, <2>4, <2>5, <2>6
<1>10. CASE ApplyPolicy
  <2>1. (Fields /\ LeakFree /\ FlawsShow)'
    BY <1>10 DEF ApplyPolicy, Fields, LeakFree, FlawsShow
  <2>2. Control'
    BY <1>10 DEF ApplyPolicy, Control
  <2>3. Recorded'
    BY <1>10 DEF ApplyPolicy, Recorded
  <2>4. Restoring'
    BY <1>10 DEF ApplyPolicy, Restoring
  <2>5. Containing'
    BY <1>10 DEF ApplyPolicy, Containing, Deleted, Rotated, Accepted
  <2>6. CredentialsHeld'
    BY <1>10 DEF ApplyPolicy, CredentialsHeld, FirstKnown
  <2> QED
    BY <2>1, <2>2, <2>3, <2>4, <2>5, <2>6
<1>11. CASE CloseCollector
  <2>1. (Fields /\ LeakFree /\ FlawsShow)'
    BY <1>11 DEF CloseCollector, Fields, LeakFree, FlawsShow
  <2>2. Control'
    BY <1>11 DEF CloseCollector, Control
  <2>3. Recorded'
    BY <1>11 DEF CloseCollector, Recorded
  <2>4. Restoring'
    BY <1>11 DEF CloseCollector, Restoring
  <2>5. Containing'
    BY <1>11 DEF CloseCollector, Containing, Deleted, Rotated, Accepted
  <2>6. CredentialsHeld'
    BY <1>11 DEF CloseCollector, CredentialsHeld, FirstKnown
  <2> QED
    BY <2>1, <2>2, <2>3, <2>4, <2>5, <2>6
<1>12. CASE WriteReceipt
  <2>0. sup.receipt = "none" /\ sup.phase = "spike" /\ sup.cmd # "create" /\ sup.ident # 0
    BY <1>12 DEF WriteReceipt, Control
  <2>1. (Fields /\ LeakFree /\ FlawsShow)'
    BY <1>12 DEF WriteReceipt, Fields, LeakFree, FlawsShow
  <2>2. Control'
    <3>1. /\ sup'.pc \in {"idle", "reset_pods"} /\ sup'.phase = "reset"
          /\ sup'.cmd = sup.cmd /\ sup'.ident = sup.ident /\ sup'.copied = sup.copied
          /\ sup'.receipt = "lab_confirmed" => ~sup.contradicted /\ ~sup'.contradicted
      BY <1>12 DEF WriteReceipt, validation
    <3> QED
      BY <1>12, <2>0, <3>1 DEF WriteReceipt, Control
  <2>3. Recorded'
    BY <1>12 DEF WriteReceipt, Recorded
  <2>4. Restoring'
    BY <1>12, <2>0 DEF WriteReceipt, Restoring
  <2>5. Containing'
    <3>1. /\ sup'.pc \in {"idle", "reset_pods"} /\ sup'.phase = "reset"
          /\ sup'.cmd = sup.cmd /\ sup'.ident = sup.ident /\ sup'.copied = sup.copied
          /\ sup'.receipt = "lab_confirmed" => ~sup.contradicted /\ ~sup'.contradicted
      BY <1>12 DEF WriteReceipt, validation
    <3> QED
      BY <1>12, <2>0, <3>1 DEF WriteReceipt, Containing, Deleted, Rotated, Accepted
  <2>6. CredentialsHeld'
    BY <1>12 DEF WriteReceipt, CredentialsHeld, FirstKnown
  <2> QED
    BY <2>1, <2>2, <2>3, <2>4, <2>5, <2>6
<1>13. CASE StartContained
  <2>1. (Fields /\ LeakFree /\ FlawsShow)'
    BY <1>13 DEF StartContained, Fields, LeakFree, FlawsShow
  <2>2. Control'
    BY <1>13 DEF StartContained, Control
  <2>3. Recorded'
    BY <1>13 DEF StartContained, Recorded
  <2>4. Restoring'
    BY <1>13 DEF StartContained, Restoring
  <2>5. Containing'
    BY <1>13 DEF StartContained, Containing, Deleted, Rotated, Accepted
  <2>6. CredentialsHeld'
    BY <1>13 DEF StartContained, CredentialsHeld, FirstKnown
  <2> QED
    BY <2>1, <2>2, <2>3, <2>4, <2>5, <2>6
<1> QED
  BY <1>1, <1>2, <1>3, <1>4, <1>5, <1>6, <1>7, <1>8, <1>9, <1>10, <1>11, <1>12, <1>13

(* A command that ends early leaves nothing to be concluded, the kubelet   *)
(* only brings the mount up to date.                                       *)
LEMMA EnvironmentSteps ==
    ASSUME LabInv,
           \/ Abort \/ Kill \/ Refresh \/ UNCHANGED vars
    PROVE  LabInv'
<1> USE DEF LabInv, Fields, LabFields, SupFields, LiveFields, At, Goto, record,
           NoCluster, NoCollector, Idle, ResetOnly, SpikeOnly, Early, Measured, Late, Ended,
           CollectOnly, Collecting, Observed
<1>1. CASE Abort
  <2>1. (Fields /\ LeakFree /\ FlawsShow)'
    BY <1>1 DEF Abort, Fields, LeakFree, FlawsShow
  <2>2. Control'
    BY <1>1 DEF Abort, Control
  <2>3. Recorded'
    BY <1>1 DEF Abort, Recorded
  <2>4. Restoring'
    BY <1>1 DEF Abort, Restoring
  <2>5. Containing'
    BY <1>1 DEF Abort, Containing, Deleted, Rotated, Accepted
  <2>6. CredentialsHeld'
    BY <1>1 DEF Abort, CredentialsHeld, FirstKnown
  <2> QED
    BY <2>1, <2>2, <2>3, <2>4, <2>5, <2>6
<1>2. CASE Kill
  <2>1. (Fields /\ LeakFree /\ FlawsShow)'
    BY <1>2 DEF Kill, Fields, LeakFree, FlawsShow
  <2>2. Control'
    BY <1>2 DEF Kill, Control
  <2>3. Recorded'
    BY <1>2 DEF Kill, Recorded
  <2>4. Restoring'
    BY <1>2 DEF Kill, Restoring
  <2>5. Containing'
    BY <1>2 DEF Kill, Containing, Deleted, Rotated, Accepted
  <2>6. CredentialsHeld'
    BY <1>2 DEF Kill, CredentialsHeld, FirstKnown
  <2> QED
    BY <2>1, <2>2, <2>3, <2>4, <2>5, <2>6
<1>3. CASE Refresh
  <2>1. (Fields /\ LeakFree /\ FlawsShow)'
    BY <1>3 DEF Refresh, Fields, LeakFree, FlawsShow
  <2>2. Control'
    BY <1>3 DEF Refresh, Control
  <2>3. Recorded'
    BY <1>3 DEF Refresh, Recorded
  <2>4. Restoring'
    BY <1>3 DEF Refresh, Restoring
  <2>5. Containing'
    BY <1>3 DEF Refresh, Containing, Deleted, Rotated, Accepted
  <2>6. CredentialsHeld'
    BY <1>3 DEF Refresh, CredentialsHeld, FirstKnown
  <2> QED
    BY <2>1, <2>2, <2>3, <2>4, <2>5, <2>6
<1>4. CASE UNCHANGED vars
  <2>1. (Fields /\ LeakFree /\ FlawsShow)'
    BY <1>4 DEF vars, Fields, LeakFree, FlawsShow
  <2>2. Control'
    BY <1>4 DEF vars, Control
  <2>3. Recorded'
    BY <1>4 DEF vars, Recorded
  <2>4. Restoring'
    BY <1>4 DEF vars, Restoring
  <2>5. Containing'
    BY <1>4 DEF vars, Containing, Deleted, Rotated, Accepted
  <2>6. CredentialsHeld'
    BY <1>4 DEF vars, CredentialsHeld, FirstKnown
  <2> QED
    BY <2>1, <2>2, <2>3, <2>4, <2>5, <2>6
<1> QED
  BY <1>1, <1>2, <1>3, <1>4

(* A command starts with the identity on file, and every one but create    *)
(* only if that is the cluster behind the context.                         *)
LEMMA CommandSteps ==
    ASSUME LabInv, Command
    PROVE  LabInv'
<1>1. PICK cmd, phase, pc, runs :
        /\ Start(cmd, phase, pc, runs)
        /\ \/ cmd = "create" /\ phase = "create" /\ pc = "kind_create"
           \/ /\ cmd # "create" /\ require_recorded_lab
              /\ \/ phase = "reset" /\ pc = "reset_pods"
                 \/ phase = "spike" /\ pc = "create_pod"
                 \/ phase = "destroy" /\ pc = "kind_delete"
  <2>1. CASE cmd_create
    BY <2>1 DEF cmd_create
  <2>2. CASE cmd_reset
    BY <2>2 DEF cmd_reset
  <2>3. CASE cmd_spike
    BY <2>3 DEF cmd_spike
  <2>4. CASE cmd_collect
    BY <2>4 DEF cmd_collect
  <2>5. CASE cmd_destroy
    BY <2>5 DEF cmd_destroy
  <2> QED
    BY <2>1, <2>2, <2>3, <2>4, <2>5 DEF Command
<1>2. /\ DOMAIN sup' = SupFields
      /\ sup'.cmd = cmd /\ sup'.phase = phase /\ sup'.pc = pc /\ sup'.ident = recorded
      /\ sup'.receipt = "none" /\ ~sup'.contradicted /\ ~sup'.intruded
      /\ lab' = lab /\ recorded' = recorded /\ live' = NoCollector
  BY <1>1 DEF Start, Idle, SupFields
<1>3. (Fields /\ LeakFree /\ FlawsShow)'
  BY <1>2 DEF LabInv, Fields, LeakFree, FlawsShow, NoCollector, LiveFields
<1>4. Control'
  BY <1>1, <1>2 DEF Control, CollectOnly, ResetOnly, SpikeOnly, Early, Late, Ended, Measured,
                    require_recorded_lab
<1>5. Recorded'
  BY <1>1, <1>2 DEF Recorded, require_recorded_lab
<1>6. Restoring'
  BY <1>1, <1>2 DEF Restoring
<1>7. Containing'
  BY <1>1, <1>2 DEF Containing, Deleted, Rotated, Accepted, Ended, Measured
<1>8. CredentialsHeld'
  BY <1>1, <1>2 DEF CredentialsHeld, Late, Measured, NoCollector
<1> QED
  BY <1>3, <1>4, <1>5, <1>6, <1>7, <1>8 DEF LabInv

(* A cluster put behind the context from outside has an identity that no   *)
(* command began with.                                                     *)
LEMMA ReplaceSteps ==
    ASSUME LabInv, Replace
    PROVE  LabInv'
<1> DEFINE used == {lab.id, recorded, sup.ident, 0}
<1>1. Fresh(used) \notin used
  BY FreshIn
<1>2. PICK new : new = Fresh(used)
  OBVIOUS
<1>3. new # sup.ident /\ new # 0
  BY <1>1, <1>2
<1>4. /\ DOMAIN lab' = LabFields
      /\ lab'.id \in {0, new}
      /\ recorded' = recorded /\ live' = live
      /\ sup' = [sup EXCEPT !.intruded = (sup.pc # "idle")]
  <2>1. \/ lab' = NoCluster
        \/ \E local \in BOOLEAN :
             lab' = [NoCluster EXCEPT !.id = new, !.local = local, !.binding = TRUE, !.pod = TRUE,
                                      !.source = 1, !.accepted = 1, !.mounted = 1]
    BY <1>2 DEF Replace
  <2>2. DOMAIN lab' = LabFields /\ lab'.id \in {0, new}
    <3>1. CASE lab' = NoCluster
      BY <3>1 DEF NoCluster, LabFields
    <3>2. CASE lab' # NoCluster
      <4>1. PICK local : lab' = [NoCluster EXCEPT !.id = new, !.local = local, !.binding = TRUE,
                                   !.pod = TRUE, !.source = 1, !.accepted = 1, !.mounted = 1]
        BY <2>1, <3>2
      <4>2. DOMAIN NoCluster = LabFields
        BY DEF NoCluster, LabFields
      <4> QED
        BY <4>1, <4>2 DEF LabFields
    <3> QED
      BY <3>1, <3>2
  <2> QED
    BY <2>2 DEF Replace
<1>5. /\ DOMAIN sup' = SupFields /\ sup'.cmd = sup.cmd /\ sup'.phase = sup.phase
      /\ sup'.pc = sup.pc /\ sup'.ident = sup.ident /\ sup'.receipt = sup.receipt
      /\ sup'.contradicted = sup.contradicted /\ sup'.copied = sup.copied
      /\ sup'.attempt = sup.attempt /\ sup'.intruded = (sup.pc # "idle")
  BY <1>4 DEF LabInv, Fields, SupFields
<1>6. (Fields /\ LeakFree /\ FlawsShow)'
  BY <1>4, <1>5 DEF LabInv, Fields, LeakFree, FlawsShow, Collecting
<1>7. Control'
  BY <1>5 DEF LabInv, Control, Collecting
<1>8. Recorded'
  BY <1>5 DEF Recorded
<1>9. Restoring'
  BY <1>3, <1>4, <1>5 DEF LabInv, Restoring, Control
<1>10. Containing'
  <2>1. sup.pc \in Deleted \cup Rotated \cup Accepted \cup {"set_accepted"} => sup.pc # "idle"
    BY DEF Deleted, Rotated, Accepted, Ended, Measured
  <2> QED
    BY <1>3, <1>4, <1>5, <2>1 DEF LabInv, Containing, Control
<1>11. CredentialsHeld'
  BY <1>4, <1>5 DEF LabInv, CredentialsHeld, Collecting
<1> QED
  BY <1>6, <1>7, <1>8, <1>9, <1>10, <1>11 DEF LabInv

(* No check of the second window passes on a flawed bundle: a lost record  *)
(* and an unsynced inventory leave a gap without a reason to resolve it, a *)
(* stale inventory still shows the Pod.                                    *)
LEMMA FlawedBundleFails ==
    ASSUME NEW flaw \in Flaws, flaw # "none", NEW lost
    PROVE  ~(containment_checks(Bundle(flaw, lost, {})) /\ compare_containment(Bundle(flaw, lost, {})))
<1>0. PICK b : b = Bundle(flaw, lost, {})
  OBVIOUS
<1> SUFFICES ~(containment_checks(b) /\ compare_containment(b))
  BY <1>0
<1>1. CASE flaw = "lost"
  <2>1. "audit-dropped" \in b.gaps \ GapResolutions
    BY <1>0, <1>1 DEF Bundle, GapResolutions
  <2> QED
    BY <2>1 DEF compare_containment, plan_gap_resolution
<1>2. CASE flaw = "unsynced"
  <2>1. "inventory-unsynced" \in b.gaps \ GapResolutions
    BY <1>0, <1>2 DEF Bundle, GapResolutions
  <2> QED
    BY <2>1 DEF compare_containment, plan_gap_resolution
<1>3. CASE flaw = "stale"
  <2>1. b.pod
    BY <1>0, <1>3 DEF Bundle
  <2> QED
    BY <2>1 DEF containment_checks
<1>4. CASE flaw = "uncorrelated"
  <2>1. ~b.correlated
    BY <1>0, <1>4 DEF Bundle
  <2> QED
    BY <2>1 DEF containment_checks
<1> QED
  BY <1>1, <1>2, <1>3, <1>4 DEF Flaws

(* The first window: the scan knows every credential there has been.       *)
LEMMA FinishStep ==
    ASSUME LabInv, Finish
    PROVE  LabInv'
<1>0. /\ Collecting /\ sup.pc = "finish" /\ sup.phase = "spike" /\ sup.receipt = "none"
      /\ live.known \subseteq FirstKnown
  BY DEF LabInv, Finish, At, Control, CredentialsHeld, CollectOnly, SpikeOnly, Early
<1>1. PICK leak, status, kept :
        /\ leak \in Leaks
        /\ sup' = record(sup, status, "answer_ok", "start_contained")
        /\ live' = [live EXCEPT !.proc = "none", !.files = live.files \cup leak, !.held = FinishHeld,
                                !.restarts = 0, !.kept = kept]
        /\ \/ kept = live.kept
           \/ /\ kept = live.kept \cup leak
              /\ scan_for_leaks(live.files \cup leak, FinishHeld \cup {<<"collector", 0>>}) = {}
  BY DEF Finish
<1>2. lab' = lab /\ recorded' = recorded
  BY DEF Finish
<1>3. kept = {}
  <2>1. leak \subseteq live.known
    BY <1>1 DEF Leaks
  <2>2. \A c \in FirstKnown : c \in FinishHeld \cup {<<"collector", 0>>}
    BY DEF FirstKnown, FinishHeld
  <2> QED
    BY <1>0, <1>1, <2>1, <2>2 DEF scan_for_leaks, LabInv, LeakFree
<1>4. /\ DOMAIN live' = LiveFields /\ live'.known = live.known /\ live'.flaw = live.flaw
      /\ live'.held = FinishHeld /\ live'.kept = kept
  BY <1>1 DEF LabInv, Fields, LiveFields
<1>5. To("start_contained") /\ sup'.receipt = sup.receipt /\ sup'.copied = sup.copied
  BY <1>1 DEF To, record, LabInv, Fields, SupFields
<1>6. (Fields /\ LeakFree /\ FlawsShow)'
  BY <1>0, <1>2, <1>3, <1>4, <1>5 DEF LabInv, Fields, LeakFree, FlawsShow, Collecting, To
<1>7. Control'
  BY <1>0, <1>5 DEF LabInv, Control, To, Collecting, ResetOnly
<1>8. Recorded'
  BY <1>0, <1>2, <1>5 DEF LabInv, Recorded, To
<1>9. Restoring'
  BY <1>0, <1>5 DEF Restoring, To
<1>10. Containing'
  BY <1>0, <1>5 DEF Containing, Deleted, Rotated, Accepted, Ended, Measured, To
<1>11. CredentialsHeld'
  BY <1>0, <1>4, <1>5 DEF CredentialsHeld, FinishHeld, Early, Measured, To
<1> QED
  BY <1>6, <1>7, <1>8, <1>9, <1>10, <1>11 DEF LabInv

(* The second window: the same, and a flaw of the bundle contradicts.      *)
LEMMA FinishContainedStep ==
    ASSUME LabInv, FinishContained
    PROVE  LabInv'
<1>0. /\ Collecting /\ sup.pc = "finish_contained" /\ sup.phase = "spike" /\ sup.receipt = "none"
      /\ <<"copied", 0>> \in live.held
      /\ live.known \subseteq live.held \cup FirstKnown \cup {<<"webhook", 0>>}
  BY DEF LabInv, FinishContained, At, Control, CredentialsHeld, CollectOnly, SpikeOnly, Late, Measured
<1>1. PICK leak \in Leaks, failed \in BOOLEAN, flaw \in Flaws, lost \in live.audit :
        LET files == live.files \cup leak
            b == Bundle(flaw, lost, {})
            clean == scan_for_leaks(files, live.held \cup ({"collector", "webhook"} \X {0})) = {}
            passed == ~failed /\ containment_checks(b) /\ compare_containment(b) /\ clean
        IN  /\ sup' = record(sup, check_receipt(passed), "answer_ok", "restore_binding")
            /\ live' = [live EXCEPT !.proc = "none", !.files = files, !.flaw = flaw,
                                    !.kept = IF ~failed /\ clean THEN @ \cup leak ELSE @]
  BY DEF FinishContained
<1> DEFINE b == Bundle(flaw, lost, {})
           clean == scan_for_leaks(live.files \cup leak,
                                   live.held \cup ({"collector", "webhook"} \X {0})) = {}
           status == check_receipt(~failed /\ containment_checks(b) /\ compare_containment(b) /\ clean)
           kept == IF ~failed /\ clean THEN live.kept \cup leak ELSE live.kept
<1>1a. /\ sup' = record(sup, status, "answer_ok", "restore_binding")
      /\ live' = [live EXCEPT !.proc = "none", !.files = live.files \cup leak, !.flaw = flaw,
                              !.kept = kept]
  BY <1>1
<1>1b. flaw # "none" => status = 422
  BY FlawedBundleFails DEF check_receipt
<1>1c. kept = live.kept \/ (kept = live.kept \cup leak /\ clean)
  OBVIOUS
<1> HIDE DEF status, kept
<1>2. lab' = lab /\ recorded' = recorded
  BY DEF FinishContained
<1>3. kept = {}
  <2>1. leak \subseteq live.known
    BY <1>1 DEF Leaks
  <2>2. \A c \in FirstKnown \cup {<<"webhook", 0>>} :
          c \in live.held \cup ({"collector", "webhook"} \X {0})
                 \cup ({"ci", "stolen", "collector", "legit"} \X {0})
    BY <1>0 DEF FirstKnown
  <2> QED
    BY <1>0, <1>1c, <2>1, <2>2 DEF scan_for_leaks, LabInv, LeakFree
<1>4. DOMAIN live' = LiveFields /\ live'.flaw = flaw /\ live'.kept = kept
  BY <1>1a DEF LabInv, Fields, LiveFields
<1>5. To("restore_binding") /\ sup'.receipt = sup.receipt /\ sup'.copied = sup.copied
  BY <1>1a DEF To, record, LabInv, Fields, SupFields
<1>6. flaw # "none" => sup'.contradicted
  <2>1. ~agrees(422, "answer_ok")
    BY DEF agrees
  <2> QED
    BY <1>1a, <1>1b, <2>1 DEF record, LabInv, Fields, SupFields
<1>7. (Fields /\ LeakFree /\ FlawsShow)'
  BY <1>2, <1>3, <1>4, <1>5, <1>6 DEF LabInv, Fields, LeakFree, FlawsShow, To
<1>8. Control'
  BY <1>0, <1>5 DEF LabInv, Control, To, Collecting, ResetOnly, CollectOnly
<1>9. Recorded'
  BY <1>0, <1>2, <1>5 DEF LabInv, Recorded, To
<1>10. Restoring'
  BY <1>0, <1>5 DEF Restoring, To
<1>11. Containing'
  BY <1>0, <1>2, <1>5 DEF LabInv, Containing, Deleted, Rotated, Accepted, Ended, Measured, To
<1>12. CredentialsHeld'
  BY <1>0, <1>5 DEF CredentialsHeld, Early, Late, Measured, To
<1> QED
  BY <1>7, <1>8, <1>9, <1>10, <1>11, <1>12 DEF LabInv

-----------------------------------------------------------------------------
(* The invariant, and what follows from it.                                *)

(* Every step keeps the invariant.                                         *)
LEMMA LabStep ==
    ASSUME LabInv, [Next]_vars
    PROVE  LabInv'
<1>1. CASE Command
  BY <1>1, CommandSteps
<1>2. CASE Supervise
  BY <1>2, CreateSteps, ResetSteps, SpikeSteps, Probes, FinishStep, FinishContainedStep DEF Supervise
<1>3. CASE SeedTimeout \/ Abort \/ Kill \/ Refresh \/ UNCHANGED vars
  BY <1>3, EnvironmentSteps DEF SeedTimeout
<1>4. CASE Replace
  BY <1>4, ReplaceSteps
<1> QED
  BY <1>1, <1>2, <1>3, <1>4 DEF Next

(* Whatever was interrupted, retried or replaced, the supervisor's place   *)
(* tells what holds of the cluster it works on.                            *)
THEOREM LabInvariant == Spec => []LabInv
<1>1. Init => LabInv
  BY DEF Init, LabInv, Fields, LabFields, SupFields, LiveFields, NoCluster, Idle, NoCollector,
         Control, Collecting, CollectOnly, ResetOnly, SpikeOnly, Early, Late, Ended, Measured,
         Recorded, Restoring, Containing, Deleted, Rotated, Accepted, FlawsShow, CredentialsHeld,
         LeakFree
<1>2. LabInv /\ [Next]_vars => LabInv'
  BY LabStep
<1> QED
  BY <1>1, <1>2, PTL DEF Spec

(* A lab_confirmed receipt (lab.py, spike) is never wrong about the        *)
(* cluster it was written on.                                              *)
THEOREM ConfirmationSound == Spec => []ConfirmedContained
<1>1. LabInv => ConfirmedContained
  BY DEF LabInv, Containing, ConfirmedContained
<1> QED
  BY <1>1, LabInvariant, PTL

(* A confirmed collect rests on a second window without a flaw.            *)
THEOREM EvidenceSound == Spec => []EvidenceComplete
<1>1. LabInv => EvidenceComplete
  BY DEF LabInv, FlawsShow, Control, EvidenceComplete
<1> QED
  BY <1>1, LabInvariant, PTL

(* No credential is in a bundle that a collect kept.                       *)
THEOREM BundlesClean == Spec => []LeakFree
<1>1. LabInv => LeakFree
  BY DEF LabInv
<1> QED
  BY <1>1, LabInvariant, PTL

(* The supervisor's own steps cost no budget, and begin inside a command.  *)
LEMMA Supervised ==
    ASSUME Supervise
    PROVE  /\ UNCHANGED budget /\ sup.pc # "idle"
           /\ sup.pc = "unlink" => lab' = lab
<1>1. ASSUME KindCreate \/ ApplyManifests \/ RecordLab \/ KindDelete \/ Unlink
             \/ ResetPods \/ ResetPolicy \/ SetSource \/ SetAccepted \/ SeedAccepted
             \/ ResetCheck \/ AfterReset
      PROVE  /\ UNCHANGED budget /\ sup.pc # "idle"
             /\ sup.pc = "unlink" => lab' = lab
  BY <1>1, Zenon DEF KindCreate, ApplyManifests, RecordLab, KindDelete, Unlink, ResetPods, ResetPolicy,
                SetSource, SetAccepted, SeedAccepted, ResetCheck, AfterReset, At
<1>2. ASSUME CreatePod \/ PodToken \/ ReadSecret \/ UseCopied
             \/ Isolation("canary_isolated", 401, "outsider_isolated")
             \/ Isolation("outsider_isolated", 404, "remove_binding")
             \/ RemoveBinding \/ AwaitDenied \/ ResidualToken \/ DeletePod \/ AwaitRejected
      PROVE  UNCHANGED budget /\ sup.pc \notin {"idle", "unlink"}
  BY <1>2, Zenon DEF CreatePod, PodToken, ReadSecret, UseCopied, Isolation, RemoveBinding, AwaitDenied,
                ResidualToken, DeletePod, AwaitRejected, At
<1>3. ASSUME CopySurvives \/ FirstProbe \/ PollNew \/ PollOld \/ PollTimeout \/ Attempted
             \/ Acknowledged \/ LateProbe \/ LegitimateUse \/ RestoreBinding \/ ApplyPolicy
             \/ NegativeControl \/ CloseCollector \/ WriteReceipt
      PROVE  UNCHANGED budget /\ sup.pc \notin {"idle", "unlink"}
  BY <1>3, Zenon DEF CopySurvives, FirstProbe, PollNew, PollOld, PollTimeout, Attempted, Acknowledged,
                LateProbe, LegitimateUse, RestoreBinding, ApplyPolicy, NegativeControl,
                CloseCollector, WriteReceipt, At
<1>4. ASSUME Finish \/ StartContained \/ FinishContained
      PROVE  UNCHANGED budget /\ sup.pc \notin {"idle", "unlink"}
  BY <1>4, Zenon DEF Finish, StartContained, FinishContained, At
<1> QED
  BY <1>1, <1>2, <1>3, <1>4 DEF Supervise

BudgetType == budget \in [commands : Nat, replaced : Nat]

(* The bounds on commands and replacements only count down.                *)
LEMMA BudgetStays == Spec => []BudgetType
<1>1. Init => BudgetType
  BY LabAssumption DEF Init, BudgetType
<1>2. BudgetType /\ [Next]_vars => BudgetType'
  <2> SUFFICES ASSUME BudgetType, [Next]_vars PROVE BudgetType'
    OBVIOUS
  <2>1. CASE Command
    <3>1. PICK cmd, phase, pc, runs : Start(cmd, phase, pc, runs)
      BY <2>1 DEF Command, cmd_create, cmd_reset, cmd_spike, cmd_collect, cmd_destroy
    <3> QED
      BY <3>1 DEF Start, BudgetType
  <2>2. CASE Replace
    <3>1. budget.replaced > 0 /\ budget' = [budget EXCEPT !.replaced = @ - 1]
      BY <2>2 DEF Replace
    <3> QED
      BY <3>1 DEF BudgetType
  <2>3. CASE Supervise \/ SeedTimeout \/ Abort \/ Kill \/ Refresh \/ UNCHANGED vars
    BY <2>3, Supervised DEF SeedTimeout, Abort, Kill, Refresh, vars, BudgetType
  <2> QED
    BY <2>1, <2>2, <2>3 DEF Next
<1> QED
  BY <1>1, <1>2, PTL DEF Spec

(* No step of a command changes a cluster that is not the recorded, local  *)
(* one, but for create and a cluster that was replaced under the command.  *)
THEOREM ForeignClustersUntouched == Spec => ForeignUntouched
<1> DEFINE Safe == lab' # lab /\ sup' # sup /\ budget' = budget =>
                     sup.cmd = "create" \/ sup.intruded \/ (lab.id = recorded /\ lab.local)
<1>1. LabInv /\ BudgetType /\ [Next]_vars => [Safe]_vars
  <2> SUFFICES ASSUME LabInv, BudgetType, [Next]_vars, lab' # lab, sup' # sup, budget' = budget
               PROVE  sup.cmd = "create" \/ sup.intruded \/ (lab.id = recorded /\ lab.local)
    OBVIOUS
  <2>1. Supervise
    <3>1. ~Command
      BY DEF Command, cmd_create, cmd_reset, cmd_spike, cmd_collect, cmd_destroy, Start
    <3>2. ~Replace
      <4> SUFFICES ASSUME budget.replaced > 0, budget' = [budget EXCEPT !.replaced = @ - 1]
                   PROVE  FALSE
        BY DEF Replace
      <4>1. budget'.replaced = budget.replaced - 1
        BY DEF BudgetType
      <4> QED
        BY <4>1 DEF BudgetType
    <3>3. ~(SeedTimeout \/ Abort \/ Kill \/ Refresh \/ UNCHANGED vars)
      BY DEF SeedTimeout, Abort, Kill, Refresh, vars
    <3> QED
      BY <3>1, <3>2, <3>3 DEF Next
  <2> QED
    BY <2>1, Supervised DEF LabInv, Recorded
<1> QED
  BY <1>1, LabInvariant, BudgetStays, PTL DEF Spec, ForeignUntouched

(* Only its last guard ends a reset.                                       *)
LEMMA RestoredByCheck ==
    ASSUME LabInv, [Next]_vars, sup'.pc = "restored", sup.pc # "restored"
    PROVE  ResetCheck
<1> USE DEF LabInv, Fields, SupFields, At, Goto, record
<1>1. ~KindCreate
  BY DEF KindCreate
<1>2. ~ApplyManifests
  BY DEF ApplyManifests
<1>3. ~RecordLab
  BY DEF RecordLab
<1>4. ~KindDelete
  BY DEF KindDelete
<1>5. ~Unlink
  BY DEF Unlink
<1>6. ~ResetPods
  BY DEF ResetPods
<1>7. ~ResetPolicy
  BY DEF ResetPolicy
<1>8. ~SetSource
  BY DEF SetSource
<1>9. ~SetAccepted
  BY DEF SetAccepted
<1>10. ~SeedAccepted
  BY DEF SeedAccepted
<1>11. ~AfterReset
  BY DEF AfterReset
<1>12. ~CreatePod
  BY DEF CreatePod
<1>13. ~PodToken
  BY DEF PodToken
<1>14. ~ReadSecret
  BY DEF ReadSecret
<1>15. ~UseCopied
  BY DEF UseCopied
<1>16. ~Isolation("canary_isolated", 401, "outsider_isolated")
  BY DEF Isolation
<1>17. ~Isolation("outsider_isolated", 404, "remove_binding")
  BY DEF Isolation
<1>18. ~RemoveBinding
  BY DEF RemoveBinding
<1>19. ~AwaitDenied
  <2> SUFFICES ASSUME NEW status, sup' = record(sup, status, "answer_denied", "residual")
               PROVE  FALSE
    BY DEF AwaitDenied
  <2> QED
    OBVIOUS
<1>20. ~ResidualToken
  BY DEF ResidualToken
<1>21. ~DeletePod
  BY DEF DeletePod
<1>22. ~AwaitRejected
  <2> SUFFICES ASSUME NEW status, sup' = record(sup, status, "answer_denied", "survives")
               PROVE  FALSE
    BY DEF AwaitRejected
  <2> QED
    OBVIOUS
<1>23. ~CopySurvives
  BY DEF CopySurvives
<1>24. ~FirstProbe
  BY DEF FirstProbe
<1>25. ~PollNew
  BY DEF PollNew
<1>26. ~PollOld
  <2> SUFFICES ASSUME NEW ack, NEW next \in {"attempted", "poll_new"},
                      sup' = [sup EXCEPT !.ack = ack, !.pc = next]
               PROVE  FALSE
    BY DEF PollOld
  <2> QED
    OBVIOUS
<1>27. ~PollTimeout
  BY DEF PollTimeout
<1>28. ~Attempted
  BY DEF Attempted
<1>29. ~Acknowledged
  BY DEF Acknowledged
<1>30. ~LateProbe
  BY DEF LateProbe
<1>31. ~LegitimateUse
  BY DEF LegitimateUse
<1>32. ~RestoreBinding
  BY DEF RestoreBinding
<1>33. ~ApplyPolicy
  BY DEF ApplyPolicy
<1>34. ~NegativeControl
  <2> SUFFICES ASSUME NEW status, NEW next \in {"close", "receipt"},
                      sup' = record(sup, status, "answer_denied", next)
               PROVE  FALSE
    BY DEF NegativeControl
  <2> QED
    OBVIOUS
<1>35. ~CloseCollector
  BY DEF CloseCollector
<1>36. ~WriteReceipt
  BY DEF WriteReceipt
<1>37. ~Finish
  BY DEF Finish
<1>38. ~StartContained
  BY DEF StartContained
<1>39. ~FinishContained
  BY DEF FinishContained
<1>40. ~Command
  BY DEF Command, cmd_create, cmd_reset, cmd_spike, cmd_collect, cmd_destroy, Start, Idle
<1>41. ~(SeedTimeout \/ Abort \/ Kill \/ Refresh \/ UNCHANGED vars)
  BY DEF SeedTimeout, Abort, Kill, Idle, Refresh, vars
<1>42. ~Replace
  BY DEF Replace
<1> QED
  BY <1>1, <1>2, <1>3, <1>4, <1>5, <1>6, <1>7, <1>8, <1>9, <1>10, <1>11, <1>12, <1>13, <1>14,
     <1>15, <1>16, <1>17, <1>18, <1>19, <1>20, <1>21, <1>22, <1>23, <1>24, <1>25, <1>26, <1>27, <1>28,
     <1>29, <1>30, <1>31, <1>32, <1>33, <1>34, <1>35, <1>36, <1>37, <1>38, <1>39, <1>40, <1>41, <1>42
      DEF Next, Supervise

(* When reset returns, the recorded cluster is in its post-create state.   *)
THEOREM ResetsRestore == Spec => ResetRestores
<1> DEFINE Restored == sup'.pc = "restored" /\ sup.pc # "restored" =>
             /\ lab'.id = recorded' /\ lab'.local
             /\ lab'.binding /\ ~lab'.pod /\ ~lab'.policy
             /\ lab'.source = lab'.accepted /\ lab'.accepted = lab'.mounted
<1>1. LabInv /\ [Next]_vars => [Restored]_vars
  <2> SUFFICES ASSUME LabInv, [Next]_vars, sup'.pc = "restored", sup.pc # "restored"
               PROVE  /\ lab'.id = recorded' /\ lab'.local
                      /\ lab'.binding /\ ~lab'.pod /\ ~lab'.policy
                      /\ lab'.source = lab'.accepted /\ lab'.accepted = lab'.mounted
    OBVIOUS
  <2>1. /\ sup.pc = "reset_check" /\ lab' = lab /\ recorded' = recorded
        /\ lab.id = recorded /\ lab.local /\ recorded = sup.ident
    BY RestoredByCheck DEF ResetCheck, At, require_recorded_lab
  <2>2. sup.phase = "reset"
    BY <2>1 DEF LabInv, Control, ResetOnly
  <2> QED
    BY <2>1, <2>2 DEF LabInv, Restoring
<1> QED
  BY <1>1, LabInvariant, PTL DEF Spec, ResetRestores
=============================================================================
