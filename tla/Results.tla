------------------------------ MODULE Results ------------------------------
(***************************************************************************)
(* packages/afterlock/results.py: the verdict that analyze draws from the  *)
(* engine's two views.                                                     *)
(***************************************************************************)
EXTENDS Engine

CONSTANT LegitimateOperations   \* AnalysisInput.legitimate_operations

(* objective_goal.                                                         *)
Reached(objective, facts) ==
    IF objective.kind = "no_secret_read" THEN objective.target \in facts.reads
    ELSE objective.target \in facts.uses

(* unknown_reasons: coverage gaps, unsupported semantics, exhausted bounds.*)
HasUnknowns ==
    \/ input.coverage_gaps # {}
    \/ \E v \in 1..2 : outcome[v].unknowns # {} \/ outcome[v].bounds_exceeded

(* _objective_entry.                                                       *)
Status(objective) ==
    CASE Reached(objective, outcome[1].goals) -> "violated"
      [] ~Reached(objective, outcome[1].goals) /\ Reached(objective, outcome[2].goals) ->
            "possibly_violated"
      [] OTHER -> IF HasUnknowns THEN "unknown" ELSE "satisfied_within_scope"

StatusesFound == {Status(o) : o \in Objectives}

Conclusion ==
    IF StatusesFound \cap {"violated", "possibly_violated"} # {} THEN "residual_path"
    ELSE IF "unknown" \in StatusesFound THEN "unknown" ELSE "contained_within_scope"

(* legit_status of one operation.                                          *)
Preserved(op, finalEnv) ==
    IF op.kind = "read_secret" THEN LegitCanRead(finalEnv, op.pod, op.target)
    ELSE LegitCanUseService(finalEnv, op.pod, op.target)
-----------------------------------------------------------------------------
(* Properties.                                                             *)

(* The conservative view covers the evidence-supported one: what follows   *)
(* from the evidence also follows from the possible past, in the last      *)
(* interval and whatever the remediation was.  (A view that exceeded its   *)
(* bounds shows the goals of an earlier interval, of which the remediation *)
(* may since have taken some away.)                                        *)
ViewsOrdered ==
    Done /\ ~outcome[1].bounds_exceeded /\ ~outcome[2].bounds_exceeded =>
        /\ outcome[1].goals.reads \subseteq outcome[2].goals.reads
        /\ outcome[1].goals.uses \subseteq outcome[2].goals.uses

(* S-TOK-4: a token that was bound to a pod stays dead once the pod is     *)
(* gone: no replacement, not even one made in the step that deletes the    *)
(* pod, and no new workload ever takes its UID.                            *)
NoTokenRevived ==
    [][view' = view /\ phase' = phase =>
          LET surviving == IF interval' = interval THEN env.pods
                           ELSE ApplyDefenderAction(env, input.remediation[interval']).pods
          IN  \A p \in env'.pods \ surviving :
                 \A c \in att.credentials : c.bound_pod # p.uid]_vars

(* legit_status looks at the environment of the evidence-supported view,   *)
(* attacker workloads included.  What the attacker did makes no difference *)
(* to it: the environment of the conservative view gives the same answer.  *)
LegitIndependent ==
    Done /\ ~outcome[1].bounds_exceeded /\ ~outcome[2].bounds_exceeded =>
        \A op \in LegitimateOperations :
            Preserved(op, outcome[1].env) = Preserved(op, outcome[2].env)

(* A fact is derived once, and a token, a read and a use once per          *)
(* interval: an analysis does not use up its bound by going round in       *)
(* circles, refreshing tokens.                                             *)
DerivedOnce ==
    LET intervals == interval + 2
    IN  count <= Cardinality(att.pods) + Cardinality(att.controllers) + Cardinality(att.secrets)
                 + Cardinality(att.downstream)
                 + intervals * (Cardinality(att.credentials) + Cardinality(env.secrets)
                                + Cardinality(env.services))

(* The sweeps of every interval end, and so does the analysis.             *)
Terminates == <>Done
=============================================================================
