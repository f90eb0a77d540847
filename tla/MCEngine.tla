------------------------------ MODULE MCEngine ------------------------------
(* Instances of Results, the engine with its verdict, for TLC. *)
EXTENDS Results, MCCase

Cluster == ClusterWith({CreateBinding, DeployBinding, ExecBinding, ReadBinding}, 2)

Actions == {RemoveBindingOf(CreateBinding), RemoveBindingOf(DeployBinding), RemoveBindingOf(ReadBinding),
            KillWeb, KillFront, KillPods, KillControllers, KillRel, RotateSvc, Wait}

(* What may be known about the attacker.                                   *)
Seeds ==
    {{Fact("possesses_credential", CiToken(12), "assumed")},
     {Fact("possesses_credential", CiToken(8), "observed"),
      Fact("controls_controller", front, "inferred")},
     {Fact("historical_pod", [uid |-> old, account |-> Ci], "observed"),
      Fact("possesses_credential", LegacyToken, "inferred")},
     {Fact("knows_secret", <<Db, 1>>, "inferred"), Fact("controls_pod", web, "observed")}}

(* Each plan comes with the bound of the analysis.                         *)
InputsOf(seeds, plans) ==
    {[inventory |-> Cluster, initial_facts |-> s, remediation |-> p[1], history_start |-> h, max_derivations |-> p[2],
      coverage_gaps |-> {}] : s \in seeds, p \in plans, h \in {None, 9}}

Roomy == 100

(* Evidence whose own view needs more derivations than the other.          *)
Lean == {Fact("controls_controller", front, "observed"), Fact("controls_pod", web, "inferred")}

(* Mostly with room enough, and some that exceed their bounds.             *)
MCInputs ==
    InputsOf(Seeds, (PlansUpTo(2, Actions) \X {Roomy}) \cup (PlansUpTo(1, Actions) \X {4}))
    \cup InputsOf({Lean}, PlansUpTo(1, Actions) \X {6, Roomy})

=============================================================================
