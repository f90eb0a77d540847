--------------------------- MODULE MCDifferential ---------------------------
(* Instances of Differential for TLC. *)
EXTENDS Differential, MCCase

PodInventory == ClusterWith({CreateBinding, ReadBinding, ExecBinding}, 2)

DeployInventory == ClusterWith({DeployBinding, ReadBinding}, 0)

PodActions == {RemoveBindingOf(CreateBinding), KillWeb, KillPods, KillRel, RotateSvc, Wait}

DeployActions == {RemoveBindingOf(DeployBinding), KillFront, KillPods, KillControllers, RotateSvc, Wait}

InputsOf(inventory, seeds, plans) ==
    {[inventory |-> inventory, initial_facts |-> s, remediation |-> p, history_start |-> 9, max_derivations |-> 100,
      coverage_gaps |-> {}] : s \in seeds, p \in plans}

(* A token that outlives one wait, perhaps with a workload; a token that   *)
(* has expired; a pod that is gone.                                        *)
Seeds(workload) ==
    {{Fact("possesses_credential", CiToken(12), "assumed"), workload},
     {Fact("possesses_credential", CiToken(10), "observed")},
     {Fact("historical_pod", [uid |-> old, account |-> Ci], "observed")}}

MCInputs ==
    InputsOf(PodInventory, Seeds(Fact("controls_pod", web, "inferred")), PlansUpTo(3, PodActions))
    \cup InputsOf(DeployInventory, Seeds(Fact("controls_controller", front, "inferred")),
                  PlansUpTo(2, DeployActions))
=============================================================================
