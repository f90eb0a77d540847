----------------------------- MODULE MCPlanner -----------------------------
(* Every tariff of three candidates at a cost of 0 to 2, and a cap that is  *)
(* met at once, in the middle, with the last plan, or never.               *)
EXTENDS Planner, SequencesExt

ThreeCandidates == 1..3
CapsConsidered == {0, 4, 15, 16}

TariffOf(cost) ==
    [s \in Explored |-> FoldSeq(LAMBDA a, sum : cost[a] + sum, 0, s)]
Tariffs == {TariffOf(cost) : cost \in [Candidates -> 0..2]}
=============================================================================
