---------------------------- MODULE Differential ----------------------------
(***************************************************************************)
(* tests/differential: the engine and the reference checker on the same    *)
(* input.  The engine runs first; then one view is explored, and what the  *)
(* attacker can reach on each path is held against the engine's verdict.   *)
(***************************************************************************)
EXTENDS Results, Reference

VARIABLE eager   \* on this path the attacker was exhausted whenever the defender acted

diffVars == <<input, view, phase, interval, env, att, eph, rule, changed, count, unknowns, goals,
              outcome, rview, stage, taken, renv, ratt, eager>>

DiffInit ==
    /\ Init
    /\ \E v \in 1..2 : RefInit(Views[v])
    /\ eager = TRUE

Analyze ==
    /\ ~Done
    /\ Next
    /\ UNCHANGED <<refVars, eager>>

Explore ==
    /\ Done
    /\ \/ AttackerStep /\ UNCHANGED eager
       \/ RefEndHistory /\ UNCHANGED eager
       \/ DefenderStep /\ eager' = (eager /\ Exhausted)
    /\ UNCHANGED vars

DiffNext == Analyze \/ Explore

DiffSpec == DiffInit /\ [][DiffNext]_diffVars
-----------------------------------------------------------------------------
(* Properties.                                                             *)

OutcomeOf(v) == outcome[CHOOSE k \in 1..2 : Views[k] = v]

(* The fixpoint covers every interleaving: whatever the attacker can do at *)
(* the end of any path, several workloads per account and any timing       *)
(* included, is among the goals of the engine's view.                      *)
FixpointCovers ==
    Done /\ Final /\ ~OutcomeOf(rview).bounds_exceeded =>
        \A o \in Objectives : RefReached(o) => Reached(o, OutcomeOf(rview).goals)

(* The fixpoint is attained: an attacker that does all it can before each  *)
(* defender action ends up with every goal of the engine's view, so that a *)
(* violated objective is not a false alarm.                                *)
FixpointAttained ==
    Done /\ Final /\ eager /\ Exhausted /\ ~OutcomeOf(rview).bounds_exceeded =>
        \A o \in Objectives : Reached(o, OutcomeOf(rview).goals) => RefReached(o)
=============================================================================
