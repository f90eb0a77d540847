------------------------------ MODULE Planner ------------------------------
(***************************************************************************)
(* plan: uniform-cost search over sequences of distinct candidate actions. *)
(* A candidate is its index in the list, which candidate_actions sorts by  *)
(* label, so that indices compare as the labels in a heap entry do.  The   *)
(* analysis of a sequence (Results) is an outcome chosen when the sequence *)
(* is popped; no sequence is popped twice, so choosing late loses nothing. *)
(* Costs are natural numbers: the search only adds and compares them.      *)
(***************************************************************************)
EXTENDS Naturals, Sequences, FiniteSets

CONSTANTS
    Candidates,   \* the indices of the candidate actions
    MaxLength,    \* PlannerConfig.max_length
    Caps,         \* the values of PlannerConfig.max_evaluations considered
    Totals,       \* the tariffs considered, each the cost of every sequence
    NoPlan        \* None

Arrangements == UNION {[1..n -> Candidates] : n \in 0..MaxLength}

Distinct(s) == \A i, j \in DOMAIN s : s[i] = s[j] => i = j

(* What the loop ranges over, and the plans among it: the empty sequence   *)
(* is popped but never evaluated.                                          *)
Explored == {s \in Arrangements : Distinct(s)}
Plans == Explored \ {<<>>}

Extends(s, t) == /\ Len(s) <= Len(t)
                 /\ \A i \in 1..Len(s) : s[i] = t[i]

(* A tariff is a sum of non-negative action costs: DEFAULT_COSTS holds no  *)
(* negative one and no caller overrides it.                                *)
ASSUME PlannerAssumption ==
    /\ Candidates \subseteq Nat /\ Candidates # {}
    /\ MaxLength \in Nat
    /\ Caps \subseteq Nat
    /\ NoPlan \notin Explored
    /\ Totals \subseteq [Explored -> Nat]

ASSUME TariffAssumption ==
    \A t \in Totals :
        /\ t[<<>>] = 0
        /\ \A s \in Explored, a \in Candidates :
              Append(s, a) \in Explored => t[Append(s, a)] = t[s] + t[<<a>>]
        /\ \A s, u \in Explored : Extends(s, u) => t[s] <= t[u]

VARIABLES
    total,            \* the tariff of this call
    cap,              \* cfg.max_evaluations of this call
    heap,             \* the entries: a cost and a sequence
    evaluations,
    best,             \* the sequence summarised as best_plan, or NoPlan
    best_disruptive,  \* the one summarised as cheapest_security_only_plan
    status,           \* "searching", then search.status
    tried,            \* history: the sequences analysed
    cheapest          \* history: the least contained sequence that is not valid

vars == <<total, cap, heap, evaluations, best, best_disruptive, status,
          tried, cheapest>>

Entry == [cost : Nat, seq : Explored]
Statuses == {"searching", "optimal_within_bounds", "incomplete_search",
             "no_valid_plan_within_bounds"}
Outcomes == {"valid", "contained", "open"}

-----------------------------------------------------------------------------
(* The order of the heap's tuples.                                         *)

LexLess(s, t) ==
    \/ Extends(s, t) /\ Len(s) < Len(t)
    \/ \E i \in 1..Len(s) :
          /\ i <= Len(t) /\ s[i] < t[i]
          /\ \A k \in 1..(i - 1) : s[k] = t[k]

Less(d, e) == d.cost < e.cost \/ (d.cost = e.cost /\ LexLess(d.seq, e.seq))

Priced(s) == [cost |-> total[s], seq |-> s]
Precedes(s, t) == Less(Priced(s), Priced(t))

-----------------------------------------------------------------------------
Init ==
    /\ total \in Totals /\ cap \in Caps
    /\ heap = {[cost |-> 0, seq |-> <<>>]}
    /\ evaluations = 0 /\ tried = {}
    /\ best = NoPlan /\ best_disruptive = NoPlan /\ cheapest = NoPlan
    /\ status = "searching"

action_cost(a) == total[<<a>>]

Least(e) == e \in heap /\ \A d \in heap \ {e} : Less(e, d)

(* A loop that looks at heap[0] and leaves it there.                       *)
PoppedNothing(e) == heap

(* heappop.                                                                *)
Popped(e) == heap \ {e}

(* Entries that cost what their last action costs.                         *)
PushedFlat(e) ==
    IF Len(e.seq) < MaxLength
    THEN {[cost |-> action_cost(a), seq |-> Append(e.seq, a)] :
             a \in {b \in Candidates : \A i \in DOMAIN e.seq : e.seq[i] # b}}
    ELSE {}

(* The entries pushed for e, none at the length bound.                     *)
Pushed(e) ==
    IF Len(e.seq) < MaxLength
    THEN {[cost |-> e.cost + action_cost(a), seq |-> Append(e.seq, a)] :
             a \in {b \in Candidates : \A i \in DOMAIN e.seq : e.seq[i] # b}}
    ELSE {}

(* The empty sequence is expanded without being analysed.                  *)
Expand(e) ==
    /\ e.seq = <<>>
    /\ heap' = Popped(e) \cup Pushed(e)
    /\ UNCHANGED <<evaluations, best, best_disruptive, status, tried, cheapest>>

(* One analysis: a valid sequence ends the search, the first contained one *)
(* is kept, and any other is extended.                                     *)
Evaluate(e, outcome) ==
    /\ e.seq # <<>> /\ evaluations < cap
    /\ evaluations' = evaluations + 1
    /\ tried' = tried \cup {e.seq}
    /\ IF outcome = "valid"
       THEN /\ best' = e.seq
            /\ status' = "optimal_within_bounds"
            /\ heap' = Popped(e)
            /\ UNCHANGED <<best_disruptive, cheapest>>
       ELSE /\ heap' = Popped(e) \cup Pushed(e)
            /\ best_disruptive' =
                  IF best_disruptive = NoPlan /\ outcome = "contained"
                  THEN e.seq ELSE best_disruptive
            /\ cheapest' =
                  IF /\ outcome = "contained"
                     /\ cheapest = NoPlan \/ Precedes(e.seq, cheapest)
                  THEN e.seq ELSE cheapest
            /\ UNCHANGED <<best, status>>

(* The cap is met with a sequence still to analyse.                        *)
GiveUp(e) ==
    /\ e.seq # <<>> /\ evaluations >= cap
    /\ heap' = Popped(e)
    /\ status' = "incomplete_search"
    /\ UNCHANGED <<evaluations, best, best_disruptive, tried, cheapest>>

Exhaust ==
    /\ heap = {}
    /\ status' = "no_valid_plan_within_bounds"
    /\ UNCHANGED <<heap, evaluations, best, best_disruptive, tried, cheapest>>

Pop == \E e \in heap :
    /\ Least(e)
    /\ Expand(e) \/ GiveUp(e) \/ \E o \in Outcomes : Evaluate(e, o)

Next ==
    /\ status = "searching"
    /\ Pop \/ Exhaust
    /\ UNCHANGED <<total, cap>>

Spec == Init /\ [][Next]_vars
FairSpec == Spec /\ WF_vars(Next)

-----------------------------------------------------------------------------
TypeOK ==
    /\ total \in Totals /\ cap \in Caps
    /\ heap \subseteq Entry
    /\ evaluations \in 0..cap
    /\ {best, best_disruptive, cheapest} \subseteq Plans \cup {NoPlan}
    /\ status \in Statuses
    /\ tried \subseteq Plans

(* Every plan not analysed yet has a prefix waiting in the heap.           *)
FrontierCovers ==
    status = "searching" =>
        \A s \in Plans \ tried : \E e \in heap : Extends(e.seq, s)

(* No plan that was analysed comes after one that was not.                 *)
InOrder == \A s \in tried, t \in Plans \ tried : Precedes(s, t)

(* The heap holds every sequence at its cost and before its analysis, and  *)
(* only sequences all of whose prefixes were analysed; the empty sequence  *)
(* is alone in it.                                                         *)
HeapSound ==
    \A e \in heap :
        /\ e.cost = total[e.seq]
        /\ e.seq \notin tried
        /\ \A s \in Plans : Extends(s, e.seq) => s = e.seq \/ s \in tried
        /\ e.seq = <<>> => heap = {e} /\ tried = {}

TriedSound ==
    /\ \A s \in tried, t \in Plans : Extends(t, s) => t \in tried
    /\ status = "optimal_within_bounds" => best \in tried
    /\ best_disruptive \in tried \cup {NoPlan}

(* planner.py:149-167 ("The first valid sequence popped is minimum-cost"): *)
(* the search analyses the plans in the order of their cost and labels.    *)
(* So a best plan comes before every plan it was not compared with, though *)
(* a longer plan enters the heap only after its prefix was analysed; "no   *)
(* valid plan" is said only when every plan was analysed, and "incomplete" *)
(* only when one was not; and the first contained plan kept is the least   *)
(* of all the contained plans met.                                         *)
SearchExact ==
    /\ status = "optimal_within_bounds" =>
          \A s \in Plans \ tried : Precedes(best, s)
    /\ status = "no_valid_plan_within_bounds" => tried = Plans
    /\ status = "incomplete_search" => tried # Plans
    /\ best_disruptive = cheapest

(* planner.py:147-167: the search ends, whatever the analyses say and even *)
(* when the cap is never met.                                              *)
SearchEnds == <>(status # "searching")

(* The invariant that is inductive.                                        *)
IInv == TypeOK /\ HeapSound /\ TriedSound /\ FrontierCovers /\ InOrder
        /\ SearchExact
=============================================================================
