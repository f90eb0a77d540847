--------------------------- MODULE PlannerProofs ---------------------------
(***************************************************************************)
(* The planner's claim for every set of candidates, every length bound,    *)
(* every cap and every tariff.  Lemmas about sequences and their order     *)
(* come first, then what a pop does to the frontier, then the invariant.   *)
(***************************************************************************)
EXTENDS Planner, TLAPS

-----------------------------------------------------------------------------
(* Sequences.                                                              *)

(* A sequence is a function on its positions.                              *)
LEMMA SeqFunction ==
    ASSUME NEW S, NEW s \in Seq(S)
    PROVE  s \in [1..Len(s) -> S]
OBVIOUS

(* A sequence of the search is a sequence of distinct indices.             *)
LEMMA ExploredFacts ==
    ASSUME NEW s \in Explored
    PROVE  /\ s \in Seq(Candidates)
           /\ Len(s) \in Nat /\ Len(s) <= MaxLength
           /\ DOMAIN s = 1..Len(s)
           /\ \A i \in 1..Len(s) : s[i] \in Candidates /\ s[i] \in Nat
           /\ Distinct(s)
<1>1. PICK n \in 0..MaxLength : s \in [1..n -> Candidates]
  BY DEF Explored, Arrangements
<1>2. n \in Nat /\ n <= MaxLength
  BY PlannerAssumption
<1>3. s \in Seq(Candidates) /\ Len(s) = n
  BY <1>1, <1>2
<1> QED
  BY <1>1, <1>2, <1>3, PlannerAssumption DEF Explored

(* The empty sequence is explored and is no plan.                          *)
LEMMA EmptyExplored ==
    /\ <<>> \in Explored /\ <<>> \notin Plans
    /\ \A s \in Plans : s \in Explored /\ s # <<>>
<1>1. <<>> \in [1..0 -> Candidates]
  OBVIOUS
<1>2. 0 \in 0..MaxLength
  BY PlannerAssumption
<1>3. <<>> \in Arrangements
  BY <1>1, <1>2 DEF Arrangements
<1>4. Distinct(<<>>)
  BY DEF Distinct
<1> QED
  BY <1>3, <1>4 DEF Explored, Plans

(* The empty sequence is the one of length zero.                           *)
LEMMA EmptyLength ==
    ASSUME NEW s \in Explored
    PROVE  s = <<>> <=> Len(s) = 0
BY ExploredFacts

(* Appending a new candidate below the bound gives a longer plan.          *)
LEMMA AppendExplored ==
    ASSUME NEW s \in Explored, NEW a \in Candidates,
           Len(s) < MaxLength,
           \A i \in DOMAIN s : s[i] # a
    PROVE  /\ Append(s, a) \in Plans
           /\ Len(Append(s, a)) = Len(s) + 1
           /\ Append(s, a)[Len(s) + 1] = a
           /\ \A i \in 1..Len(s) : Append(s, a)[i] = s[i]
           /\ Extends(s, Append(s, a))
<1> DEFINE t == Append(s, a)
<1>1. /\ s \in Seq(Candidates)
      /\ Len(s) \in Nat /\ DOMAIN s = 1..Len(s)
      /\ Distinct(s)
  BY ExploredFacts
<1>2. /\ t \in Seq(Candidates) /\ Len(t) = Len(s) + 1
      /\ t[Len(s) + 1] = a
      /\ \A i \in 1..Len(s) : t[i] = s[i]
  BY <1>1
<1>3. t \in [1..(Len(s) + 1) -> Candidates]
  <2>1. t \in [1..Len(t) -> Candidates]
    BY <1>2, SeqFunction
  <2> QED
    BY <1>2, <2>1
<1>4. t \in Arrangements
  BY <1>1, <1>3, PlannerAssumption DEF Arrangements
<1>5. Distinct(t)
  BY <1>1, <1>2, <1>3 DEF Distinct
<1>6. t # <<>>
  BY <1>1, <1>2
<1>7. Extends(s, t)
  BY <1>1, <1>2 DEF Extends
<1> QED
  BY <1>2, <1>4, <1>5, <1>6, <1>7 DEF Explored, Plans

(* Sequences of one length, one extending the other, are equal.            *)
LEMMA ExtendsEqual ==
    ASSUME NEW s \in Explored, NEW t \in Explored,
           Extends(s, t), Len(s) = Len(t)
    PROVE  s = t
<1>1. /\ s \in Seq(Candidates) /\ t \in Seq(Candidates)
      /\ \A i \in 1..Len(s) : s[i] = t[i]
  BY ExploredFacts DEF Extends
<1> QED
  BY <1>1

(* An extension that is no equal is longer.                                *)
LEMMA ExtendsStrict ==
    ASSUME NEW s \in Explored, NEW t \in Explored, Extends(s, t), s # t
    PROVE  Len(s) < Len(t)
BY ExtendsEqual, ExploredFacts DEF Extends

(* A prefix of a sequence with one more element is that sequence, or a     *)
(* prefix of what it was appended to.                                      *)
LEMMA ExtendsAppend ==
    ASSUME NEW s \in Explored, NEW t \in Explored, NEW a \in Candidates,
           Len(t) < MaxLength, \A i \in DOMAIN t : t[i] # a,
           Extends(s, Append(t, a)), s # Append(t, a)
    PROVE  Extends(s, t)
<1>1. Append(t, a) \in Explored /\ Len(Append(t, a)) = Len(t) + 1
  BY AppendExplored, EmptyExplored
<1>2. Len(s) < Len(t) + 1
  BY <1>1, ExtendsStrict
<1> QED
  BY <1>1, <1>2, AppendExplored, ExploredFacts DEF Extends

-----------------------------------------------------------------------------
(* The order.                                                              *)

(* What comes before a sequence comes before its extensions.               *)
LEMMA LexThrough ==
    ASSUME NEW s \in Explored, NEW t \in Explored, NEW u \in Explored,
           LexLess(s, t), Extends(t, u)
    PROVE  LexLess(s, u)
<1>1. Len(s) \in Nat /\ Len(t) \in Nat /\ Len(u) \in Nat
  BY ExploredFacts
<1>2. CASE Extends(s, t) /\ Len(s) < Len(t)
  BY <1>1, <1>2 DEF LexLess, Extends
<1>3. CASE \E i \in 1..Len(s) : /\ i <= Len(t) /\ s[i] < t[i]
                                /\ \A k \in 1..(i - 1) : s[k] = t[k]
  <2>1. PICK i \in 1..Len(s) : /\ i <= Len(t) /\ s[i] < t[i]
                               /\ \A k \in 1..(i - 1) : s[k] = t[k]
    BY <1>3
  <2>2. i <= Len(u) /\ s[i] < u[i]
    BY <1>1, <2>1 DEF Extends
  <2>3. \A k \in 1..(i - 1) : s[k] = u[k]
    BY <1>1, <2>1 DEF Extends
  <2> QED
    BY <2>2, <2>3 DEF LexLess
<1> QED
  BY <1>2, <1>3 DEF LexLess

(* The order of the labels is asymmetric.                                  *)
LEMMA LexAsymmetric ==
    ASSUME NEW s \in Explored, NEW t \in Explored, LexLess(s, t)
    PROVE  ~LexLess(t, s)
<1>1. /\ Len(s) \in Nat /\ Len(t) \in Nat
      /\ \A i \in 1..Len(s) : s[i] \in Nat
      /\ \A i \in 1..Len(t) : t[i] \in Nat
  BY ExploredFacts
<1>2. CASE Extends(s, t) /\ Len(s) < Len(t)
  BY <1>1, <1>2 DEF LexLess, Extends
<1>3. CASE \E i \in 1..Len(s) : /\ i <= Len(t) /\ s[i] < t[i]
                                /\ \A k \in 1..(i - 1) : s[k] = t[k]
  <2>1. PICK i \in 1..Len(s) : /\ i <= Len(t) /\ s[i] < t[i]
                               /\ \A k \in 1..(i - 1) : s[k] = t[k]
    BY <1>3
  <2>2. ~Extends(t, s)
    BY <1>1, <2>1 DEF Extends
  <2>3. ASSUME NEW j \in 1..Len(t), j <= Len(s), t[j] < s[j],
               \A k \in 1..(j - 1) : t[k] = s[k]
        PROVE  FALSE
    <3>1. i < j => s[i] = t[i]
      BY <1>1, <2>1, <2>3
    <3>2. j < i => s[j] = t[j]
      BY <1>1, <2>1, <2>3
    <3> QED
      BY <1>1, <2>1, <2>3, <3>1, <3>2
  <2> QED
    BY <2>2, <2>3 DEF LexLess
<1> QED
  BY <1>2, <1>3 DEF LexLess
(* What comes before a sequence of the search at its cost also comes       *)
(* before every extension of it; a sequence comes before its extensions.   *)
LEMMA PrecedesThrough ==
    ASSUME total \in Totals,
           NEW s \in Explored, NEW t \in Explored, NEW u \in Explored,
           s = t \/ Precedes(s, t), Extends(t, u), s # u
    PROVE  Precedes(s, u)
<1>1. /\ total[s] \in Nat /\ total[t] \in Nat /\ total[u] \in Nat
      /\ total[t] <= total[u]
  BY PlannerAssumption, TariffAssumption
<1>2. CASE s = t
  <2>1. LexLess(s, u)
    BY <1>2, ExtendsStrict DEF LexLess
  <2> QED
    BY <1>1, <1>2, <2>1 DEF Precedes, Priced, Less
<1>3. CASE Precedes(s, t)
  <2>1. total[s] < total[t] \/ (total[s] = total[t] /\ LexLess(s, t))
    BY <1>3 DEF Precedes, Priced, Less
  <2>2. LexLess(s, t) => LexLess(s, u)
    BY LexThrough
  <2> QED
    BY <1>1, <2>1, <2>2 DEF Precedes, Priced, Less
<1> QED
  BY <1>2, <1>3

(* The order of the heap is asymmetric.                                    *)
LEMMA PrecedesAsymmetric ==
    ASSUME total \in Totals, NEW s \in Explored, NEW t \in Explored,
           Precedes(s, t)
    PROVE  ~Precedes(t, s)
<1>1. total[s] \in Nat /\ total[t] \in Nat
  BY PlannerAssumption
<1>2. total[s] < total[t] \/ (total[s] = total[t] /\ LexLess(s, t))
  BY DEF Precedes, Priced, Less
<1>3. LexLess(s, t) => ~LexLess(t, s)
  BY LexAsymmetric
<1> QED
  BY <1>1, <1>2, <1>3 DEF Precedes, Priced, Less

-----------------------------------------------------------------------------
(* A pop.                                                                  *)

(* An entry of the heap.                                                   *)
LEMMA EntryFacts ==
    ASSUME IInv, NEW e \in heap
    PROVE  /\ e = [cost |-> e.cost, seq |-> e.seq]
           /\ e.seq \in Explored /\ e.cost \in Nat
           /\ e.cost = total[e.seq] /\ e.seq \notin tried
           /\ e.seq # <<>> => e.seq \in Plans
BY DEF IInv, TypeOK, HeapSound, Entry, Plans

(* What is pushed: the entry's sequence with a new candidate, at its cost. *)
LEMMA PushedFacts ==
    ASSUME IInv, NEW e \in heap, NEW d \in Pushed(e)
    PROVE  \E a \in Candidates :
              /\ Len(e.seq) < MaxLength
              /\ \A i \in DOMAIN e.seq : e.seq[i] # a
              /\ d = [cost |-> total[Append(e.seq, a)], seq |-> Append(e.seq, a)]
              /\ d.seq = Append(e.seq, a) /\ d.cost = total[d.seq]
              /\ d \in Entry /\ d.seq \in Plans
<1>1. PICK a \in Candidates :
         /\ Len(e.seq) < MaxLength
         /\ \A i \in DOMAIN e.seq : e.seq[i] # a
         /\ d = [cost |-> e.cost + action_cost(a), seq |-> Append(e.seq, a)]
  BY DEF Pushed
<1>2. e.seq \in Explored /\ e.cost = total[e.seq]
  BY EntryFacts
<1>3. Append(e.seq, a) \in Plans /\ Append(e.seq, a) \in Explored
  BY <1>1, <1>2, AppendExplored, EmptyExplored
<1>4. total[Append(e.seq, a)] = e.cost + action_cost(a)
  BY <1>2, <1>3, TariffAssumption DEF IInv, TypeOK, action_cost
<1>5. total[Append(e.seq, a)] \in Nat
  BY <1>3, PlannerAssumption DEF IInv, TypeOK
<1> QED
  BY <1>1, <1>3, <1>4, <1>5 DEF Entry

(* Nothing pushed was analysed, nor is it the sequence popped.             *)
LEMMA PushedFresh ==
    ASSUME IInv, NEW e \in heap, NEW d \in Pushed(e)
    PROVE  d.seq \notin tried /\ d.seq # e.seq /\ d.seq # <<>>
<1>1. PICK a \in Candidates :
         /\ Len(e.seq) < MaxLength
         /\ \A i \in DOMAIN e.seq : e.seq[i] # a
         /\ d.seq = Append(e.seq, a) /\ d.seq \in Plans
  BY PushedFacts
<1>2. e.seq \in Explored /\ e.seq \notin tried
  BY EntryFacts
<1>3. Extends(e.seq, d.seq) /\ Len(d.seq) = Len(e.seq) + 1 /\ Len(e.seq) \in Nat
  BY <1>1, <1>2, AppendExplored, ExploredFacts
<1>4. e.seq = <<>> => tried = {}
  BY DEF IInv, HeapSound
<1>5. e.seq # <<>> => d.seq \notin tried
  BY <1>2, <1>3, EntryFacts DEF IInv, TriedSound
<1> QED
  BY <1>1, <1>3, <1>4, <1>5, EmptyExplored

(* The popped plan comes before every plan that is not analysed yet: the   *)
(* prefix that stands for it in the heap is not before the one popped.     *)
LEMMA PopOrdered ==
    ASSUME IInv, status = "searching", NEW e, Least(e),
           NEW s \in Plans \ tried, s # e.seq
    PROVE  Precedes(e.seq, s)
<1>1. PICK d \in heap : Extends(d.seq, s)
  BY DEF IInv, FrontierCovers
<1>2. e \in heap
  BY DEF Least
<1>3. /\ e.seq \in Explored /\ e.cost = total[e.seq]
      /\ d.seq \in Explored /\ d.cost = total[d.seq]
      /\ s \in Explored
  BY <1>1, <1>2, EntryFacts, EmptyExplored
<1>4. d.seq = e.seq \/ Precedes(e.seq, d.seq)
  <2>1. d = e \/ Less(e, d)
    BY <1>1 DEF Least
  <2> QED
    BY <1>3, <2>1 DEF Less, Precedes, Priced
<1>5. total \in Totals
  BY DEF IInv, TypeOK
<1> QED
  BY <1>1, <1>3, <1>4, <1>5, PrecedesThrough

(* The frontier after a pop still covers what is not analysed.             *)
LEMMA PopCovers ==
    ASSUME IInv, status = "searching", NEW e \in heap,
           NEW s \in Plans \ tried, s # e.seq
    PROVE  \E d \in (heap \ {e}) \cup Pushed(e) : Extends(d.seq, s)
<1>1. PICK d \in heap : Extends(d.seq, s)
  BY DEF IInv, FrontierCovers
<1>2. CASE d # e
  BY <1>1, <1>2
<1>3. CASE d = e
  <2>1. e.seq \in Explored /\ s \in Explored
    BY EntryFacts, EmptyExplored
  <2>2. /\ Len(e.seq) \in Nat /\ Len(s) \in Nat /\ Len(s) <= MaxLength
        /\ DOMAIN e.seq = 1..Len(e.seq) /\ DOMAIN s = 1..Len(s)
        /\ Distinct(s)
        /\ \A i \in 1..Len(s) : s[i] \in Candidates
    BY <2>1, ExploredFacts
  <2>3. Len(e.seq) < Len(s)
    BY <1>1, <1>3, <2>1, ExtendsStrict
  <2>4. \A i \in 1..Len(e.seq) : e.seq[i] = s[i]
    BY <1>1, <1>3 DEF Extends
  <2> DEFINE a == s[Len(e.seq) + 1]
  <2>5. a \in Candidates /\ Len(e.seq) < MaxLength
    BY <2>2, <2>3, PlannerAssumption
  <2>6. \A i \in DOMAIN e.seq : e.seq[i] # a
    BY <2>2, <2>3, <2>4 DEF Distinct
  <2> DEFINE f == [cost |-> e.cost + action_cost(a), seq |-> Append(e.seq, a)]
  <2>7. f \in Pushed(e)
    BY <2>5, <2>6 DEF Pushed
  <2>8. /\ Len(Append(e.seq, a)) = Len(e.seq) + 1
        /\ Append(e.seq, a)[Len(e.seq) + 1] = a
        /\ \A i \in 1..Len(e.seq) : Append(e.seq, a)[i] = e.seq[i]
    BY <2>1, <2>5, <2>6, AppendExplored
  <2>9. Extends(f.seq, s)
    <3>1. f.seq = Append(e.seq, a)
      OBVIOUS
    <3> HIDE DEF f
    <3>2. \A i \in 1..(Len(e.seq) + 1) : f.seq[i] = s[i]
      BY <2>2, <2>4, <2>8, <3>1
    <3> QED
      BY <2>2, <2>3, <2>8, <3>1, <3>2 DEF Extends
  <2> QED
    BY <2>7, <2>9
<1> QED
  BY <1>2, <1>3

(* The heap after a pop: every entry is priced, is new, and has its proper *)
(* prefixes analysed, counting the sequence popped.                        *)
LEMMA PopHeap ==
    ASSUME IInv, NEW e \in heap, NEW d \in (heap \ {e}) \cup Pushed(e)
    PROVE  /\ d \in Entry /\ d.cost = total[d.seq]
           /\ d.seq \notin tried /\ d.seq # e.seq /\ d.seq # <<>>
           /\ \A s \in Plans : Extends(s, d.seq) =>
                 s = d.seq \/ s \in tried \/ s = e.seq
<1>1. CASE d \in heap \ {e}
  <2>1. d.seq # e.seq
    BY <1>1, EntryFacts
  <2>2. d.seq # <<>>
    BY <1>1 DEF IInv, HeapSound
  <2> QED
    BY <1>1, <2>1, <2>2 DEF IInv, TypeOK, HeapSound
<1>2. CASE d \in Pushed(e)
  <2>1. PICK a \in Candidates :
           /\ Len(e.seq) < MaxLength
           /\ \A i \in DOMAIN e.seq : e.seq[i] # a
           /\ d.seq = Append(e.seq, a) /\ d.cost = total[d.seq]
           /\ d \in Entry /\ d.seq \in Plans
    BY <1>2, PushedFacts
  <2>2. e.seq \in Explored
    BY EntryFacts
  <2>3. ASSUME NEW s \in Plans, Extends(s, d.seq), s # d.seq
        PROVE  s \in tried \/ s = e.seq
    <3>1. Extends(s, e.seq)
      BY <2>1, <2>2, <2>3, ExtendsAppend, EmptyExplored
    <3> QED
      BY <3>1 DEF IInv, HeapSound
  <2> QED
    BY <1>2, <2>1, <2>3, PushedFresh
<1> QED
  BY <1>1, <1>2

-----------------------------------------------------------------------------
(* The invariant.                                                          *)

(* The search starts with nothing analysed and a frontier that stands for  *)
(* every plan.                                                             *)
LEMMA InitIInv == Init => IInv
<1> SUFFICES ASSUME Init PROVE IInv
  OBVIOUS
<1>1. \A t \in Totals : t[<<>>] = 0
  BY TariffAssumption
<1>2. TypeOK
  BY EmptyExplored, PlannerAssumption DEF Init, TypeOK, Entry, Statuses
<1>3. HeapSound
  <2>1. \A s \in Plans : ~Extends(s, <<>>)
    BY EmptyLength, EmptyExplored, ExploredFacts DEF Extends
  <2> QED
    BY <1>1, <2>1 DEF Init, HeapSound
<1>4. FrontierCovers
  <2>1. \A s \in Plans : Extends(<<>>, s)
    BY EmptyExplored, ExploredFacts DEF Extends
  <2> QED
    BY <2>1 DEF Init, FrontierCovers
<1>5. TriedSound /\ InOrder /\ SearchExact
  BY DEF Init, TriedSound, InOrder, SearchExact
<1> QED
  BY <1>2, <1>3, <1>4, <1>5 DEF IInv

(* The empty sequence makes way for the single actions.                    *)
LEMMA ExpandIInv ==
    ASSUME IInv, status = "searching", NEW e \in heap,
           Expand(e), UNCHANGED <<total, cap>>
    PROVE  IInv'
<1>1. /\ heap' = (heap \ {e}) \cup Pushed(e)
      /\ UNCHANGED <<total, cap, evaluations, best, best_disruptive, status,
                    tried, cheapest>>
      /\ e.seq = <<>>
  BY DEF Expand, Popped
<1>2. TypeOK'
  BY <1>1, PopHeap DEF IInv, TypeOK
<1>3. HeapSound'
  BY <1>1, PopHeap, EmptyExplored DEF HeapSound
<1>4. TriedSound'
  BY <1>1 DEF IInv, TriedSound
<1>5. FrontierCovers'
  BY <1>1, PopCovers, EmptyExplored DEF FrontierCovers
<1>6. \A s, t : Precedes(s, t)' <=> Precedes(s, t)
  BY <1>1 DEF Precedes, Priced, Less
<1>7. InOrder' /\ SearchExact'
  BY <1>1, <1>6 DEF IInv, InOrder, SearchExact
<1> QED
  BY <1>2, <1>3, <1>4, <1>5, <1>7 DEF IInv

(* An analysis adds the least plan that was not analysed.                  *)
LEMMA EvaluateIInv ==
    ASSUME IInv, status = "searching", NEW e \in heap, Least(e),
           NEW o \in Outcomes, Evaluate(e, o), UNCHANGED <<total, cap>>
    PROVE  IInv'
<1>1. /\ e.seq # <<>> /\ evaluations < cap
      /\ evaluations' = evaluations + 1
      /\ tried' = tried \cup {e.seq}
      /\ heap' \subseteq (heap \ {e}) \cup Pushed(e)
      /\ total' = total /\ cap' = cap
  BY DEF Evaluate, Popped
<1>2. /\ e.seq \in Plans /\ e.seq \notin tried /\ e.seq \in Explored
      /\ e.seq # NoPlan
  BY <1>1, EntryFacts, PlannerAssumption
<1>3. \A s, t : Precedes(s, t)' <=> Precedes(s, t)
  BY <1>1 DEF Precedes, Priced, Less
<1>4. HeapSound'
  <2> SUFFICES ASSUME NEW d \in heap'
               PROVE  /\ d.cost = total[d.seq]
                      /\ d.seq \notin tried' /\ d.seq # <<>>
                      /\ \A s \in Plans : Extends(s, d.seq) =>
                            s = d.seq \/ s \in tried'
    BY <1>1 DEF HeapSound
  <2> QED
    BY <1>1, PopHeap
<1>5. \A s \in tried', t \in Plans : Extends(t, s) => t \in tried'
  BY <1>1 DEF IInv, TriedSound, HeapSound
<1>6. InOrder'
  <2> SUFFICES ASSUME NEW s \in tried', NEW t \in Plans \ tried'
               PROVE  Precedes(s, t)
    BY <1>3 DEF InOrder
  <2>1. CASE s \in tried
    BY <1>1, <2>1 DEF IInv, InOrder
  <2>2. CASE s = e.seq
    BY <1>1, <2>2, PopOrdered
  <2> QED
    BY <1>1, <2>1, <2>2
<1>7. heap' \subseteq Entry
  BY <1>1, PopHeap
<1>8. /\ total' \in Totals /\ cap' \in Caps /\ evaluations' \in 0..cap'
      /\ tried' \subseteq Plans
  BY <1>1, <1>2, PlannerAssumption DEF IInv, TypeOK
<1>9. CASE o = "valid"
  <2>1. /\ best' = e.seq /\ status' = "optimal_within_bounds"
        /\ best_disruptive' = best_disruptive /\ cheapest' = cheapest
    BY <1>9 DEF Evaluate
  <2>2. TypeOK'
    BY <1>2, <1>7, <1>8, <2>1 DEF IInv, TypeOK, Statuses
  <2>3. TriedSound'
    BY <1>1, <1>5, <2>1 DEF IInv, TriedSound
  <2>4. FrontierCovers'
    BY <2>1 DEF FrontierCovers
  <2>5. SearchExact'
    BY <1>1, <1>6, <2>1 DEF IInv, SearchExact, InOrder
  <2> QED
    BY <1>4, <1>6, <2>2, <2>3, <2>4, <2>5 DEF IInv
<1>10. CASE o # "valid"
  <2>1. /\ heap' = (heap \ {e}) \cup Pushed(e)
        /\ best' = best /\ status' = status
        /\ best_disruptive' =
              IF best_disruptive = NoPlan /\ o = "contained"
              THEN e.seq ELSE best_disruptive
        /\ cheapest' =
              IF /\ o = "contained"
                 /\ cheapest = NoPlan \/ Precedes(e.seq, cheapest)
              THEN e.seq ELSE cheapest
    BY <1>10 DEF Evaluate, Popped
  <2>2. TypeOK'
    BY <1>2, <1>7, <1>8, <2>1 DEF IInv, TypeOK
  <2>3. TriedSound'
    BY <1>1, <1>5, <2>1 DEF IInv, TriedSound
  <2>4. FrontierCovers'
    BY <1>1, <2>1, PopCovers DEF FrontierCovers
  <2>5. cheapest # NoPlan => ~Precedes(e.seq, cheapest)
    <3> SUFFICES ASSUME cheapest # NoPlan PROVE ~Precedes(e.seq, cheapest)
      OBVIOUS
    <3>1. cheapest \in tried
      BY DEF IInv, SearchExact, TriedSound
    <3>2. Precedes(cheapest, e.seq) /\ cheapest \in Explored
      BY <1>2, <3>1, EmptyExplored DEF IInv, InOrder, TypeOK
    <3> QED
      BY <1>2, <3>2, PrecedesAsymmetric DEF IInv, TypeOK
  <2>6. SearchExact'
    BY <2>1, <2>5 DEF IInv, SearchExact
  <2> QED
    BY <1>4, <1>6, <2>2, <2>3, <2>4, <2>6 DEF IInv
<1> QED
  BY <1>9, <1>10

(* Both ways to end without a plan: at the cap with a plan in hand that    *)
(* was not analysed, or with an empty frontier.                            *)
LEMMA EndIInv ==
    ASSUME IInv, status = "searching", UNCHANGED <<total, cap>>,
           (\E e \in heap : GiveUp(e)) \/ Exhaust
    PROVE  IInv'
<1>1. \A s, t : Precedes(s, t)' <=> Precedes(s, t)
  BY DEF Precedes, Priced, Less
<1>2. /\ UNCHANGED <<total, cap, evaluations, best, best_disruptive, tried,
                    cheapest>>
      /\ heap' \subseteq heap
      /\ status' \in {"incomplete_search", "no_valid_plan_within_bounds"}
  BY DEF GiveUp, Exhaust, Popped
<1>3. status' = "incomplete_search" => tried # Plans
  BY EntryFacts DEF GiveUp, Exhaust
<1>4. status' = "no_valid_plan_within_bounds" => tried = Plans
  BY DEF GiveUp, Exhaust, IInv, FrontierCovers, TypeOK
<1>5. TypeOK'
  BY <1>2 DEF IInv, TypeOK, Statuses
<1>6. HeapSound'
  BY <1>2 DEF IInv, HeapSound
<1>7. TriedSound' /\ FrontierCovers'
  BY <1>2 DEF IInv, TriedSound, FrontierCovers
<1>8. InOrder'
  BY <1>1, <1>2 DEF IInv, InOrder
<1>9. SearchExact'
  BY <1>2, <1>3, <1>4 DEF IInv, SearchExact
<1> QED
  BY <1>5, <1>6, <1>7, <1>8, <1>9 DEF IInv

(* Every step of the search keeps the invariant.                           *)
LEMMA NextIInv == IInv /\ [Next]_vars => IInv'
<1> SUFFICES ASSUME IInv, [Next]_vars PROVE IInv'
  OBVIOUS
<1>1. CASE Next
  <2>1. status = "searching" /\ UNCHANGED <<total, cap>>
    BY <1>1 DEF Next
  <2>2. CASE Exhaust
    BY <2>1, <2>2, EndIInv
  <2>3. CASE Pop
    <3>1. PICK e \in heap :
             /\ Least(e)
             /\ Expand(e) \/ GiveUp(e) \/ \E o \in Outcomes : Evaluate(e, o)
      BY <2>3 DEF Pop
    <3>2. CASE Expand(e)
      BY <2>1, <3>2, ExpandIInv
    <3>3. CASE GiveUp(e)
      BY <2>1, <3>3, EndIInv
    <3>4. CASE \E o \in Outcomes : Evaluate(e, o)
      BY <2>1, <3>1, <3>4, EvaluateIInv
    <3> QED
      BY <3>1, <3>2, <3>3, <3>4
  <2> QED
    BY <1>1, <2>2, <2>3 DEF Next
<1>2. CASE UNCHANGED vars
  BY <1>2 DEF vars, IInv, TypeOK, HeapSound, TriedSound, FrontierCovers,
              InOrder, SearchExact, Precedes, Priced, Less
<1> QED
  BY <1>1, <1>2

(* planner.py: whatever the analyses say and whatever the candidates cost, *)
(* the plan called optimal is the least valid one, "no valid plan" is said *)
(* of all plans, and the security-only plan is the least contained one.    *)
THEOREM SearchIsExact == Spec => []SearchExact
<1>1. IInv => SearchExact
  BY DEF IInv
<1> QED
  BY <1>1, InitIInv, NextIInv, PTL DEF Spec

(* planner.py: the plans are analysed in the order of cost and label.      *)
THEOREM SearchInOrder == Spec => []InOrder
<1>1. IInv => InOrder
  BY DEF IInv
<1> QED
  BY <1>1, InitIInv, NextIInv, PTL DEF Spec
=============================================================================
