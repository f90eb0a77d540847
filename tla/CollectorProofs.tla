-------------------------- MODULE CollectorProofs ---------------------------
(***************************************************************************)
(* Proofs about Collector and its Inventory, for every set of objects and  *)
(* of scopes and any number of changes and failed calls.  The cluster's    *)
(* log only grows, so what a scope has seen up to its resourceVersion      *)
(* never changes; everything the store holds is a function of that.        *)
(***************************************************************************)
EXTENDS Collector, FiniteSetTheorems, TLAPS

-----------------------------------------------------------------------------
(* Sets of positions.                                                      *)

(* A set of numbers has a least one, which Min finds.                      *)
LEMMA LeastIn ==
    ASSUME NEW S, S \subseteq Nat, S # {}
    PROVE  Min(S) \in S /\ \A y \in S : Min(S) <= y
<1>1. PICK x \in S : \A y \in S : ~(<<y, x>> \in OpToRel(<, Nat))
  BY NatLessThanWellFounded, WFMin
<1>2. ASSUME NEW y \in S PROVE x <= y
  <2>1. y < x => <<y, x>> \in OpToRel(<, Nat)
    BY DEF OpToRel
  <2>2. ~(y < x)
    BY <1>1, <2>1
  <2> QED
    BY <2>2
<1> QED
  BY <1>2 DEF Min

(* A set of positions of a log has a greatest one, which Max finds.        *)
LEMMA GreatestIn ==
    ASSUME NEW n \in Nat, NEW S, S \subseteq 1..n, S # {}
    PROVE  Max(S) \in S /\ \A y \in S : Max(S) >= y
<1> DEFINE T == {n - x : x \in S}
<1>0. \A x \in S : x \in Nat /\ n - x \in Nat /\ n - x \in T
  OBVIOUS
<1>1. T \subseteq Nat /\ T # {}
  BY <1>0
<1>2. Min(T) \in T /\ \A y \in T : Min(T) <= y
  BY <1>1, LeastIn
<1>3. PICK x \in S : Min(T) = n - x
  BY <1>2
<1>4. ASSUME NEW y \in S PROVE x >= y
  <2>1. n - x <= n - y
    BY <1>0, <1>2, <1>3
  <2> QED
    BY <1>0, <2>1
<1> QED
  BY <1>4 DEF Max

-----------------------------------------------------------------------------
(* What the first n changes of a log say of an object.                     *)

Past(l, o, n) == {i \in 1..n : l[i].uid = o}

Content(l, o, n) ==
    LET cs == Past(l, o, n)
    IN  IF cs = {} THEN 0 ELSE IF l[Max(cs)].type = "deleted" THEN 0 ELSE Max(cs)

(* The changes after b that gave the object a new content.                 *)
Later(l, o, b, n) == {i \in Past(l, o, n) : i > b /\ l[i].type # "deleted"}

Since(l, o, b, n) == (IF Content(l, o, b) # 0 THEN 1 ELSE 0) + Cardinality(Later(l, o, b, n))

(* The log only grows.                                                     *)
Grows(l, m) == m \in Seq(Change) /\ Len(l) <= Len(m) /\ \A i \in 1..Len(l) : m[i] = l[i]

(* An object's content is a position of the log that gave it, and nothing  *)
(* has changed it since.                                                   *)
LEMMA ContentFacts ==
    ASSUME NEW l, NEW o, NEW n \in Nat
    PROVE  /\ Content(l, o, n) \in 0..n
           /\ Content(l, o, n) # 0 =>
                /\ Content(l, o, n) \in Past(l, o, n)
                /\ l[Content(l, o, n)].type # "deleted"
                /\ \A i \in Past(l, o, n) : i <= Content(l, o, n)
<1> DEFINE cs == Past(l, o, n)
<1>1. cs \subseteq 1..n
  BY DEF Past
<1>2. cs # {} => Max(cs) \in cs /\ \A y \in cs : Max(cs) >= y
  BY <1>1, GreatestIn
<1>3. Content(l, o, n) = IF cs = {} THEN 0 ELSE IF l[Max(cs)].type = "deleted" THEN 0 ELSE Max(cs)
  BY DEF Content
<1> HIDE DEF cs
<1>4. CASE cs = {} \/ l[Max(cs)].type = "deleted"
  BY <1>3, <1>4
<1>5. CASE cs # {} /\ l[Max(cs)].type # "deleted"
  <2>1. Content(l, o, n) = Max(cs) /\ Max(cs) \in cs /\ Max(cs) \in 1..n
    BY <1>1, <1>2, <1>3, <1>5
  <2>2. \A y \in cs : y <= Max(cs)
    BY <1>1, <1>2, <2>1
  <2> QED
    BY <1>5, <2>1, <2>2 DEF cs
<1> QED
  BY <1>4, <1>5

(* The change at n decides the content at n.                               *)
LEMMA ContentChanged ==
    ASSUME NEW l, NEW o, NEW n \in Nat \ {0}, l[n].uid = o
    PROVE  Content(l, o, n) = IF l[n].type = "deleted" THEN 0 ELSE n
<1> DEFINE cs == Past(l, o, n)
<1>1. cs \subseteq 1..n /\ n \in cs /\ cs # {}
  BY DEF Past
<1>2. Max(cs) \in cs /\ \A y \in cs : Max(cs) >= y
  BY <1>1, GreatestIn
<1>3. Max(cs) = n
  BY <1>1, <1>2
<1> QED
  BY <1>1, <1>3 DEF Content

(* What has been seen does not change while the log grows.                 *)
LEMMA PastKept ==
    ASSUME NEW l \in Seq(Change), NEW m, Grows(l, m), NEW o, NEW b, NEW n \in Nat, n <= Len(l)
    PROVE  /\ Past(m, o, n) = Past(l, o, n)
           /\ Content(m, o, n) = Content(l, o, n)
           /\ Later(m, o, b, n) = Later(l, o, b, n)
<1>1. \A i \in 1..n : m[i] = l[i]
  BY DEF Grows
<1>2. Past(m, o, n) = Past(l, o, n) /\ \A i \in Past(l, o, n) : i \in 1..n
  BY <1>1 DEF Past
<1>3. Later(m, o, b, n) = Later(l, o, b, n)
  BY <1>1, <1>2 DEF Later
<1>4. Past(l, o, n) # {} => Max(Past(l, o, n)) \in 1..n
  BY <1>2, GreatestIn
<1>5. Content(m, o, n) = Content(l, o, n)
  BY <1>1, <1>2, <1>4 DEF Content
<1> QED
  BY <1>2, <1>3, <1>5

(* Nor does it while no change to the object is passed.                    *)
LEMMA PastQuiet ==
    ASSUME NEW l, NEW o, NEW b, NEW n \in Nat, NEW k \in Nat, n <= k,
           \A i \in n + 1..k : l[i].uid # o
    PROVE  /\ Past(l, o, k) = Past(l, o, n)
           /\ Content(l, o, k) = Content(l, o, n)
           /\ Later(l, o, b, k) = Later(l, o, b, n)
<1>1. \A i \in 1..k : i \in 1..n \/ i \in n + 1..k
  OBVIOUS
<1>2. 1..n \subseteq 1..k
  OBVIOUS
<1>3. Past(l, o, k) = Past(l, o, n)
  BY <1>1, <1>2 DEF Past
<1> QED
  BY <1>3 DEF Content, Later

(* The changes of an object are finitely many.                             *)
LEMMA LaterFinite ==
    ASSUME NEW l, NEW o, NEW b, NEW n \in Nat
    PROVE  /\ IsFiniteSet(Later(l, o, b, n)) /\ Cardinality(Later(l, o, b, n)) \in Nat
           /\ Later(l, o, b, n) \subseteq 1..n
<1>1. IsFiniteSet(1..n)
  BY FS_Interval
<1>2. Later(l, o, b, n) \subseteq 1..n
  BY DEF Later, Past
<1> QED
  BY <1>1, <1>2, FS_Subset, FS_CardinalityType

-----------------------------------------------------------------------------
(* What a step can do to a scope and to an object of it.                   *)

Places == {"list", "watch", "stream", "stopped"}
PodObjects == {o \in Objects : KindOf[o] = "pods"}

(* The condition of the theorem about Pods: at maxPodHistory a Pod is left *)
(* out of the history, and no gap says so.                                 *)
PodsFit == IsFiniteSet(PodObjects) /\ Cardinality(PodObjects) <= MaxPodHistory

Types ==
    /\ specs \in Configurations
    /\ log \in Seq(Change)
    /\ pc \in [specs -> Places]
    /\ rv \in [specs -> Nat] /\ base \in [specs -> Nat]
    /\ \A s \in specs : base[s] <= rv[s] /\ rv[s] <= Len(log)
    /\ \A s \in specs : pc[s] \in {"watch", "stream"} => s \in synced
    /\ synced \subseteq specs
    /\ objs \in [Objects -> Nat]
    /\ history \subseteq PodObjects
    /\ DOMAIN versions = Objects
    /\ \A o \in Objects : versions[o].rv \in Nat /\ versions[o].version \in Nat

(* Nothing about the object happens, or nothing that its scope sees.       *)
Quiet(s, o) ==
    /\ objs'[o] = objs[o] /\ versions'[o] = versions[o]
    /\ s \in synced' <=> s \in synced
    /\ base'[s] = base[s] /\ (s \in gaps => s \in gaps')
    /\ rv'[s] \in Nat /\ rv[s] <= rv'[s] /\ rv'[s] <= Len(log')
    /\ \A i \in rv[s] + 1..rv'[s] : log'[i].uid # o

(* The object is observed with a content, if that is not 0.                *)
Observed(o, content) ==
    /\ objs'[o] = content
    /\ versions'[o] = IF content # 0 /\ KindOf[o] = "secrets"
                      THEN ObservedVersion(versions[o], content) ELSE versions[o]
    /\ PodsFit /\ content # 0 /\ KindOf[o] = "pods" => o \in history'

(* The scope is listed, for the first time or again.                       *)
Lists(s, o) ==
    /\ log' = log /\ rv'[s] = Len(log) /\ s \in synced'
    /\ base'[s] = IF s \in synced THEN base[s] ELSE Len(log)
    /\ (s \in synced \/ s \in gaps) => s \in gaps'
    /\ Observed(o, Content(log, o, Len(log)))

(* Change i, the first to the object that the scope had not seen.          *)
Delivers(s, o, i) ==
    /\ log' = log /\ rv'[s] = i /\ s \in synced /\ s \in synced'
    /\ base'[s] = base[s] /\ gaps' = gaps
    /\ i \in rv[s] + 1..Len(log) /\ log[i].uid = o
    /\ \A j \in rv[s] + 1..i : j # i => log[j].uid # o
    /\ Observed(o, IF log[i].type = "deleted" THEN 0 ELSE i)

(* The loops do not share an object.                                       *)
LEMMA ScopesDisjoint ==
    ASSUME Types, NEW s \in specs, NEW t \in specs, s # t, NEW o \in ObjectsIn(s)
    PROVE  o \notin ObjectsIn(t)
BY InventoryAssumption DEF Types

(* observeLocked: versions count contents, and the history takes every Pod *)
(* while there is room.                                                    *)
LEMMA ObserveFacts ==
    ASSUME Types, NEW S \in SUBSET Objects, NEW c, Observe(S, c)
    PROVE  /\ DOMAIN versions' = Objects
           /\ \A o \in Objects :
                  versions'[o] = IF o \in S /\ KindOf[o] = "secrets"
                                 THEN ObservedVersion(versions[o], c[o]) ELSE versions[o]
           /\ history \subseteq history' /\ history' \subseteq PodObjects
           /\ PodsFit => \A o \in S : KindOf[o] = "pods" => o \in history'
<1> DEFINE new == {o \in S : KindOf[o] = "pods"} \ history
           room == MaxPodHistory - Cardinality(history)
<1>1. PICK P \in kSubset(Min({Cardinality(new), room}), new) : history' = history \cup P
  BY DEF Observe
<1>2. P \subseteq new /\ Cardinality(P) = Min({Cardinality(new), room})
  BY <1>1 DEF kSubset
<1>3. new \subseteq PodObjects /\ new \cap history = {} /\ history \subseteq PodObjects
  BY DEF PodObjects, Types
<1>4. ASSUME PodsFit, NEW o \in S, KindOf[o] = "pods" PROVE o \in history'
  <2>1. /\ IsFiniteSet(new) /\ IsFiniteSet(history) /\ IsFiniteSet(P)
        /\ IsFiniteSet(history \cup new) /\ IsFiniteSet(PodObjects)
        /\ Cardinality(history \cup new) <= Cardinality(PodObjects)
    <3> HIDE DEF new
    <3>1. history \cup new \subseteq PodObjects /\ P \subseteq PodObjects
      BY <1>2, <1>3
    <3> QED
      BY <1>3, <1>4, <3>1, FS_Subset DEF PodsFit
  <2>2. Cardinality(history \cup new) = Cardinality(history) + Cardinality(new)
    <3> HIDE DEF new
    <3>1. /\ Cardinality(history \cup new) =
               Cardinality(history) + Cardinality(new) - Cardinality(history \cap new)
      BY <2>1, FS_Union
    <3>2. history \cap new = {} /\ Cardinality({}) = 0
      BY <1>3, FS_EmptySet
    <3>3. Cardinality(history) \in Nat /\ Cardinality(new) \in Nat
      BY <2>1, FS_CardinalityType
    <3> QED
      BY <3>1, <3>2, <3>3
  <2>3. /\ Cardinality(new) \in Nat /\ Cardinality(history) \in Nat
        /\ Cardinality(PodObjects) \in Nat /\ MaxPodHistory \in Nat
        /\ Cardinality(PodObjects) <= MaxPodHistory
    BY <1>4, <2>1, FS_CardinalityType, InventoryAssumption DEF PodsFit
  <2>4. room \in Nat /\ Cardinality(new) <= room
    BY <2>1, <2>2, <2>3
  <2>5. Min({Cardinality(new), room}) = Cardinality(new)
    <3> HIDE DEF room, new
    <3>1. /\ Min({Cardinality(new), room}) \in {Cardinality(new), room}
          /\ Min({Cardinality(new), room}) <= Cardinality(new)
      BY <2>3, <2>4, LeastIn
    <3> QED
      BY <2>3, <2>4, <3>1
  <2>6. P = new
    <3> HIDE DEF room, new
    <3> QED
      BY <1>2, <2>1, <2>5, FS_Subset
  <2> QED
    BY <1>1, <1>4, <2>6
<1> QED
  BY <1>1, <1>2, <1>3, <1>4 DEF Observe

(* An observation keeps versions numbers.                                  *)
LEMMA ObservedNumbers ==
    ASSUME NEW v, v.rv \in Nat, v.version \in Nat, NEW content \in Nat
    PROVE  /\ ObservedVersion(v, content).rv = content
           /\ ObservedVersion(v, content).version =
                 IF v.rv = content THEN v.version ELSE v.version + 1
BY DEF ObservedVersion

(* What a list does to the objects of its scope.                           *)
LEMMA ListSteps ==
    ASSUME Types, NEW s \in specs, List(s)
    PROVE  /\ \A o \in ObjectsIn(s) : Lists(s, o)
           /\ \A o \in Objects \ ObjectsIn(s) : objs'[o] = objs[o] /\ versions'[o] = versions[o]
           /\ history \subseteq history' /\ history' \subseteq PodObjects
           /\ objs' \in [Objects -> Nat] /\ DOMAIN versions' = Objects
           /\ \A o \in Objects : versions'[o].rv \in Nat /\ versions'[o].version \in Nat
<1> DEFINE items == [o \in ObjectsIn(s) |-> At(o, Now)]
           S == {o \in ObjectsIn(s) : items[o] # 0}
<1>0. Len(log) \in Nat /\ ObjectsIn(s) \subseteq Objects /\ S \in SUBSET Objects
  BY DEF Types, ObjectsIn
<1>1. \A o \in ObjectsIn(s) : items[o] = Content(log, o, Len(log)) /\ items[o] \in Nat
  <2>1. \A o \in ObjectsIn(s) : items[o] = Content(log, o, Len(log))
    BY DEF At, ChangesTo, Content, Past, Now
  <2> QED
    BY <1>0, <2>1, ContentFacts
<1>2. /\ objs' = [o \in Objects |-> IF o \in ObjectsIn(s) THEN items[o] ELSE objs[o]]
      /\ Observe(S, items) /\ synced' = synced \cup {s}
      /\ rv' = [rv EXCEPT ![s] = Len(log)] /\ log' = log
      /\ base' = IF s \in synced THEN base ELSE [base EXCEPT ![s] = Len(log)]
      /\ gaps' = IF s \in synced THEN gaps \cup {s} ELSE gaps
  BY DEF List, ReplaceIn, clusterVars, Now, Gap
<1> HIDE DEF items
<1>3. /\ DOMAIN versions' = Objects
      /\ \A o \in Objects :
             versions'[o] = IF o \in S /\ KindOf[o] = "secrets"
                            THEN ObservedVersion(versions[o], items[o]) ELSE versions[o]
      /\ history \subseteq history' /\ history' \subseteq PodObjects
      /\ PodsFit => \A o \in S : KindOf[o] = "pods" => o \in history'
  BY <1>0, <1>2, ObserveFacts
<1>4. ASSUME NEW o \in ObjectsIn(s) PROVE Lists(s, o)
  <2>1. Observed(o, Content(log, o, Len(log)))
    BY <1>0, <1>1, <1>2, <1>3 DEF Observed
  <2> QED
    BY <1>2, <2>1 DEF Lists, Types
<1>5. \A o \in Objects \ ObjectsIn(s) : objs'[o] = objs[o] /\ versions'[o] = versions[o]
  BY <1>2, <1>3
<1>6. objs' \in [Objects -> Nat]
  BY <1>1, <1>2 DEF Types
<1>7. ASSUME NEW o \in Objects PROVE versions'[o].rv \in Nat /\ versions'[o].version \in Nat
  <2>1. versions[o].rv \in Nat /\ versions[o].version \in Nat
    BY DEF Types
  <2>2. CASE o \in S
    BY <1>1, <1>3, <2>1, <2>2, ObservedNumbers
  <2>3. CASE o \notin S
    BY <1>3, <2>1, <2>3
  <2> QED
    BY <2>2, <2>3
<1> QED
  BY <1>3, <1>4, <1>5, <1>6, <1>7

(* What a delivery does: it is the first change of the scope after rv, and *)
(* concerns one object of it.                                              *)
LEMMA DeliverSteps ==
    ASSUME Types, NEW s \in specs, Deliver(s)
    PROVE  /\ \E o \in ObjectsIn(s), i \in Nat :
                 /\ Delivers(s, o, i) /\ rv' = [rv EXCEPT ![s] = i]
                 /\ \A p \in ObjectsIn(s) \ {o} : \A j \in rv[s] + 1..i : log[j].uid # p
                 /\ \A p \in Objects \ {o} : objs'[p] = objs[p] /\ versions'[p] = versions[p]
           /\ history \subseteq history' /\ history' \subseteq PodObjects
           /\ objs' \in [Objects -> Nat] /\ DOMAIN versions' = Objects
           /\ \A p \in Objects : versions'[p].rv \in Nat /\ versions'[p].version \in Nat
           /\ synced' = synced /\ base' = base /\ gaps' = gaps /\ log' = log
<1> DEFINE i == Min(Pending(s))
           o == log[i].uid
<1>0. Len(log) \in Nat /\ rv[s] \in Nat /\ rv[s] <= Len(log) /\ s \in synced
  BY DEF Types, Deliver
<1>1. i \in Pending(s) /\ \A j \in Pending(s) : i <= j
  <2>1. Pending(s) \subseteq Nat /\ Pending(s) # {}
    BY <1>0 DEF Pending, Now, Deliver
  <2> QED
    BY <2>1, LeastIn
<1>2. /\ IF log[i].type = "deleted" THEN Delete(o) ELSE Upsert(o, i)
      /\ rv' = [rv EXCEPT ![s] = i]
      /\ synced' = synced /\ base' = base /\ gaps' = gaps /\ log' = log
  BY DEF Deliver, clusterVars, Delete, Upsert
<1> HIDE DEF i
<1>3. i \in rv[s] + 1..Len(log) /\ i \in Nat /\ i # 0 /\ o \in ObjectsIn(s) /\ o \in Objects
  BY <1>0, <1>1 DEF Pending, Now, ObjectsIn
<1>4. ASSUME NEW p \in ObjectsIn(s) \ {o}, NEW j \in rv[s] + 1..i PROVE log[j].uid # p
  <2>1. log[j].uid = p => j \in Pending(s)
    BY <1>0, <1>3 DEF Pending, Now
  <2>2. log[j].uid = p => j # i
    OBVIOUS
  <2> QED
    BY <1>0, <1>1, <1>3, <2>1, <2>2
<1>5. ASSUME NEW j \in rv[s] + 1..i, j # i PROVE log[j].uid # o
  <2>1. log[j].uid = o => j \in Pending(s)
    BY <1>0, <1>3 DEF Pending, Now
  <2> QED
    BY <1>0, <1>1, <1>3, <1>5, <2>1
<1> DEFINE c == IF log[i].type = "deleted" THEN 0 ELSE i
<1>6. /\ Observed(o, c)
      /\ \A p \in Objects \ {o} : objs'[p] = objs[p] /\ versions'[p] = versions[p]
      /\ history \subseteq history' /\ history' \subseteq PodObjects
      /\ objs' \in [Objects -> Nat] /\ DOMAIN versions' = Objects
  <2>1. CASE log[i].type = "deleted"
    <3>1. objs' = [objs EXCEPT ![o] = 0] /\ history' = history /\ versions' = versions
      BY <1>2, <2>1 DEF Delete
    <3> QED
      BY <1>3, <2>1, <3>1 DEF Types, Observed
  <2>2. CASE log[i].type # "deleted"
    <3>1. objs' = [objs EXCEPT ![o] = i] /\ Observe({o}, [x \in {o} |-> i])
      BY <1>2, <2>2 DEF Upsert
    <3>2. {o} \in SUBSET Objects /\ [x \in {o} |-> i][o] = i
      BY <1>3
    <3> HIDE DEF o
    <3>3. /\ DOMAIN versions' = Objects
          /\ \A p \in Objects :
                 versions'[p] = IF p \in {o} /\ KindOf[p] = "secrets"
                                THEN ObservedVersion(versions[p], [x \in {o} |-> i][p]) ELSE versions[p]
          /\ history \subseteq history' /\ history' \subseteq PodObjects
          /\ PodsFit => \A p \in {o} : KindOf[p] = "pods" => p \in history'
      BY <3>1, <3>2, ObserveFacts
    <3>4. Observed(o, i)
      BY <1>3, <3>1, <3>2, <3>3 DEF Observed, Types
    <3>5. \A p \in Objects \ {o} : objs'[p] = objs[p] /\ versions'[p] = versions[p]
      BY <3>1, <3>3 DEF Types
    <3> QED
      BY <1>3, <2>2, <3>1, <3>3, <3>4, <3>5 DEF Types
  <2> QED
    BY <2>1, <2>2
<1> HIDE DEF o
<1>7. ASSUME NEW p \in Objects PROVE versions'[p].rv \in Nat /\ versions'[p].version \in Nat
  <2>1. versions[p].rv \in Nat /\ versions[p].version \in Nat /\ c \in Nat
    BY <1>3 DEF Types
  <2>2. CASE p = o
    BY <1>6, <2>1, <2>2, ObservedNumbers DEF Observed
  <2>3. CASE p # o
    BY <1>6, <2>1, <2>3
  <2> QED
    BY <2>2, <2>3
<1>8. Delivers(s, o, i)
  <2>1. rv'[s] = i
    BY <1>2 DEF Types
  <2> QED
    BY <1>0, <1>2, <1>3, <1>5, <1>6, <2>1 DEF Delivers, o
<1> QED
  BY <1>2, <1>3, <1>4, <1>6, <1>7, <1>8

(* Every step leaves a scope and its object alone, lists or delivers.      *)
LEMMA ScopeSteps ==
    ASSUME Types, [Next]_vars, NEW s \in specs, NEW o \in ObjectsIn(s)
    PROVE  /\ Quiet(s, o) \/ Lists(s, o) \/ \E i \in Nat : Delivers(s, o, i)
           /\ Grows(log, log') /\ history \subseteq history' /\ specs' = specs
<1>0. /\ log \in Seq(Change) /\ Len(log) \in Nat /\ rv[s] \in Nat /\ rv[s] <= Len(log)
      /\ base[s] \in Nat /\ o \in Objects /\ Grows(log, log)
  BY DEF Types, ObjectsIn, Grows
<1> DEFINE Goal == /\ Quiet(s, o) \/ Lists(s, o) \/ \E i \in Nat : Delivers(s, o, i)
                   /\ Grows(log, log') /\ history \subseteq history' /\ specs' = specs
<1>1. ASSUME UNCHANGED <<storeVars, rv, base, specs>>, gaps \subseteq gaps', Grows(log, log')
      PROVE  Goal
  <2>1. rv'[s] = rv[s] /\ Len(log') \in Nat /\ rv[s] <= Len(log')
    BY <1>0, <1>1 DEF Grows
  <2>2. \A i \in rv[s] + 1..rv'[s] : FALSE
    BY <1>0, <2>1
  <2>3. Quiet(s, o)
    BY <1>0, <1>1, <2>1, <2>2 DEF Quiet, storeVars
  <2> QED
    BY <1>1, <2>3 DEF storeVars
<1>2. ASSUME NEW p \in Objects, NEW type \in {"added", "modified", "deleted"},
             ChangesWith(p, type)
      PROVE  Grows(log, log')
  <2>1. PICK c \in Change : log' = Append(log, c)
    <3>1. [uid |-> p, type |-> type] \in Change
      BY DEF Change
    <3> QED
      BY <1>2, <3>1 DEF ChangesWith
  <2> QED
    BY <1>0, <2>1 DEF Grows
<1>3. ASSUME NEW p \in Objects, Create(p) \/ ModifyOrDelete(p) \/ Exec(p) PROVE Goal
  BY <1>0, <1>1, <1>2, <1>3 DEF Create, ModifyOrDelete, Exec, inventoryVars, storeVars
<1>4. ASSUME NEW t \in specs, Loop(t) PROVE Goal
  <2>1. CASE List(t)
    <3>1. history \subseteq history' /\ log' = log /\ specs' = specs
      BY <2>1, ListSteps DEF List, clusterVars
    <3>2. CASE t = s
      BY <1>0, <2>1, <3>1, <3>2, ListSteps
    <3>3. CASE t # s
      <4>1. o \notin ObjectsIn(t)
        BY <3>3, ScopesDisjoint
      <4>2. objs'[o] = objs[o] /\ versions'[o] = versions[o]
        BY <1>0, <2>1, <4>1, ListSteps
      <4>3. /\ rv'[s] = rv[s] /\ base'[s] = base[s] /\ gaps \subseteq gaps'
            /\ synced' = synced \cup {t}
        BY <2>1, <3>3 DEF List, ReplaceIn, Gap, Types
      <4>4. \A i \in rv[s] + 1..rv'[s] : FALSE
        BY <1>0, <4>3
      <4> QED
        BY <1>0, <3>1, <3>3, <4>2, <4>3, <4>4 DEF Quiet
    <3> QED
      BY <3>2, <3>3
  <2>2. CASE Deliver(t)
    <3>1. /\ history \subseteq history' /\ log' = log /\ specs' = specs
          /\ synced' = synced /\ base' = base /\ gaps' = gaps
      BY <2>2, DeliverSteps DEF Deliver, clusterVars
    <3>2. PICK p \in ObjectsIn(t), i \in Nat :
            /\ Delivers(t, p, i) /\ rv' = [rv EXCEPT ![t] = i]
            /\ \A q \in ObjectsIn(t) \ {p} : \A j \in rv[t] + 1..i : log[j].uid # q
            /\ \A q \in Objects \ {p} : objs'[q] = objs[q] /\ versions'[q] = versions[q]
      BY <2>2, DeliverSteps
    <3>3. CASE t = s /\ p = o
      BY <1>0, <3>1, <3>2, <3>3
    <3>4. CASE t = s /\ p # o
      <4>1. /\ rv'[s] = i /\ i \in rv[s] + 1..Len(log)
            /\ \A j \in rv[s] + 1..i : log[j].uid # o
            /\ objs'[o] = objs[o] /\ versions'[o] = versions[o]
        BY <1>0, <3>2, <3>4 DEF Delivers, Types
      <4> QED
        BY <1>0, <3>1, <4>1 DEF Quiet
    <3>5. CASE t # s
      <4>1. o \notin ObjectsIn(t)
        BY <3>5, ScopesDisjoint
      <4>2. objs'[o] = objs[o] /\ versions'[o] = versions[o] /\ rv'[s] = rv[s]
        BY <1>0, <3>2, <3>5, <4>1 DEF Types
      <4>3. \A j \in rv[s] + 1..rv'[s] : FALSE
        BY <1>0, <4>2
      <4> QED
        BY <1>0, <3>1, <4>2, <4>3 DEF Quiet
    <3> QED
      BY <3>3, <3>4, <3>5
  <2>3. CASE Bookmark(t)
    <3>1. PICK n \in rv[t] + 1..Len(log) :
            /\ \A i \in Pending(t) : n < i
            /\ rv' = [rv EXCEPT ![t] = n]
      BY <2>3 DEF Bookmark, Now
    <3>2. /\ objs' = objs /\ versions' = versions /\ history' = history /\ synced' = synced
          /\ log' = log /\ specs' = specs /\ base' = base /\ gaps' = gaps
      BY <2>3 DEF Bookmark, clusterVars, storeVars
    <3>3. CASE t = s
      <4>1. ASSUME NEW i \in rv[s] + 1..n PROVE log[i].uid # o
        <5>1. log[i].uid = o => i \in Pending(s)
          BY <1>0, <3>1, <3>3 DEF Pending, Now
        <5> QED
          BY <1>0, <3>1, <3>3, <5>1
      <4>2. rv'[s] = n /\ n \in Nat /\ rv[s] <= n /\ n <= Len(log)
        BY <1>0, <3>1, <3>3 DEF Types
      <4> QED
        BY <1>0, <3>2, <4>1, <4>2 DEF Quiet
    <3>4. CASE t # s
      <4>1. rv'[s] = rv[s]
        BY <3>1, <3>4 DEF Types
      <4>2. \A j \in rv[s] + 1..rv'[s] : FALSE
        BY <1>0, <4>1
      <4> QED
        BY <1>0, <3>2, <4>1, <4>2 DEF Quiet
    <3> QED
      BY <3>3, <3>4
  <2>4. CASE ListFails(t) \/ Watch(t) \/ WatchFails(t) \/ StreamError(t) \/ StreamEnds(t) \/ LoopStops(t)
    BY <1>0, <1>1, <2>4 DEF ListFails, Watch, WatchFails, StreamError, StreamEnds, LoopStops,
       clusterVars, Gap
  <2> QED
    BY <1>4, <2>1, <2>2, <2>3, <2>4 DEF Loop
<1>5. CASE Cancel \/ WriteBundle \/ WriteBundleRaises \/ RunRaises
  BY <1>0, <1>1, <1>5 DEF Cancel, WriteBundle, WriteBundleRaises, RunRaises, inventoryVars,
     clusterVars, storeVars
<1>6. CASE UNCHANGED vars
  BY <1>0, <1>1, <1>6 DEF vars, storeVars
<1> QED
  BY <1>3, <1>4, <1>5, <1>6 DEF Next

(* Types, and what a loop's place says of its scope.                       *)
LEMMA TypesInductive ==
    ASSUME Types, [Next]_vars
    PROVE  Types'
<1>0. /\ log \in Seq(Change) /\ Len(log) \in Nat
      /\ \A s \in specs : rv[s] \in Nat /\ base[s] \in Nat
  BY DEF Types
<1>1. ASSUME UNCHANGED <<storeVars, rv, base, specs, pc>>, Grows(log, log') PROVE Types'
  <2>1. log' \in Seq(Change) /\ Len(log') \in Nat /\ Len(log) <= Len(log')
    BY <1>1 DEF Grows
  <2>2. \A s \in specs : rv[s] <= Len(log')
    BY <1>0, <2>1 DEF Types
  <2> QED
    BY <1>1, <2>1, <2>2 DEF Types, storeVars
<1>2. Grows(log, log)
  BY <1>0 DEF Grows
<1>3. ASSUME NEW p \in Objects, NEW type \in {"added", "modified", "deleted"},
             ChangesWith(p, type)
      PROVE  Grows(log, log')
  <2>1. PICK c \in Change : log' = Append(log, c)
    <3>1. [uid |-> p, type |-> type] \in Change
      BY DEF Change
    <3> QED
      BY <1>3, <3>1 DEF ChangesWith
  <2> QED
    BY <1>0, <2>1 DEF Grows
<1>4. ASSUME NEW p \in Objects, Create(p) \/ ModifyOrDelete(p) \/ Exec(p) PROVE Types'
  BY <1>1, <1>2, <1>3, <1>4 DEF Create, ModifyOrDelete, Exec, inventoryVars, storeVars
<1>5. ASSUME NEW t \in specs, Loop(t) PROVE Types'
  <2>1. CASE List(t)
    <3>1. /\ log' = log /\ specs' = specs /\ pc' = [pc EXCEPT ![t] = "watch"]
          /\ rv' = [rv EXCEPT ![t] = Len(log)] /\ synced' = synced \cup {t}
          /\ base' = IF t \in synced THEN base ELSE [base EXCEPT ![t] = Len(log)]
      BY <2>1 DEF List, clusterVars, Goto, Now, ReplaceIn
    <3>2. /\ history' \subseteq PodObjects /\ objs' \in [Objects -> Nat] /\ DOMAIN versions' = Objects
          /\ \A o \in Objects : versions'[o].rv \in Nat /\ versions'[o].version \in Nat
      BY <2>1, ListSteps
    <3>3. /\ rv' \in [specs -> Nat] /\ base' \in [specs -> Nat] /\ pc' \in [specs -> Places]
      BY <1>0, <3>1 DEF Types, Places
    <3>4. \A s \in specs : base'[s] <= rv'[s] /\ rv'[s] <= Len(log)
      BY <1>0, <3>1 DEF Types
    <3>5. \A s \in specs : pc'[s] \in {"watch", "stream"} => s \in synced'
      BY <3>1 DEF Types
    <3> QED
      BY <3>1, <3>2, <3>3, <3>4, <3>5 DEF Types
  <2>2. CASE Deliver(t)
    <3>1. /\ log' = log /\ specs' = specs /\ pc' = pc /\ synced' = synced /\ base' = base
      BY <2>2, DeliverSteps DEF Deliver, clusterVars
    <3>2. /\ history' \subseteq PodObjects /\ objs' \in [Objects -> Nat] /\ DOMAIN versions' = Objects
          /\ \A o \in Objects : versions'[o].rv \in Nat /\ versions'[o].version \in Nat
      BY <2>2, DeliverSteps
    <3>3. PICK p \in ObjectsIn(t), i \in Nat : Delivers(t, p, i) /\ rv' = [rv EXCEPT ![t] = i]
      BY <2>2, DeliverSteps
    <3>4. i \in rv[t] + 1..Len(log)
      BY <3>3 DEF Delivers
    <3>5. rv' \in [specs -> Nat] /\ \A s \in specs : base[s] <= rv'[s] /\ rv'[s] <= Len(log)
      BY <1>0, <3>3, <3>4 DEF Types
    <3> QED
      BY <3>1, <3>2, <3>5 DEF Types
  <2>3. CASE Bookmark(t)
    <3>1. PICK n \in rv[t] + 1..Len(log) : rv' = [rv EXCEPT ![t] = n]
      BY <2>3 DEF Bookmark, Now
    <3>2. rv' \in [specs -> Nat] /\ \A s \in specs : base[s] <= rv'[s] /\ rv'[s] <= Len(log)
      BY <1>0, <3>1 DEF Types
    <3>3. /\ objs' = objs /\ versions' = versions /\ history' = history /\ synced' = synced
          /\ log' = log /\ specs' = specs /\ base' = base /\ pc' = pc
      BY <2>3 DEF Bookmark, clusterVars, storeVars
    <3> QED
      BY <3>2, <3>3 DEF Types
  <2>4. CASE ListFails(t)
    BY <1>1, <1>2, <2>4 DEF ListFails
  <2>5. CASE Watch(t) \/ WatchFails(t) \/ StreamError(t) \/ StreamEnds(t) \/ LoopStops(t)
    <3>1. PICK place \in Places :
            /\ pc' = [pc EXCEPT ![t] = place] /\ log' = log
            /\ UNCHANGED <<storeVars, rv, base, specs>>
            /\ place \in {"watch", "stream"} => pc[t] \in {"watch", "stream"}
      BY <2>5 DEF Watch, WatchFails, StreamError, StreamEnds, LoopStops, Goto, clusterVars, Places
    <3>2. pc' \in [specs -> Places] /\ \A s \in specs : pc'[s] \in {"watch", "stream"} => s \in synced
      BY <3>1 DEF Types
    <3> QED
      BY <3>1, <3>2 DEF Types, storeVars
  <2> QED
    BY <1>5, <2>1, <2>2, <2>3, <2>4, <2>5 DEF Loop
<1>6. CASE Cancel \/ WriteBundle \/ WriteBundleRaises \/ RunRaises
  BY <1>1, <1>2, <1>6 DEF Cancel, WriteBundle, WriteBundleRaises, RunRaises, inventoryVars,
     clusterVars, storeVars
<1>7. CASE UNCHANGED vars
  BY <1>1, <1>2, <1>7 DEF vars, storeVars
<1> QED
  BY <1>4, <1>5, <1>6, <1>7 DEF Next

-----------------------------------------------------------------------------
(* What the store knows of an object, from what its scope has seen.        *)

(* The version of a Secret, v, after the changes b + 1..n.                 *)
Counted(l, o, b, n, v, gap) ==
    /\ v.rv <= n
    /\ Content(l, o, n) # 0 => v.rv = Content(l, o, n)
    /\ v.version <= Since(l, o, b, n)
    /\ ~gap => v.version = Since(l, o, b, n)

Seen(s, o) ==
    IF s \in synced
    THEN /\ objs[o] = Content(log, o, rv[s])
         /\ KindOf[o] = "secrets" => Counted(log, o, base[s], rv[s], versions[o], s \in gaps)
         /\ PodsFit /\ KindOf[o] = "pods" /\ s \notin gaps /\ Since(log, o, base[s], rv[s]) > 0
               => o \in history
    ELSE KindOf[o] = "secrets" => versions[o].rv = 0 /\ versions[o].version = 0

StoreInv == \A s \in specs : \A o \in ObjectsIn(s) : Seen(s, o)

(* The count of changes is a number; it does not fall as the scope reads   *)
(* on, and grows by one with each change that gives a content.             *)
LEMMA SinceFacts ==
    ASSUME NEW l, NEW o, NEW b \in Nat, NEW n \in Nat, NEW k \in Nat, b <= n, n < k, l[k].uid = o
    PROVE  /\ Since(l, o, b, n) \in Nat
           /\ l[k].type # "deleted" => Since(l, o, b, n) + 1 <= Since(l, o, b, k)
           /\ Since(l, o, b, n) <= Since(l, o, b, k)
           /\ (\A j \in n + 1..k : j # k => l[j].uid # o) =>
                 Since(l, o, b, k) = Since(l, o, b, n) + (IF l[k].type = "deleted" THEN 0 ELSE 1)
<1> DEFINE A == Later(l, o, b, n)
           B == Later(l, o, b, k)
<1>1. IsFiniteSet(A) /\ Cardinality(A) \in Nat /\ IsFiniteSet(B) /\ Cardinality(B) \in Nat
      /\ A \subseteq 1..n
  BY LaterFinite
<1>2. A \subseteq B /\ k \notin A
  BY <1>1 DEF Later, Past
<1>3. l[k].type # "deleted" => k \in B
  BY DEF Later, Past
<1>4. l[k].type = "deleted" => k \notin B
  BY DEF Later
<1>5. ASSUME \A j \in n + 1..k : j # k => l[j].uid # o PROVE B \subseteq A \cup {k}
  <2>1. \A j \in 1..k : j \in 1..n \/ j = k \/ (j \in n + 1..k /\ j # k)
    OBVIOUS
  <2> QED
    BY <1>5, <2>1 DEF Later, Past
<1>6. /\ Since(l, o, b, n) = (IF Content(l, o, b) # 0 THEN 1 ELSE 0) + Cardinality(A)
      /\ Since(l, o, b, k) = (IF Content(l, o, b) # 0 THEN 1 ELSE 0) + Cardinality(B)
  BY DEF Since
<1> HIDE DEF A, B
<1>7. Cardinality(A) <= Cardinality(B)
  BY <1>1, <1>2, FS_Subset
<1>8. IsFiniteSet(A \cup {k}) /\ Cardinality(A \cup {k}) = Cardinality(A) + 1
  BY <1>1, <1>2, FS_AddElement
<1>9. l[k].type # "deleted" => Cardinality(A) + 1 <= Cardinality(B)
  <2>1. k \in B => A \cup {k} \in SUBSET B
    BY <1>2
  <2>2. k \in B => Cardinality(A \cup {k}) <= Cardinality(B)
    BY <1>1, <2>1, FS_Subset
  <2> QED
    BY <1>3, <1>8, <2>2
<1>10. ASSUME \A j \in n + 1..k : j # k => l[j].uid # o
       PROVE  Cardinality(B) = Cardinality(A) + (IF l[k].type = "deleted" THEN 0 ELSE 1)
  <2>1. CASE l[k].type = "deleted"
    <3>1. B = A
      BY <1>2, <1>4, <1>5, <1>10, <2>1
    <3> QED
      BY <1>1, <2>1, <3>1
  <2>2. CASE l[k].type # "deleted"
    <3>1. B = A \cup {k}
      BY <1>2, <1>3, <1>5, <1>10, <2>2
    <3> QED
      BY <1>8, <2>2, <3>1
  <2> QED
    BY <2>1, <2>2
<1> QED
  BY <1>1, <1>6, <1>7, <1>9, <1>10

(* The count at the start.                                                 *)
LEMMA SinceStart ==
    ASSUME NEW l, NEW o, NEW n \in Nat
    PROVE  Since(l, o, n, n) = IF Content(l, o, n) # 0 THEN 1 ELSE 0
<1>1. Later(l, o, n, n) = {}
  BY DEF Later, Past
<1> QED
  BY <1>1, FS_EmptySet DEF Since

(* A step keeps what the store knows of the object of a scope.             *)
LEMMA SeenInductive ==
    ASSUME Types, Types', [Next]_vars, NEW s \in specs, NEW o \in ObjectsIn(s), Seen(s, o)
    PROVE  Seen(s, o)'
<1>0. /\ log \in Seq(Change) /\ Len(log) \in Nat /\ rv[s] \in Nat /\ base[s] \in Nat
      /\ base[s] <= rv[s] /\ rv[s] <= Len(log) /\ o \in Objects
      /\ versions[o].rv \in Nat /\ versions[o].version \in Nat
  BY DEF Types, ObjectsIn
<1>g. Grows(log, log') /\ history \subseteq history' /\ specs' = specs
  BY ScopeSteps
<1>1. CASE Quiet(s, o)
  <2>1. /\ Content(log', o, rv'[s]) = Content(log, o, rv[s])
        /\ Content(log', o, base[s]) = Content(log, o, base[s])
        /\ Later(log', o, base[s], rv'[s]) = Later(log, o, base[s], rv[s])
    <3>0. /\ rv'[s] \in Nat /\ rv[s] <= rv'[s] /\ base[s] <= Len(log)
          /\ \A i \in rv[s] + 1..rv'[s] : log'[i].uid # o
      BY <1>0, <1>1 DEF Quiet
    <3>1. /\ Content(log', o, rv'[s]) = Content(log', o, rv[s])
          /\ Later(log', o, base[s], rv'[s]) = Later(log', o, base[s], rv[s])
      <4>1. PICK m, n, k, b : m = log' /\ n = rv[s] /\ k = rv'[s] /\ b = base[s]
        OBVIOUS
      <4>2. n \in Nat /\ k \in Nat /\ n <= k /\ \A i \in n + 1..k : m[i].uid # o
        BY <1>0, <3>0, <4>1
      <4>3. Content(m, o, k) = Content(m, o, n) /\ Later(m, o, b, k) = Later(m, o, b, n)
        BY <4>2, PastQuiet
      <4> QED
        BY <4>1, <4>3
    <3>2. /\ Content(log', o, rv[s]) = Content(log, o, rv[s])
          /\ Later(log', o, base[s], rv[s]) = Later(log, o, base[s], rv[s])
      <4>1. PICK l, m, n, b : l = log /\ m = log' /\ n = rv[s] /\ b = base[s]
        OBVIOUS
      <4>2. l \in Seq(Change) /\ Grows(l, m) /\ n \in Nat /\ n <= Len(l)
        BY <1>0, <1>g, <4>1
      <4>3. Content(m, o, n) = Content(l, o, n) /\ Later(m, o, b, n) = Later(l, o, b, n)
        BY <4>2, PastKept
      <4> QED
        BY <4>1, <4>3
    <3>3. /\ Content(log', o, base[s]) = Content(log, o, base[s])
          /\ Later(log', o, base[s], base[s]) = Later(log, o, base[s], base[s])
      <4>1. base[s] <= Len(log)
        BY <3>0
      <4> QED
        BY <1>0, <1>g, <4>1, PastKept
    <3> QED
      BY <3>1, <3>2, <3>3
  <2>2. Since(log', o, base[s], rv'[s]) = Since(log, o, base[s], rv[s])
    BY <2>1 DEF Since
  <2>3. /\ objs'[o] = objs[o] /\ versions'[o] = versions[o] /\ base'[s] = base[s]
        /\ (s \in synced' <=> s \in synced) /\ (s \in gaps => s \in gaps')
        /\ rv'[s] \in Nat /\ rv[s] <= rv'[s]
    BY <1>1 DEF Quiet
  <2>4. CASE s \in synced
    <3>1. /\ objs[o] = Content(log, o, rv[s])
          /\ KindOf[o] = "secrets" => Counted(log, o, base[s], rv[s], versions[o], s \in gaps)
          /\ PodsFit /\ KindOf[o] = "pods" /\ s \notin gaps /\ Since(log, o, base[s], rv[s]) > 0
                => o \in history
      BY <2>4 DEF Seen
    <3>2. versions[o].rv <= rv[s] => versions[o].rv <= rv'[s]
      BY <1>0, <2>3
    <3>3. KindOf[o] = "secrets" => Counted(log', o, base'[s], rv'[s], versions'[o], s \in gaps')
      BY <2>1, <2>2, <2>3, <3>1, <3>2 DEF Counted
    <3> QED
      BY <1>g, <2>1, <2>2, <2>3, <2>4, <3>1, <3>3 DEF Seen
  <2>5. CASE s \notin synced
    BY <2>3, <2>5 DEF Seen
  <2> QED
    BY <2>4, <2>5
<1>2. CASE Lists(s, o)
  <2> DEFINE c == Content(log, o, Len(log))
  <2>1. /\ log' = log /\ rv'[s] = Len(log) /\ s \in synced'
        /\ base'[s] = (IF s \in synced THEN base[s] ELSE Len(log))
        /\ (s \in synced \/ s \in gaps) => s \in gaps'
        /\ objs'[o] = c
        /\ versions'[o] = (IF c # 0 /\ KindOf[o] = "secrets"
                           THEN ObservedVersion(versions[o], c) ELSE versions[o])
        /\ PodsFit /\ c # 0 /\ KindOf[o] = "pods" => o \in history'
    BY <1>2 DEF Lists, Observed
  <2>2. /\ c \in Nat /\ c <= Len(log)
        /\ c # 0 => /\ c \in 1..Len(log) /\ log[c].uid = o /\ log[c].type # "deleted"
                    /\ \A i \in Past(log, o, Len(log)) : i <= c
    BY <1>0, ContentFacts DEF Past
  <2>3. ASSUME s \notin synced PROVE Seen(s, o)'
    <3>1. Since(log, o, Len(log), Len(log)) = IF c # 0 THEN 1 ELSE 0
      BY <1>0, SinceStart
    <3>2. base'[s] = Len(log)
      BY <2>1, <2>3
    <3>3. ASSUME KindOf[o] = "secrets"
          PROVE  Counted(log, o, Len(log), Len(log), versions'[o], s \in gaps')
      <4>1. versions[o].rv = 0 /\ versions[o].version = 0
        BY <2>3, <3>3 DEF Seen
      <4>2. CASE c = 0
        <5>1. versions'[o].rv = 0 /\ versions'[o].version = 0
          BY <2>1, <4>1, <4>2
        <5> QED
          BY <1>0, <3>1, <4>2, <5>1 DEF Counted
      <4>3. CASE c # 0
        <5>1. versions'[o].rv = c /\ versions'[o].version = 1
          BY <2>1, <2>2, <3>3, <4>1, <4>3, ObservedNumbers
        <5> QED
          BY <1>0, <2>2, <3>1, <4>3, <5>1 DEF Counted
      <4> QED
        BY <4>2, <4>3
    <3>4. Since(log, o, Len(log), Len(log)) > 0 => c # 0
      BY <3>1
    <3> QED
      BY <2>1, <3>2, <3>3, <3>4 DEF Seen
  <2>4. ASSUME s \in synced PROVE Seen(s, o)'
    <3>1. s \in gaps' /\ base'[s] = base[s]
      BY <2>1, <2>4
    <3>2. ASSUME KindOf[o] = "secrets"
          PROVE  Counted(log, o, base[s], Len(log), versions'[o], TRUE)
      <4>1. /\ Counted(log, o, base[s], rv[s], versions[o], s \in gaps)
            /\ versions[o].rv <= rv[s] /\ versions[o].version <= Since(log, o, base[s], rv[s])
            /\ Content(log, o, rv[s]) # 0 => versions[o].rv = Content(log, o, rv[s])
        BY <2>4, <3>2 DEF Seen, Counted
      <4>2. IsFiniteSet(Later(log, o, base[s], rv[s])) /\ IsFiniteSet(Later(log, o, base[s], Len(log)))
            /\ Cardinality(Later(log, o, base[s], rv[s])) \in Nat
            /\ Cardinality(Later(log, o, base[s], Len(log))) \in Nat
        BY <1>0, LaterFinite
      <4>3. Later(log, o, base[s], rv[s]) \subseteq Later(log, o, base[s], Len(log))
        BY <1>0 DEF Later, Past
      <4>4. Cardinality(Later(log, o, base[s], rv[s])) <= Cardinality(Later(log, o, base[s], Len(log)))
        BY <4>2, <4>3, FS_Subset
      <4>5. /\ Since(log, o, base[s], rv[s]) \in Nat /\ Since(log, o, base[s], Len(log)) \in Nat
            /\ Since(log, o, base[s], rv[s]) <= Since(log, o, base[s], Len(log))
        BY <4>2, <4>4 DEF Since
      <4>6. CASE c = 0 \/ versions[o].rv = c
        <5>1. versions'[o] = versions[o]
          BY <2>1, <3>2, <4>6 DEF ObservedVersion
        <5>2. versions[o].version <= Since(log, o, base[s], Len(log)) /\ versions[o].rv <= Len(log)
          BY <1>0, <4>1, <4>5
        <5> QED
          BY <4>6, <5>1, <5>2 DEF Counted
      <4>7. CASE c # 0 /\ versions[o].rv # c
        <5>1. versions'[o].rv = c /\ versions'[o].version = versions[o].version + 1
          BY <1>0, <2>1, <2>2, <3>2, <4>7, ObservedNumbers
        <5>2. rv[s] < c
          <6>1. SUFFICES ASSUME c <= rv[s] PROVE FALSE
            BY <1>0, <2>2
          <6>2. \A i \in rv[s] + 1..Len(log) : log[i].uid # o
            <7>1. \A i \in rv[s] + 1..Len(log) : log[i].uid = o => i \in Past(log, o, Len(log))
              BY <1>0 DEF Past
            <7> QED
              BY <1>0, <2>2, <4>7, <6>1, <7>1
          <6>3. Content(log, o, rv[s]) = c
            BY <1>0, <6>2, PastQuiet
          <6> QED
            BY <4>1, <4>7, <6>3
        <5>3. /\ Since(log, o, base[s], rv[s]) + 1 <= Since(log, o, base[s], c)
              /\ Since(log, o, base[s], c) \in Nat
          <6>1. Since(log, o, base[s], rv[s]) + 1 <= Since(log, o, base[s], c)
            BY <1>0, <2>2, <4>7, <5>2, SinceFacts
          <6>2. Cardinality(Later(log, o, base[s], c)) \in Nat
            BY <1>0, <2>2, LaterFinite
          <6> QED
            BY <6>1, <6>2 DEF Since
        <5>4. Since(log, o, base[s], c) = Since(log, o, base[s], Len(log))
          <6>1. \A i \in c + 1..Len(log) : log[i].uid # o
            <7>1. \A i \in c + 1..Len(log) : log[i].uid = o => i \in Past(log, o, Len(log))
              BY <1>0, <2>2, <4>7 DEF Past
            <7> QED
              BY <1>0, <2>2, <4>7, <7>1
          <6> HIDE DEF c
          <6>2. Later(log, o, base[s], c) = Later(log, o, base[s], Len(log))
            BY <1>0, <2>2, <6>1, PastQuiet
          <6> QED
            BY <6>2 DEF Since
        <5>5. versions'[o].version <= Since(log, o, base[s], Len(log))
          BY <1>0, <4>1, <4>5, <5>1, <5>3, <5>4
        <5> QED
          BY <2>2, <5>1, <5>5 DEF Counted
      <4> QED
        BY <4>6, <4>7
    <3>3. KindOf[o] = "secrets" => Counted(log, o, base[s], Len(log), versions'[o], s \in gaps')
      BY <3>1, <3>2 DEF Counted
    <3> QED
      BY <2>1, <3>1, <3>3 DEF Seen
  <2> QED
    BY <2>3, <2>4
<1>3. ASSUME NEW i \in Nat, Delivers(s, o, i) PROVE Seen(s, o)'
  <2> DEFINE c == IF log[i].type = "deleted" THEN 0 ELSE i
  <2>1. /\ log' = log /\ rv'[s] = i /\ s \in synced /\ s \in synced'
        /\ base'[s] = base[s] /\ gaps' = gaps
        /\ i \in rv[s] + 1..Len(log) /\ log[i].uid = o
        /\ \A j \in rv[s] + 1..i : j # i => log[j].uid # o
        /\ objs'[o] = c
        /\ versions'[o] = (IF c # 0 /\ KindOf[o] = "secrets"
                           THEN ObservedVersion(versions[o], c) ELSE versions[o])
        /\ PodsFit /\ c # 0 /\ KindOf[o] = "pods" => o \in history'
    BY <1>3 DEF Delivers, Observed
  <2>2. rv[s] < i /\ i # 0
    BY <1>0, <2>1
  <2>3. Content(log, o, i) = c
    BY <2>1, <2>2, ContentChanged
  <2>4. /\ Since(log, o, base[s], rv[s]) \in Nat
        /\ Since(log, o, base[s], i) =
              Since(log, o, base[s], rv[s]) + (IF log[i].type = "deleted" THEN 0 ELSE 1)
    <3>1. /\ base[s] \in Nat /\ rv[s] \in Nat /\ base[s] <= rv[s] /\ rv[s] < i /\ log[i].uid = o
          /\ \A j \in rv[s] + 1..i : j # i => log[j].uid # o
      BY <1>0, <2>1, <2>2
    <3> HIDE DEF c
    <3>2. PICK l, b, n : l = log /\ b = base[s] /\ n = rv[s]
      OBVIOUS
    <3>3. /\ b \in Nat /\ n \in Nat /\ i \in Nat /\ b <= n /\ n < i /\ l[i].uid = o
          /\ \A j \in n + 1..i : j # i => l[j].uid # o
      BY <2>1, <3>1, <3>2
    <3>4. /\ Since(l, o, b, n) \in Nat
          /\ Since(l, o, b, i) = Since(l, o, b, n) + (IF l[i].type = "deleted" THEN 0 ELSE 1)
      BY <3>3, SinceFacts
    <3> QED
      BY <3>2, <3>4
  <2>5. /\ KindOf[o] = "secrets" => Counted(log, o, base[s], rv[s], versions[o], s \in gaps)
        /\ PodsFit /\ KindOf[o] = "pods" /\ s \notin gaps /\ Since(log, o, base[s], rv[s]) > 0
              => o \in history
    BY <2>1 DEF Seen
  <2>6. CASE log[i].type = "deleted"
    <3>1. c = 0 /\ versions'[o] = versions[o]
          /\ Since(log, o, base[s], i) = Since(log, o, base[s], rv[s])
      BY <2>1, <2>4, <2>6
    <3>2. versions[o].rv <= rv[s] => versions[o].rv <= i
      BY <1>0, <2>2
    <3>3. KindOf[o] = "secrets" => Counted(log, o, base[s], i, versions'[o], s \in gaps)
      BY <2>3, <2>5, <3>1, <3>2 DEF Counted
    <3> QED
      BY <1>g, <2>1, <2>3, <2>5, <3>1, <3>3 DEF Seen
  <2>7. CASE log[i].type # "deleted"
    <3>1. c = i /\ Since(log, o, base[s], i) = Since(log, o, base[s], rv[s]) + 1
      BY <2>4, <2>7
    <3>2. ASSUME KindOf[o] = "secrets"
          PROVE  Counted(log, o, base[s], i, versions'[o], s \in gaps)
      <4>1. /\ versions[o].rv <= rv[s] /\ versions[o].version <= Since(log, o, base[s], rv[s])
            /\ s \notin gaps => versions[o].version = Since(log, o, base[s], rv[s])
        BY <2>5, <3>2 DEF Counted
      <4>2. versions'[o].rv = i /\ versions'[o].version = versions[o].version + 1
        <5>1. versions[o].rv # i
          BY <1>0, <2>2, <4>1
        <5>2. versions'[o] = ObservedVersion(versions[o], i)
          BY <2>1, <2>2, <3>1, <3>2
        <5> QED
          BY <1>0, <5>1, <5>2, ObservedNumbers
      <4>3. versions'[o].version <= Since(log, o, base[s], i)
        BY <1>0, <2>4, <3>1, <4>1, <4>2
      <4> QED
        BY <2>3, <3>1, <4>1, <4>2, <4>3 DEF Counted
    <3> QED
      BY <2>1, <2>2, <2>3, <3>1, <3>2 DEF Seen
  <2> QED
    BY <2>6, <2>7
<1> QED
  BY <1>1, <1>2, <1>3, ScopeSteps

-----------------------------------------------------------------------------
(* The audit records.                                                      *)

(* When a Pod that a record is about was created, compared with the time   *)
(* of the record.                                                          *)
Fits(r) ==
    /\ ChangesTo(r.target, Now) # {}
    /\ r.resource = "pods" => Created(r.target) = r.at
    /\ Created(r.target) <= r.at

RequestsInv == requests \subseteq Request /\ \A r \in requests : Fits(r)

(* The creation of an object stays the first change to it.                 *)
LEMMA CreatedKept ==
    ASSUME Types, NEW m, Grows(log, m), NEW o, ChangesTo(o, Now) # {}
    PROVE  /\ Past(m, o, Len(m)) # {} /\ Created(o) \in Nat
           /\ Min(Past(m, o, Len(m))) = Created(o)
<1>0. Len(log) \in Nat /\ Len(m) \in Nat /\ Len(log) <= Len(m) /\ 1..Len(log) \subseteq 1..Len(m)
      /\ \A i \in 1..Len(log) : m[i] = log[i]
  <2>1. Len(log) \in Nat /\ Len(m) \in Nat /\ Len(log) <= Len(m)
        /\ \A i \in 1..Len(log) : m[i] = log[i]
    BY DEF Types, Grows
  <2> QED
    BY <2>1
<1> DEFINE A == ChangesTo(o, Now)
           B == Past(m, o, Len(m))
<1>1. A \subseteq B /\ A \subseteq 1..Len(log) /\ B \subseteq 1..Len(m)
      /\ \A i \in B : i \in 1..Len(log) => i \in A
  BY <1>0 DEF ChangesTo, Past, Now
<1> HIDE DEF A, B
<1>2. A # {} /\ B # {} /\ A \subseteq Nat /\ B \subseteq Nat
  BY <1>0, <1>1 DEF A
<1>3. /\ Min(A) \in A /\ \A y \in A : Min(A) <= y
      /\ Min(B) \in B /\ \A y \in B : Min(B) <= y
  BY <1>2, LeastIn
<1>4. Min(B) <= Min(A) /\ Min(A) \in Nat /\ Min(B) \in Nat /\ Min(A) <= Len(log)
  <2>1. Min(A) \in 1..Len(log) /\ Min(B) \in 1..Len(m) /\ Min(B) <= Min(A)
    BY <1>1, <1>3
  <2> QED
    BY <1>0, <2>1
<1>5. Min(B) \in A
  BY <1>0, <1>1, <1>3, <1>4
<1>6. Min(A) = Min(B)
  BY <1>3, <1>4, <1>5
<1> QED
  BY <1>2, <1>4, <1>6 DEF A, B, Created

(* A record's target was there when the record was made.                   *)
LEMMA RequestsInductive ==
    ASSUME Types, [Next]_vars, RequestsInv
    PROVE  RequestsInv'
<1>0. log \in Seq(Change) /\ Len(log) \in Nat /\ Grows(log, log)
  BY DEF Types, Grows
<1>1. ASSUME Grows(log, log'), NEW r \in requests PROVE Fits(r)'
  <2>1. Fits(r) /\ Created(r.target)' = Created(r.target) /\ ChangesTo(r.target, Now)' # {}
    <3>1. PICK o : o = r.target
      OBVIOUS
    <3>2. PICK m : m = log'
      OBVIOUS
    <3>3. ChangesTo(o, Now) # {} /\ Grows(log, m) /\ Fits(r)
      BY <1>1, <3>1, <3>2 DEF RequestsInv, Fits
    <3>4. Past(m, o, Len(m)) # {} /\ Min(Past(m, o, Len(m))) = Created(o)
      BY <3>3, CreatedKept
    <3>5. ChangesTo(o, Now)' = Past(m, o, Len(m)) /\ Created(o)' = Min(Past(m, o, Len(m)))
      BY <3>2 DEF ChangesTo, Past, Now, Created
    <3> QED
      BY <3>1, <3>3, <3>4, <3>5
  <2> QED
    BY <2>1 DEF Fits
<1>2. ASSUME Grows(log, log'), requests' = requests PROVE RequestsInv'
  BY <1>1, <1>2 DEF RequestsInv
<1>3. ASSUME NEW r \in Request, requests' = requests \cup {r}, Grows(log, log'), Fits(r)'
      PROVE  RequestsInv'
  BY <1>1, <1>3 DEF RequestsInv
<1>4. ASSUME NEW o \in Objects, NEW type \in {"added", "modified", "deleted"},
             ChangesWith(o, type)
      PROVE  Grows(log, log') /\ Len(log') = Len(log) + 1 /\ log'[Len(log) + 1].uid = o
             /\ \A i \in 1..Len(log) : log'[i] = log[i]
  <2>1. PICK c \in Change : log' = Append(log, c) /\ c.uid = o
    <3>1. [uid |-> o, type |-> type] \in Change
      BY DEF Change
    <3> QED
      BY <1>4, <3>1 DEF ChangesWith
  <2> QED
    BY <1>0, <2>1 DEF Grows
<1>5. ASSUME NEW o \in Objects, Create(o) PROVE RequestsInv'
  <2>1. ChangesWith(o, "added") /\ ChangesTo(o, Now) = {}
    BY <1>5 DEF Create, ChangesWith
  <2>2. /\ Grows(log, log') /\ Len(log') = Len(log) + 1 /\ log'[Len(log) + 1].uid = o
        /\ \A i \in 1..Len(log) : log'[i] = log[i]
    BY <1>4, <2>1
  <2>3. CASE requests' = requests
    BY <1>2, <2>2, <2>3
  <2>4. CASE Audited("pods", o, Now + 1)
    <3>0. [resource |-> "pods", target |-> o, at |-> Len(log) + 1] \in Request
      BY <1>0 DEF Request
    <3>1. PICK r \in Request :
            /\ requests' = requests \cup {r} /\ r.target = o /\ r.at = Len(log) + 1
            /\ Len(log) + 1 <= Len(log) + 1
      BY <1>0, <2>4, <3>0 DEF Audited, Now
    <3>2. ChangesTo(o, Now)' = {Len(log) + 1}
      <4>1. \A i \in 1..Len(log) : log[i].uid # o
        BY <2>1 DEF ChangesTo, Now
      <4>2. \A i \in 1..(Len(log) + 1) : i \in 1..Len(log) \/ i = Len(log) + 1
        BY <1>0
      <4>3. Len(log) + 1 \in 1..(Len(log) + 1)
        BY <1>0
      <4> QED
        BY <2>2, <4>1, <4>2, <4>3 DEF ChangesTo, Now
    <3>3. Created(o)' = Len(log) + 1
      <4>1. PICK k \in Nat : k = Len(log) + 1
        BY <1>0
      <4>2. Min({k}) = k
        BY LeastIn
      <4> QED
        BY <3>2, <4>1, <4>2 DEF Created
    <3>4. Fits(r)'
      BY <3>1, <3>2, <3>3 DEF Fits
    <3> QED
      BY <1>3, <2>2, <3>1, <3>4
  <2> QED
    BY <1>5, <2>3, <2>4 DEF Create
<1>6. ASSUME NEW o \in Objects, ModifyOrDelete(o) PROVE RequestsInv'
  BY <1>2, <1>4, <1>6 DEF ModifyOrDelete, runVars
<1>7. ASSUME NEW o \in Objects, Exec(o) PROVE RequestsInv'
  <2>0. [resource |-> "pods/exec", target |-> o, at |-> Len(log)] \in Request
    BY <1>0 DEF Request
  <2>1. PICK r \in Request :
          /\ requests' = requests \cup {r} /\ log' = log
          /\ r.target = o /\ r.at = Len(log) /\ r.resource # "pods"
    BY <1>0, <1>7, <2>0 DEF Exec, Audited, Now, inventoryVars
  <2>2. At(o, Now) # 0
    BY <1>7 DEF Exec, Live
  <2>3. ChangesTo(o, Now) # {} /\ ChangesTo(o, Now) \subseteq 1..Len(log)
    BY <2>2 DEF At, ChangesTo, Now
  <2>4. Created(o) \in ChangesTo(o, Now)
    <3>1. ChangesTo(o, Now) \subseteq Nat
      BY <2>3
    <3> QED
      BY <2>3, <3>1, LeastIn DEF Created
  <2>5. Created(o) <= Len(log)
    BY <1>0, <2>3, <2>4
  <2>6. Created(o)' = Created(o) /\ ChangesTo(o, Now)' = ChangesTo(o, Now)
    BY <2>1 DEF Created, ChangesTo, Now
  <2>7. Fits(r)'
    BY <2>1, <2>3, <2>5, <2>6 DEF Fits
  <2> QED
    BY <1>0, <1>3, <2>1, <2>7
<1>8. CASE (\E s \in specs : Loop(s) /\ UNCHANGED runVars) \/ (Cancel /\ UNCHANGED runVars)
  <2>1. log' = log /\ requests' = requests
    BY <1>8 DEF Loop, List, ListFails, Watch, WatchFails, Deliver, Bookmark, StreamError,
       StreamEnds, LoopStops, Cancel, clusterVars, runVars
  <2> QED
    BY <1>0, <1>2, <2>1
<1>9. CASE WriteBundle \/ WriteBundleRaises \/ RunRaises \/ UNCHANGED vars
  BY <1>0, <1>2, <1>9 DEF WriteBundle, WriteBundleRaises, RunRaises, inventoryVars, clusterVars, vars
<1> QED
  BY <1>5, <1>6, <1>7, <1>8, <1>9 DEF Next

(* correlate takes the target for itself, or for unknown.                  *)
LEMMA CorrelateFits ==
    ASSUME Types, RequestsInv, IsFiniteSet(history), NEW r \in requests, r.target \in history
    PROVE  Correlate(r) \in {r.target, Unknown}
<1>1. r.at \in Nat /\ Fits(r) /\ Window \in Nat
  BY CollectorAssumption DEF RequestsInv, Request
<1>2. Created(r.target) \in Nat
  <2>1. ChangesTo(r.target, Now) \subseteq Nat
    BY DEF ChangesTo
  <2> QED
    BY <1>1, <2>1, LeastIn DEF Fits, Created
<1>3. Created(r.target) <= r.at + 1 /\ (r.resource = "pods" => Created(r.target) >= r.at - Window)
  BY <1>1, <1>2 DEF Fits
<1>4. r.target \in Matches(r) /\ IsFiniteSet(Matches(r))
  <2>1. r.target \in Matches(r) /\ Matches(r) \in SUBSET history
    BY <1>3 DEF Matches
  <2> QED
    BY <2>1, FS_Subset
<1>5. ASSUME Cardinality(Matches(r)) = 1 PROVE (CHOOSE p \in Matches(r) : TRUE) = r.target
  <2>1. PICK x : Matches(r) = {x}
    BY <1>4, <1>5, FS_Singleton
  <2>2. x = r.target /\ (CHOOSE p \in Matches(r) : TRUE) \in Matches(r)
    BY <1>4, <2>1
  <2> QED
    BY <2>1, <2>2
<1> QED
  BY <1>5 DEF Correlate

-----------------------------------------------------------------------------
(* The theorems.                                                           *)

InventoryInv == Types /\ StoreInv /\ RequestsInv

(* The collector's invariant.                                              *)
THEOREM InventoryInvariant == Spec => []InventoryInv
<1>1. Init => InventoryInv
  <2> SUFFICES ASSUME Init PROVE InventoryInv
    OBVIOUS
  <2>1. <<>> \in Seq(Change) /\ Len(<<>>) = 0
    OBVIOUS
  <2>2. \A o \in Objects : versions[o].rv = 0 /\ versions[o].version = 0
    BY DEF Init, InventoryInit
  <2>3. Types
    BY <2>1, <2>2 DEF Init, InventoryInit, Types, Places
  <2>4. StoreInv
    BY <2>2 DEF Init, InventoryInit, StoreInv, Seen, ObjectsIn
  <2>5. RequestsInv
    BY DEF Init, RequestsInv
  <2> QED
    BY <2>3, <2>4, <2>5 DEF InventoryInv
<1>2. InventoryInv /\ [Next]_vars => InventoryInv'
  <2> SUFFICES ASSUME InventoryInv, [Next]_vars PROVE InventoryInv'
    OBVIOUS
  <2>1. Types /\ Types' /\ RequestsInv'
    BY TypesInductive, RequestsInductive DEF InventoryInv
  <2>2. ASSUME NEW s \in specs, NEW o \in ObjectsIn(s) PROVE Seen(s, o)'
    <3>1. Seen(s, o)
      BY DEF InventoryInv, StoreInv
    <3> QED
      BY <2>1, <3>1, SeenInductive
  <2>3. specs' = specs
    BY DEF Next, Create, ModifyOrDelete, Exec, Loop, List, ListFails, Watch, WatchFails, Deliver,
       Bookmark, StreamError, StreamEnds, LoopStops, Cancel, WriteBundle, WriteBundleRaises,
       RunRaises, inventoryVars, clusterVars, vars
  <2>4. StoreInv'
    BY <2>2, <2>3 DEF StoreInv
  <2> QED
    BY <2>1, <2>4 DEF InventoryInv
<1> QED
  BY <1>1, <1>2, PTL DEF Spec

(* Whatever the loops of the scopes do at the same time, the store holds   *)
(* for each scope the cluster as it was at the scope's resourceVersion.    *)
THEOREM StoreMirrorsPast == Spec => []MirrorsPast
<1>1. InventoryInv => MirrorsPast
  <2> SUFFICES ASSUME InventoryInv, NEW s \in synced, NEW o \in ObjectsIn(s)
               PROVE  objs[o] = At(o, rv[s])
    BY DEF MirrorsPast
  <2>1. Seen(s, o)
    BY DEF InventoryInv, Types, StoreInv
  <2> QED
    BY <2>1 DEF Seen, At, ChangesTo, Content, Past
<1> QED
  BY <1>1, InventoryInvariant, PTL

(* The count that the properties use is the one of the invariant.          *)
LEMMA SameCount ==
    ASSUME NEW s, NEW o
    PROVE  ChangesSince(o, s) = Since(log, o, base[s], rv[s])
BY DEF ChangesSince, Since, At, ChangesTo, Content, Past, Later

(* A Secret's version counts its changes: exactly, unless a gap says that  *)
(* some were missed, and never too many.                                   *)
THEOREM VersionsCount == Spec => []VersionsExact
<1>1. InventoryInv => VersionsExact
  <2> SUFFICES ASSUME InventoryInv, NEW s \in synced, NEW o \in ObjectsIn(s), KindOf[o] = "secrets"
               PROVE  /\ versions[o].version <= ChangesSince(o, s)
                      /\ s \notin BundleGaps => versions[o].version = ChangesSince(o, s)
    BY DEF VersionsExact
  <2>1. Seen(s, o)
    BY DEF InventoryInv, Types, StoreInv
  <2> QED
    BY <2>1, SameCount DEF Seen, Counted, BundleGaps
<1> QED
  BY <1>1, InventoryInvariant, PTL

(* While the history has room for every Pod, a Pod that was seen stays in  *)
(* it, and correlate never takes a record's target for another Pod.        *)
THEOREM PodsTraced ==
    ASSUME PodsFit
    PROVE  Spec => []PodsTraceable
<1>1. InventoryInv => PodsTraceable
  <2> SUFFICES ASSUME InventoryInv PROVE PodsTraceable
    OBVIOUS
  <2>1. ASSUME NEW s \in synced, NEW o \in ObjectsIn(s), KindOf[o] = "pods", s \notin BundleGaps,
               ChangesSince(o, s) > 0
        PROVE  o \in history
    <3>1. Seen(s, o)
      BY DEF InventoryInv, Types, StoreInv
    <3> QED
      BY <2>1, <3>1, SameCount DEF Seen, BundleGaps
  <2>2. IsFiniteSet(history)
    BY FS_Subset DEF InventoryInv, Types, PodsFit
  <2>3. \A r \in requests : r.target \in history => Correlate(r) \in {r.target, Unknown}
    BY <2>2, CorrelateFits DEF InventoryInv
  <2> QED
    BY <2>1, <2>3 DEF PodsTraceable
<1> QED
  BY <1>1, InventoryInvariant, PTL
=============================================================================
