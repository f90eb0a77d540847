---------------------------- MODULE ResultsProofs ---------------------------
(***************************************************************************)
(* Proofs about Results and Differential, for every cluster, remediation   *)
(* and set of initial facts.                                               *)
(*                                                                         *)
(* What the defender's actions and the controllers make of the cluster's   *)
(* own objects does not depend on the workloads that the engine or the     *)
(* reference checker lets the attacker create: two environments that       *)
(* differ in those alone are taken to two that differ in those alone.      *)
(* Two runs of an analysis, two views of the engine or the engine and a    *)
(* path of the reference checker, are held against each other through the  *)
(* chains of states, one per interval, in which the attacker has nothing   *)
(* left to derive.                                                         *)
(***************************************************************************)
EXTENDS Differential, FiniteSetTheorems, TLAPS

-----------------------------------------------------------------------------
(* Attacker workloads.                                                     *)

(* The UIDs that the engine and the reference checker make up for an       *)
(* account's pods and controllers.                                         *)
BareUid(a, uid) == \E i : uid = ModelPodUid(a, i) \/ uid = <<"ref-pod", a, i>>
DeployUid(a, uid) == \E i : uid = ModelControllerUid(a, i) \/ uid = <<"ref-deploy", a, i>>

(* The counters of the reference checker's names go with them.             *)
MadeController(uid) == uid \in {PodSeq, DeploySeq} \/ \E a : DeployUid(a, uid)

MadePod(uid) ==
    \/ \E a : BareUid(a, uid)
    \/ \E c, k : MadeController(c) /\ uid = ReplicaUid(c, k)

(* The UIDs of an input are none that are made up, and legitimate          *)
(* operations are those of the cluster's own pods.                         *)
UidsApart ==
    /\ \A i \in Inputs :
         /\ \A p \in i.inventory.pods : ~MadePod(p.uid) /\ ~MadeController(p.controller)
         /\ \A c \in i.inventory.controllers : ~MadeController(c.uid)
    /\ \A op \in LegitimateOperations : ~MadePod(op.pod)
    /\ ~MadeController(None) /\ ~MadePod(None)

(* What holds of every environment in the main phase.                      *)
Formed(e) ==
    /\ DOMAIN e = EnvFields
    /\ IsFiniteSet(e.pods) /\ IsFiniteSet(e.controllers) /\ IsFiniteSet(e.accounts)
    /\ \A u \in DOMAIN e.counter : e.counter[u] \in Int /\ e.counter[u] >= -1
    /\ \A c \in e.controllers : c.uid # None
    /\ \A p \in e.pods : IF MadePod(p.uid) THEN p.controller = None \/ MadeController(p.controller)
                         ELSE ~MadeController(p.controller)

(* Two environments with the same objects, but for attacker workloads.     *)
SameCounter(e, f, u) ==
    /\ u \in DOMAIN e.counter <=> u \in DOMAIN f.counter
    /\ u \in DOMAIN e.counter => e.counter[u] = f.counter[u]

Same(e, f) ==
    /\ e.time = f.time /\ e.accounts = f.accounts /\ e.bindings = f.bindings
    /\ e.secrets = f.secrets /\ e.services = f.services
    /\ \A p : ~MadePod(p.uid) => (p \in e.pods <=> p \in f.pods)
    /\ \A c : ~MadeController(c.uid) => (c \in e.controllers <=> c \in f.controllers)
    /\ \A u : ~MadeController(u) => SameCounter(e, f, u)

(* A replica is an attacker's exactly if its controller is.                *)
LEMMA ReplicaMade ==
    ASSUME NEW c, NEW k
    PROVE  MadePod(ReplicaUid(c, k)) <=> MadeController(c)
<1>1. ASSUME MadePod(ReplicaUid(c, k)) PROVE MadeController(c)
  <2>1. ~\E a : BareUid(a, ReplicaUid(c, k))
    BY DEF ReplicaUid, ModelPodUid, BareUid
  <2>2. PICK d, j : MadeController(d) /\ ReplicaUid(c, k) = ReplicaUid(d, j)
    BY <1>1, <2>1 DEF MadePod
  <2>3. c = d
    BY <2>2 DEF ReplicaUid
  <2> QED
    BY <2>2, <2>3
<1>2. ASSUME MadeController(c) PROVE MadePod(ReplicaUid(c, k))
  BY <1>2 DEF MadePod
<1> QED
  BY <1>1, <1>2

(* A set of numbers has a least one, which Min finds.                      *)
LEMMA MinFound ==
    ASSUME NEW S, S \subseteq Nat, S # {}
    PROVE  Min(S) \in S /\ \A y \in S : Min(S) <= y
<1>1. PICK x \in S : \A y \in S : ~(<<y, x>> \in OpToRel(<, Nat))
  BY NatLessThanWellFounded, WFMin
<1>2. \A y \in S : x <= y
  <2> SUFFICES ASSUME NEW y \in S, ~(x <= y) PROVE FALSE
    OBVIOUS
  <2>1. x \in Nat /\ y \in Nat /\ y < x
    OBVIOUS
  <2>2. <<y, x>> \in OpToRel(<, Nat)
    BY <2>1 DEF OpToRel
  <2> QED
    BY <1>1, <2>2
<1> QED
  BY <1>2 DEF Min

(* The UIDs of finitely many objects are no more than the objects.         *)
LEMMA UidsFinite ==
    ASSUME NEW S, IsFiniteSet(S)
    PROVE  /\ IsFiniteSet(UidsOf(S)) /\ Cardinality(UidsOf(S)) \in Nat /\ Cardinality(S) \in Nat
           /\ Cardinality(UidsOf(S)) <= Cardinality(S)
<1> DEFINE f == [o \in S |-> o.uid]
<1>1. f \in Surjection(S, UidsOf(S))
  BY DEF Surjection, UidsOf
<1> HIDE DEF f
<1> QED
  BY <1>1, FS_Surjection, FS_CardinalityType

(* The next replica's number is the first whose UID is free: among one     *)
(* more numbers than there are pods one is.                                *)
LEMMA NextReplicaFacts ==
    ASSUME NEW e, Formed(e), NEW c
    PROVE  /\ NextReplica(e, c) \in Nat /\ CounterOf(e, c) + 1 \in Nat
           /\ NextReplica(e, c) >= CounterOf(e, c) + 1
           /\ ReplicaUid(c.uid, NextReplica(e, c)) \notin UidsOf(e.pods)
           /\ \A k \in CounterOf(e, c) + 1..NextReplica(e, c) - 1 :
                 ReplicaUid(c.uid, k) \in UidsOf(e.pods)
<1> DEFINE k0 == CounterOf(e, c) + 1
           n == Cardinality(e.pods)
           uids == UidsOf(e.pods)
           I == k0..(k0 + n)
           free == {k \in I : ReplicaUid(c.uid, k) \notin uids}
<1>1. k0 \in Nat
  BY DEF CounterOf, Formed
<1>2. IsFiniteSet(uids) /\ Cardinality(uids) \in Nat /\ n \in Nat /\ Cardinality(uids) <= n
  BY UidsFinite DEF Formed
<1> HIDE DEF k0, n, uids
<1>3. IsFiniteSet(I) /\ Cardinality(I) = n + 1
  <2>1. PICK hi : hi = k0 + n
    OBVIOUS
  <2>2. k0 \in Int /\ hi \in Int /\ ~(k0 > hi) /\ hi - k0 + 1 = n + 1
    BY <1>1, <1>2, <2>1
  <2>3. IsFiniteSet(k0..hi) /\ Cardinality(k0..hi) = hi - k0 + 1
    BY <2>2, FS_Interval
  <2> QED
    BY <2>1, <2>2, <2>3
<1>4. free # {}
  <2> SUFFICES ASSUME free = {} PROVE FALSE
    OBVIOUS
  <2> DEFINE f == [k \in I |-> ReplicaUid(c.uid, k)]
  <2>1. f \in [I -> uids]
    OBVIOUS
  <2>2. \A j, k \in I : f[j] = f[k] => j = k
    BY DEF ReplicaUid
  <2> HIDE DEF f, I
  <2>3. Cardinality(uids) < Cardinality(I)
    BY <1>2, <1>3
  <2>4. \E j, k \in I : j # k /\ f[j] = f[k]
    BY <1>2, <1>3, <2>1, <2>3, FS_PigeonHole
  <2> QED
    BY <2>2, <2>4
<1>5. free \subseteq Nat
  BY <1>1, <1>2
<1>6. NextReplica(e, c) = Min(free)
  BY DEF NextReplica, k0, n, uids
<1>7. Min(free) \in free /\ \A y \in free : Min(free) <= y
  <2> HIDE DEF free
  <2> QED
    BY <1>4, <1>5, MinFound
<1> DEFINE m == Min(free)
<1>8. m \in Nat /\ m >= k0 /\ m <= k0 + n /\ ReplicaUid(c.uid, m) \notin uids
  <2>1. m \in free
    BY <1>7
  <2> HIDE DEF m
  <2> QED
    BY <1>1, <1>2, <2>1
<1>9. \A k \in k0..m - 1 : ReplicaUid(c.uid, k) \in uids
  <2> SUFFICES ASSUME NEW k \in k0..m - 1, ReplicaUid(c.uid, k) \notin uids PROVE FALSE
    OBVIOUS
  <2>1. \A y \in free : m <= y
    BY <1>7
  <2> HIDE DEF m
  <2>2. k \in free /\ ~(m <= k)
    BY <1>1, <1>2, <1>8
  <2> QED
    BY <2>1, <2>2
<1> HIDE DEF m, free
<1> QED
  BY <1>1, <1>6, <1>8, <1>9 DEF k0, uids, m

(* Attacker workloads take no replica's UID of another controller, so the  *)
(* next number is the same in both environments.                           *)
LEMMA NextReplicaSame ==
    ASSUME NEW e, NEW f, Formed(e), Formed(f), Same(e, f), NEW c, NEW d,
           c.uid = d.uid, ~MadeController(c.uid)
    PROVE  NextReplica(e, c) = NextReplica(f, d)
<1>1. CounterOf(e, c) = CounterOf(f, d)
  BY DEF CounterOf, Same, SameCounter
<1>2. \A k : ReplicaUid(c.uid, k) \in UidsOf(e.pods) <=> ReplicaUid(d.uid, k) \in UidsOf(f.pods)
  <2> SUFFICES ASSUME NEW k
               PROVE  ReplicaUid(c.uid, k) \in UidsOf(e.pods) <=> ReplicaUid(c.uid, k) \in UidsOf(f.pods)
    OBVIOUS
  <2>1. ~MadePod(ReplicaUid(c.uid, k))
    BY ReplicaMade
  <2> QED
    BY <2>1 DEF UidsOf, Same
<1> DEFINE m == NextReplica(e, c)
           n == NextReplica(f, d)
           k0 == CounterOf(e, c) + 1
<1>3. /\ m \in Nat /\ k0 \in Nat /\ m >= k0 /\ ReplicaUid(c.uid, m) \notin UidsOf(e.pods)
      /\ \A k \in k0..m - 1 : ReplicaUid(c.uid, k) \in UidsOf(e.pods)
  BY NextReplicaFacts
<1>4. /\ n \in Nat /\ n >= k0 /\ ReplicaUid(d.uid, n) \notin UidsOf(f.pods)
      /\ \A k \in k0..n - 1 : ReplicaUid(d.uid, k) \in UidsOf(f.pods)
  BY <1>1, NextReplicaFacts
<1> HIDE DEF m, n, k0
<1>5. ~(m < n)
  <2> SUFFICES ASSUME m < n PROVE FALSE
    OBVIOUS
  <2>1. m \in k0..n - 1
    BY <1>3, <1>4
  <2> QED
    BY <1>2, <1>3, <1>4, <2>1
<1>6. ~(n < m)
  <2> SUFFICES ASSUME n < m PROVE FALSE
    OBVIOUS
  <2>1. n \in k0..m - 1
    BY <1>3, <1>4
  <2> QED
    BY <1>2, <1>3, <1>4, <2>1
<1>7. m = n
  BY <1>3, <1>4, <1>5, <1>6
<1> QED
  BY <1>7 DEF m, n

(* A controller of the cluster is without a pod in both or in neither.     *)
LEMMA OrphansSame ==
    ASSUME NEW e, NEW f, Formed(e), Formed(f), Same(e, f), NEW c, ~MadeController(c.uid),
           c \in Orphaned(e)
    PROVE  c \in Orphaned(f)
<1>1. c \in f.controllers /\ c.uid # None
  BY DEF Orphaned, Same, Formed
<1>2. ASSUME NEW p \in f.pods PROVE p.controller # c.uid
  <2>1. CASE MadePod(p.uid)
    BY <1>1, <1>2, <2>1 DEF Formed
  <2>2. CASE ~MadePod(p.uid)
    BY <1>2, <2>2 DEF Same, Orphaned
  <2> QED
    BY <2>1, <2>2
<1> QED
  BY <1>1, <1>2 DEF Orphaned

(* What reconcile_controllers does to an environment.                      *)
LEMMA ReconcileFacts ==
    ASSUME NEW e, DOMAIN e = EnvFields
    PROVE  LET r == Reconcile(e)
           IN  /\ DOMAIN r = EnvFields
               /\ r.time = e.time /\ r.accounts = e.accounts /\ r.bindings = e.bindings
               /\ r.secrets = e.secrets /\ r.services = e.services /\ r.controllers = e.controllers
               /\ r.pods = e.pods \cup {PodOf(c, NextReplica(e, c)) : c \in Orphaned(e)}
               /\ r.counter = [uid \in DOMAIN e.counter \cup UidsOf(Orphaned(e)) |->
                                  IF \E c \in Orphaned(e) : c.uid = uid
                                  THEN NextReplica(e, CHOOSE c \in Orphaned(e) : c.uid = uid)
                                  ELSE e.counter[uid]]
BY DEF Reconcile, EnvFields

(* A controller's pod is the controller's.                                 *)
LEMMA PodOfFacts ==
    ASSUME NEW c, NEW k
    PROVE  PodOf(c, k).uid = ReplicaUid(c.uid, k) /\ PodOf(c, k).controller = c.uid
BY DEF PodOf

(* Reconciliation leaves every controller with a pod.                      *)
LEMMA ReconcileForms ==
    ASSUME NEW e, Formed(e)
    PROVE  Formed(Reconcile(e)) /\ Orphaned(Reconcile(e)) = {}
<1> DEFINE r == Reconcile(e)
           new == {PodOf(c, NextReplica(e, c)) : c \in Orphaned(e)}
<1>0. DOMAIN e = EnvFields
  BY DEF Formed
<1>1. /\ DOMAIN r = EnvFields /\ r.accounts = e.accounts /\ r.controllers = e.controllers
      /\ r.pods = e.pods \cup new
      /\ r.counter = [uid \in DOMAIN e.counter \cup UidsOf(Orphaned(e)) |->
                         IF \E c \in Orphaned(e) : c.uid = uid
                         THEN NextReplica(e, CHOOSE c \in Orphaned(e) : c.uid = uid)
                         ELSE e.counter[uid]]
  BY <1>0, ReconcileFacts
<1>2. IsFiniteSet(new)
  <2> DEFINE f == [c \in Orphaned(e) |-> PodOf(c, NextReplica(e, c))]
  <2>1. Orphaned(e) \subseteq e.controllers
    BY DEF Orphaned
  <2>2. IsFiniteSet(Orphaned(e))
    BY <2>1, FS_Subset DEF Formed
  <2>3. f \in Surjection(Orphaned(e), new)
    BY DEF Surjection
  <2> HIDE DEF f, new
  <2> QED
    BY <2>2, <2>3, FS_Surjection
<1>3. \A p \in new : \E c \in Orphaned(e) : p.controller = c.uid /\ (MadePod(p.uid) <=> MadeController(c.uid))
  BY PodOfFacts, ReplicaMade
<1>4. \A c \in Orphaned(e) : \E p \in new : p.controller = c.uid
  BY PodOfFacts
<1>5. \A u \in DOMAIN r.counter : r.counter[u] \in Int /\ r.counter[u] >= -1
  <2> SUFFICES ASSUME NEW u \in DOMAIN r.counter PROVE r.counter[u] \in Int /\ r.counter[u] >= -1
    OBVIOUS
  <2>1. CASE \E c \in Orphaned(e) : c.uid = u
    <3>1. PICK n : n = NextReplica(e, CHOOSE c \in Orphaned(e) : c.uid = u)
      OBVIOUS
    <3>2. n \in Nat
      BY <3>1, NextReplicaFacts
    <3>3. r.counter[u] = n
      BY <1>1, <2>1, <3>1
    <3> QED
      BY <3>2, <3>3
  <2>2. CASE ~\E c \in Orphaned(e) : c.uid = u
    <3>1. u \in DOMAIN e.counter /\ r.counter[u] = e.counter[u]
      BY <1>1, <2>2 DEF UidsOf
    <3> QED
      BY <3>1 DEF Formed
  <2> QED
    BY <2>1, <2>2
<1> HIDE DEF r, new
<1>6. IsFiniteSet(r.pods)
  <2>1. IsFiniteSet(e.pods)
    BY DEF Formed
  <2>2. IsFiniteSet(e.pods \cup new)
    BY <1>2, <2>1, FS_Union
  <2> QED
    BY <1>1, <2>2
<1>7. \A c \in Orphaned(e) : c \in e.controllers
  BY DEF Orphaned
<1>8. \A p \in r.pods : IF MadePod(p.uid) THEN p.controller = None \/ MadeController(p.controller)
                          ELSE ~MadeController(p.controller)
  BY <1>1, <1>3 DEF Formed
<1>9. Formed(r)
  BY <1>1, <1>5, <1>6, <1>8 DEF Formed
<1>10. Orphaned(r) = {}
  BY <1>1, <1>4 DEF Orphaned
<1> QED
  BY <1>9, <1>10 DEF r

-----------------------------------------------------------------------------
(* Reconciliation makes nothing else of two such environments.             *)

LEMMA SameSymmetric ==
    ASSUME NEW e, NEW f, Same(e, f)
    PROVE  Same(f, e)
BY DEF Same, SameCounter

LEMMA SameTransitive ==
    ASSUME NEW e, NEW f, NEW g, Same(e, f), Same(f, g)
    PROVE  Same(e, g)
<1>1. \A u : ~MadeController(u) => SameCounter(e, g, u)
  BY DEF Same, SameCounter
<1> QED
  BY <1>1 DEF Same

(* What the one has after a reconciliation, the other has too.             *)
LEMMA ReconcileCarries ==
    ASSUME NEW e, NEW f, Formed(e), Formed(f), Same(e, f)
    PROVE  /\ \A p \in Reconcile(e).pods : ~MadePod(p.uid) => p \in Reconcile(f).pods
           /\ \A u \in DOMAIN Reconcile(e).counter :
                 ~MadeController(u) => /\ u \in DOMAIN Reconcile(f).counter
                                       /\ Reconcile(f).counter[u] = Reconcile(e).counter[u]
<1>0. DOMAIN e = EnvFields /\ DOMAIN f = EnvFields
  BY DEF Formed
<1>1. PICK q, r : q = Reconcile(e) /\ r = Reconcile(f)
  OBVIOUS
<1>2. /\ q.pods = e.pods \cup {PodOf(c, NextReplica(e, c)) : c \in Orphaned(e)}
      /\ q.counter = [uid \in DOMAIN e.counter \cup UidsOf(Orphaned(e)) |->
                         IF \E c \in Orphaned(e) : c.uid = uid
                         THEN NextReplica(e, CHOOSE c \in Orphaned(e) : c.uid = uid)
                         ELSE e.counter[uid]]
  BY <1>0, <1>1, ReconcileFacts
<1>3. /\ r.pods = f.pods \cup {PodOf(c, NextReplica(f, c)) : c \in Orphaned(f)}
      /\ r.counter = [uid \in DOMAIN f.counter \cup UidsOf(Orphaned(f)) |->
                         IF \E c \in Orphaned(f) : c.uid = uid
                         THEN NextReplica(f, CHOOSE c \in Orphaned(f) : c.uid = uid)
                         ELSE f.counter[uid]]
  BY <1>0, <1>1, ReconcileFacts
<1>4. ASSUME NEW p \in q.pods, ~MadePod(p.uid) PROVE p \in r.pods
  <2>1. CASE p \in e.pods
    BY <1>3, <1>4, <2>1 DEF Same
  <2>2. CASE p \notin e.pods
    <3>1. PICK c \in Orphaned(e) : p = PodOf(c, NextReplica(e, c))
      BY <1>2, <1>4, <2>2
    <3>2. ~MadeController(c.uid)
      BY <1>4, <3>1, PodOfFacts, ReplicaMade
    <3>3. c \in Orphaned(f)
      BY <3>1, <3>2, OrphansSame
    <3>4. NextReplica(e, c) = NextReplica(f, c)
      BY <3>2, NextReplicaSame
    <3> QED
      BY <1>3, <3>1, <3>3, <3>4
  <2> QED
    BY <2>1, <2>2
<1>5. ASSUME NEW u \in DOMAIN q.counter, ~MadeController(u)
      PROVE  u \in DOMAIN r.counter /\ r.counter[u] = q.counter[u]
  <2>1. ASSUME NEW c \in Orphaned(e), c.uid = u PROVE c \in Orphaned(f)
    BY <1>5, <2>1, OrphansSame
  <2>2. ASSUME NEW c \in Orphaned(f), c.uid = u PROVE c \in Orphaned(e)
    BY <1>5, <2>2, OrphansSame, SameSymmetric
  <2>3. CASE \E c \in Orphaned(e) : c.uid = u
    <3>1. PICK c : c = CHOOSE x \in Orphaned(e) : x.uid = u
      OBVIOUS
    <3>2. PICK d : d = CHOOSE x \in Orphaned(f) : x.uid = u
      OBVIOUS
    <3>3. c \in Orphaned(e) /\ c.uid = u
      BY <2>3, <3>1
    <3>4. \E x \in Orphaned(f) : x.uid = u
      BY <2>1, <2>3
    <3>5. d \in Orphaned(f) /\ d.uid = u
      BY <3>2, <3>4
    <3>6. NextReplica(e, c) = NextReplica(f, d)
      BY <1>5, <3>3, <3>5, NextReplicaSame
    <3>7. q.counter[u] = NextReplica(e, c)
      BY <1>2, <1>5, <2>3, <3>1
    <3>8. u \in UidsOf(Orphaned(f))
      BY <3>5 DEF UidsOf
    <3>9. u \in DOMAIN r.counter /\ r.counter[u] = NextReplica(f, d)
      BY <1>3, <3>2, <3>4, <3>8
    <3> QED
      BY <3>6, <3>7, <3>9
  <2>4. CASE ~\E c \in Orphaned(e) : c.uid = u
    <3>1. ~\E c \in Orphaned(f) : c.uid = u
      BY <2>2, <2>4
    <3>2. u \in DOMAIN e.counter
      BY <1>2, <1>5, <2>4 DEF UidsOf
    <3>3. u \in DOMAIN f.counter /\ f.counter[u] = e.counter[u]
      BY <1>5, <3>2 DEF Same, SameCounter
    <3>4. q.counter[u] = e.counter[u]
      BY <1>2, <2>4, <3>2
    <3>5. u \in DOMAIN r.counter /\ r.counter[u] = f.counter[u]
      BY <1>3, <3>1, <3>3
    <3> QED
      BY <3>3, <3>4, <3>5
  <2> QED
    BY <2>3, <2>4
<1> QED
  BY <1>1, <1>4, <1>5

LEMMA ReconcileSame ==
    ASSUME NEW e, NEW f, Formed(e), Formed(f), Same(e, f)
    PROVE  Same(Reconcile(e), Reconcile(f))
<1>0. DOMAIN e = EnvFields /\ DOMAIN f = EnvFields
  BY DEF Formed
<1>1. PICK q, r : q = Reconcile(e) /\ r = Reconcile(f)
  OBVIOUS
<1>2. /\ q.time = e.time /\ q.accounts = e.accounts /\ q.bindings = e.bindings
      /\ q.secrets = e.secrets /\ q.services = e.services /\ q.controllers = e.controllers
  BY <1>0, <1>1, ReconcileFacts
<1>3. /\ r.time = f.time /\ r.accounts = f.accounts /\ r.bindings = f.bindings
      /\ r.secrets = f.secrets /\ r.services = f.services /\ r.controllers = f.controllers
  BY <1>0, <1>1, ReconcileFacts
<1>4. /\ \A p \in q.pods : ~MadePod(p.uid) => p \in r.pods
      /\ \A u \in DOMAIN q.counter :
            ~MadeController(u) => u \in DOMAIN r.counter /\ r.counter[u] = q.counter[u]
  BY <1>1, ReconcileCarries
<1>5. /\ \A p \in r.pods : ~MadePod(p.uid) => p \in q.pods
      /\ \A u \in DOMAIN r.counter :
            ~MadeController(u) => u \in DOMAIN q.counter /\ q.counter[u] = r.counter[u]
  BY <1>1, ReconcileCarries, SameSymmetric
<1>6. \A u : ~MadeController(u) => SameCounter(q, r, u)
  BY <1>4, <1>5 DEF SameCounter
<1>7. \A p : ~MadePod(p.uid) => (p \in q.pods <=> p \in r.pods)
  BY <1>4, <1>5
<1>8. Same(q, r)
  BY <1>2, <1>3, <1>6, <1>7 DEF Same
<1> QED
  BY <1>1, <1>8

(* Where every controller of the cluster has a pod, it only gives pods to  *)
(* the attacker's.                                                         *)
LEMMA ReconcileQuiet ==
    ASSUME NEW e, Formed(e), \A c \in Orphaned(e) : MadeController(c.uid)
    PROVE  Same(Reconcile(e), e)
<1>0. DOMAIN e = EnvFields
  BY DEF Formed
<1>1. PICK q : q = Reconcile(e)
  OBVIOUS
<1>2. /\ q.time = e.time /\ q.accounts = e.accounts /\ q.bindings = e.bindings
      /\ q.secrets = e.secrets /\ q.services = e.services /\ q.controllers = e.controllers
      /\ q.pods = e.pods \cup {PodOf(c, NextReplica(e, c)) : c \in Orphaned(e)}
      /\ q.counter = [uid \in DOMAIN e.counter \cup UidsOf(Orphaned(e)) |->
                         IF \E c \in Orphaned(e) : c.uid = uid
                         THEN NextReplica(e, CHOOSE c \in Orphaned(e) : c.uid = uid)
                         ELSE e.counter[uid]]
  BY <1>0, <1>1, ReconcileFacts
<1>3. \A c \in Orphaned(e) : MadePod(PodOf(c, NextReplica(e, c)).uid)
  BY PodOfFacts, ReplicaMade
<1>4. \A p : ~MadePod(p.uid) => (p \in q.pods <=> p \in e.pods)
  BY <1>2, <1>3
<1>5. ASSUME NEW u, ~MadeController(u) PROVE SameCounter(q, e, u)
  <2>1. ~\E c \in Orphaned(e) : c.uid = u
    BY <1>5
  <2>2. u \notin UidsOf(Orphaned(e))
    BY <2>1 DEF UidsOf
  <2> QED
    BY <1>2, <2>1, <2>2 DEF SameCounter
<1>6. Same(q, e)
  BY <1>2, <1>4, <1>5 DEF Same
<1> QED
  BY <1>1, <1>6

-----------------------------------------------------------------------------
(* Defender actions.                                                       *)

LEMMA ApplyCases ==
    ASSUME NEW e, NEW a
    PROVE  LET r == ApplyDefenderAction(e, a)
           IN  /\ a.kind = "remove_binding" => r = RemoveBinding(e, a)
               /\ a.kind = "delete_pod" => r = DeletePods(e, {a.uid})
               /\ a.kind = "delete_controller" => r = DeleteControllers(e, {a.uid})
               /\ a.kind = "delete_pods_except" => r = DeletePods(e, Selected(e.pods, a))
               /\ a.kind = "delete_controllers_except" =>
                     r = DeleteControllers(e, Selected(e.controllers, a))
               /\ a.kind = "delete_service_account" => r = DeleteServiceAccount(e, a)
               /\ a.kind = "rotate_downstream_credential" => r = Rotate(e, a)
               /\ a.kind = "wait" => r = [e EXCEPT !.time = @ + a.seconds]
BY DEF ApplyDefenderAction

(* They take workloads and accounts away, and add none.                    *)
Narrows(r, e) ==
    /\ DOMAIN r = EnvFields
    /\ r.pods \subseteq e.pods /\ r.controllers \subseteq e.controllers
    /\ r.accounts \subseteq e.accounts /\ r.counter = e.counter

LEMMA ApplyNarrows ==
    ASSUME NEW e, NEW a, DOMAIN e = EnvFields, a.kind \in ActionKinds
    PROVE  Narrows(ApplyDefenderAction(e, a), e)
<1>0. PICK r : r = ApplyDefenderAction(e, a)
  OBVIOUS
<1> SUFFICES Narrows(r, e)
  BY <1>0
<1>1. CASE a.kind = "remove_binding"
  <2>1. r = RemoveBinding(e, a)
    BY <1>0, <1>1, ApplyCases
  <2> QED
    BY <2>1 DEF Narrows, EnvFields, RemoveBinding
<1>2. CASE a.kind = "delete_pod"
  <2>1. r = DeletePods(e, {a.uid})
    BY <1>0, <1>2, ApplyCases
  <2> QED
    BY <2>1 DEF Narrows, EnvFields, DeletePods
<1>3. CASE a.kind = "delete_controller"
  <2>1. r = DeleteControllers(e, {a.uid})
    BY <1>0, <1>3, ApplyCases
  <2> QED
    BY <2>1 DEF Narrows, EnvFields, DeleteControllers
<1>4. CASE a.kind = "delete_pods_except"
  <2>1. r = DeletePods(e, Selected(e.pods, a))
    BY <1>0, <1>4, ApplyCases
  <2> QED
    BY <2>1 DEF Narrows, EnvFields, DeletePods
<1>5. CASE a.kind = "delete_controllers_except"
  <2>1. r = DeleteControllers(e, Selected(e.controllers, a))
    BY <1>0, <1>5, ApplyCases
  <2> QED
    BY <2>1 DEF Narrows, EnvFields, DeleteControllers
<1>6. CASE a.kind = "delete_service_account"
  <2>1. r = DeleteServiceAccount(e, a)
    BY <1>0, <1>6, ApplyCases
  <2> QED
    BY <2>1 DEF Narrows, EnvFields, DeleteServiceAccount
<1>7. CASE a.kind = "rotate_downstream_credential"
  <2>1. r = Rotate(e, a)
    BY <1>0, <1>7, ApplyCases
  <2> QED
    BY <2>1 DEF Narrows, EnvFields, Rotate
<1>8. CASE a.kind = "wait"
  <2>1. r = [e EXCEPT !.time = @ + a.seconds]
    BY <1>0, <1>8, ApplyCases
  <2> QED
    BY <2>1 DEF Narrows, EnvFields
<1> QED
  BY <1>1, <1>2, <1>3, <1>4, <1>5, <1>6, <1>7, <1>8 DEF ActionKinds

LEMMA NarrowsForms ==
    ASSUME NEW e, NEW r, Formed(e), Narrows(r, e)
    PROVE  Formed(r)
<1>1. IsFiniteSet(e.pods) /\ IsFiniteSet(e.controllers) /\ IsFiniteSet(e.accounts)
  BY DEF Formed
<1>2. r.pods \subseteq e.pods /\ r.controllers \subseteq e.controllers /\ r.accounts \subseteq e.accounts
  BY DEF Narrows
<1>3. IsFiniteSet(r.pods) /\ IsFiniteSet(r.controllers) /\ IsFiniteSet(r.accounts)
  BY <1>1, <1>2, FS_Subset
<1> QED
  BY <1>2, <1>3 DEF Formed, Narrows

(* The cluster's own objects that an ..._except action selects.            *)
LEMMA SelectedPodsSame ==
    ASSUME NEW e, NEW f, Same(e, f), NEW a, NEW u, ~MadePod(u)
    PROVE  u \in Selected(e.pods, a) <=> u \in Selected(f.pods, a)
BY DEF Selected, UidsOf, Same

LEMMA SelectedControllersSame ==
    ASSUME NEW e, NEW f, Same(e, f), NEW a, NEW u, ~MadeController(u)
    PROVE  u \in Selected(e.controllers, a) <=> u \in Selected(f.controllers, a)
BY DEF Selected, UidsOf, Same

LEMMA DeletePodsSame ==
    ASSUME NEW e, NEW f, Formed(e), Formed(f), Same(e, f), NEW U, NEW V,
           \A u : ~MadePod(u) => (u \in U <=> u \in V)
    PROVE  Same(DeletePods(e, U), DeletePods(f, V))
<1>1. PICK q, r : q = DeletePods(e, U) /\ r = DeletePods(f, V)
  OBVIOUS
<1>2. /\ q.time = e.time /\ q.accounts = e.accounts /\ q.bindings = e.bindings
      /\ q.secrets = e.secrets /\ q.services = e.services /\ q.controllers = e.controllers
      /\ q.counter = e.counter /\ q.pods = {p \in e.pods : p.uid \notin U}
  BY <1>1 DEF DeletePods, Formed, EnvFields
<1>3. /\ r.time = f.time /\ r.accounts = f.accounts /\ r.bindings = f.bindings
      /\ r.secrets = f.secrets /\ r.services = f.services /\ r.controllers = f.controllers
      /\ r.counter = f.counter /\ r.pods = {p \in f.pods : p.uid \notin V}
  BY <1>1 DEF DeletePods, Formed, EnvFields
<1>4. \A p : ~MadePod(p.uid) => (p \in q.pods <=> p \in r.pods)
  BY <1>2, <1>3 DEF Same
<1>5. \A u : ~MadeController(u) => SameCounter(q, r, u)
  BY <1>2, <1>3 DEF Same, SameCounter
<1>6. Same(q, r)
  BY <1>2, <1>3, <1>4, <1>5 DEF Same
<1> QED
  BY <1>1, <1>6

LEMMA DeleteControllersSame ==
    ASSUME NEW e, NEW f, Formed(e), Formed(f), Same(e, f), NEW U, NEW V,
           \A u : ~MadeController(u) => (u \in U <=> u \in V)
    PROVE  Same(DeleteControllers(e, U), DeleteControllers(f, V))
<1>1. PICK q, r : q = DeleteControllers(e, U) /\ r = DeleteControllers(f, V)
  OBVIOUS
<1>2. /\ q.time = e.time /\ q.accounts = e.accounts /\ q.bindings = e.bindings
      /\ q.secrets = e.secrets /\ q.services = e.services
      /\ q.controllers = {c \in e.controllers : c.uid \notin U}
      /\ q.counter = e.counter /\ q.pods = {p \in e.pods : p.controller \notin U}
  BY <1>1 DEF DeleteControllers, Formed, EnvFields
<1>3. /\ r.time = f.time /\ r.accounts = f.accounts /\ r.bindings = f.bindings
      /\ r.secrets = f.secrets /\ r.services = f.services
      /\ r.controllers = {c \in f.controllers : c.uid \notin V}
      /\ r.counter = f.counter /\ r.pods = {p \in f.pods : p.controller \notin V}
  BY <1>1 DEF DeleteControllers, Formed, EnvFields
<1>4. /\ \A p \in e.pods : ~MadePod(p.uid) => ~MadeController(p.controller)
      /\ \A p \in f.pods : ~MadePod(p.uid) => ~MadeController(p.controller)
  BY DEF Formed
<1>5. \A p : ~MadePod(p.uid) => (p \in q.pods <=> p \in r.pods)
  BY <1>2, <1>3, <1>4 DEF Same
<1>6. \A c : ~MadeController(c.uid) => (c \in q.controllers <=> c \in r.controllers)
  BY <1>2, <1>3 DEF Same
<1>7. \A u : ~MadeController(u) => SameCounter(q, r, u)
  BY <1>2, <1>3 DEF Same, SameCounter
<1>8. Same(q, r)
  BY <1>2, <1>3, <1>5, <1>6, <1>7 DEF Same
<1> QED
  BY <1>1, <1>8

(* The actions that leave the workloads alone see none of them.            *)
LEMMA WorkloadsAside ==
    ASSUME NEW e, NEW f, Same(e, f), NEW q, NEW r,
           q.pods = e.pods, q.controllers = e.controllers, q.counter = e.counter,
           r.pods = f.pods, r.controllers = f.controllers, r.counter = f.counter,
           q.time = r.time, q.accounts = r.accounts, q.bindings = r.bindings,
           q.secrets = r.secrets, q.services = r.services
    PROVE  Same(q, r)
<1>1. \A u : ~MadeController(u) => SameCounter(q, r, u)
  BY DEF Same, SameCounter
<1> QED
  BY <1>1 DEF Same

LEMMA RotateSame ==
    ASSUME NEW e, NEW f, Formed(e), Formed(f), Same(e, f), NEW a
    PROVE  Same(Rotate(e, a), Rotate(f, a))
<1>1. PICK q, r : q = Rotate(e, a) /\ r = Rotate(f, a)
  OBVIOUS
<1>2. /\ q.time = e.time /\ q.accounts = e.accounts /\ q.bindings = e.bindings
      /\ q.pods = e.pods /\ q.controllers = e.controllers /\ q.counter = e.counter
  BY <1>1 DEF Rotate, Formed, EnvFields
<1>3. /\ r.time = f.time /\ r.accounts = f.accounts /\ r.bindings = f.bindings
      /\ r.pods = f.pods /\ r.controllers = f.controllers /\ r.counter = f.counter
  BY <1>1 DEF Rotate, Formed, EnvFields
<1>4. e.time = f.time /\ e.accounts = f.accounts /\ e.bindings = f.bindings
      /\ e.secrets = f.secrets /\ e.services = f.services
  BY DEF Same
<1>5. \A s : RotatedVersion(e, s) = RotatedVersion(f, s)
  BY <1>4 DEF RotatedVersion
<1>6. q.secrets = r.secrets /\ q.services = r.services
  BY <1>1, <1>4, <1>5 DEF Rotate, Formed, EnvFields
<1>7. Same(q, r)
  BY <1>2, <1>3, <1>4, <1>6, WorkloadsAside
<1> QED
  BY <1>1, <1>7

LEMMA ApplySame ==
    ASSUME NEW e, NEW f, Formed(e), Formed(f), Same(e, f), NEW a, a.kind \in ActionKinds
    PROVE  Same(ApplyDefenderAction(e, a), ApplyDefenderAction(f, a))
<1>0. PICK q, r : q = ApplyDefenderAction(e, a) /\ r = ApplyDefenderAction(f, a)
  OBVIOUS
<1> SUFFICES Same(q, r)
  BY <1>0
<1>00. DOMAIN e = EnvFields /\ DOMAIN f = EnvFields
  BY DEF Formed
<1>01. /\ e.time = f.time /\ e.accounts = f.accounts /\ e.bindings = f.bindings
       /\ e.secrets = f.secrets /\ e.services = f.services
  BY DEF Same
<1>1. CASE a.kind = "remove_binding"
  <2>1. q = RemoveBinding(e, a) /\ r = RemoveBinding(f, a)
    BY <1>0, <1>1, ApplyCases
  <2>2. /\ q.pods = e.pods /\ q.controllers = e.controllers /\ q.counter = e.counter
        /\ r.pods = f.pods /\ r.controllers = f.controllers /\ r.counter = f.counter
    BY <1>00, <2>1 DEF RemoveBinding, EnvFields
  <2>3. /\ q.time = r.time /\ q.accounts = r.accounts /\ q.bindings = r.bindings
        /\ q.secrets = r.secrets /\ q.services = r.services
    BY <1>00, <1>01, <2>1 DEF RemoveBinding, EnvFields
  <2> QED
    BY <2>2, <2>3, WorkloadsAside
<1>2. CASE a.kind = "delete_pod"
  <2>1. PICK U : U = {a.uid}
    OBVIOUS
  <2>2. q = DeletePods(e, U) /\ r = DeletePods(f, U)
    BY <1>0, <1>2, <2>1, ApplyCases
  <2> QED
    BY <2>2, DeletePodsSame
<1>3. CASE a.kind = "delete_controller"
  <2>1. PICK U : U = {a.uid}
    OBVIOUS
  <2>2. q = DeleteControllers(e, U) /\ r = DeleteControllers(f, U)
    BY <1>0, <1>3, <2>1, ApplyCases
  <2> QED
    BY <2>2, DeleteControllersSame
<1>4. CASE a.kind = "delete_pods_except"
  <2>1. PICK U, V : U = Selected(e.pods, a) /\ V = Selected(f.pods, a)
    OBVIOUS
  <2>2. \A u : ~MadePod(u) => (u \in U <=> u \in V)
    BY <2>1, SelectedPodsSame
  <2>3. q = DeletePods(e, U) /\ r = DeletePods(f, V)
    BY <1>0, <1>4, <2>1, ApplyCases
  <2> QED
    BY <2>2, <2>3, DeletePodsSame
<1>5. CASE a.kind = "delete_controllers_except"
  <2>1. PICK U, V : U = Selected(e.controllers, a) /\ V = Selected(f.controllers, a)
    OBVIOUS
  <2>2. \A u : ~MadeController(u) => (u \in U <=> u \in V)
    BY <2>1, SelectedControllersSame
  <2>3. q = DeleteControllers(e, U) /\ r = DeleteControllers(f, V)
    BY <1>0, <1>5, <2>1, ApplyCases
  <2> QED
    BY <2>2, <2>3, DeleteControllersSame
<1>6. CASE a.kind = "delete_service_account"
  <2>1. q = DeleteServiceAccount(e, a) /\ r = DeleteServiceAccount(f, a)
    BY <1>0, <1>6, ApplyCases
  <2>2. /\ q.pods = e.pods /\ q.controllers = e.controllers /\ q.counter = e.counter
        /\ r.pods = f.pods /\ r.controllers = f.controllers /\ r.counter = f.counter
    BY <1>00, <2>1 DEF DeleteServiceAccount, EnvFields
  <2>3. /\ q.time = r.time /\ q.accounts = r.accounts /\ q.bindings = r.bindings
        /\ q.secrets = r.secrets /\ q.services = r.services
    BY <1>00, <1>01, <2>1 DEF DeleteServiceAccount, EnvFields
  <2> QED
    BY <2>2, <2>3, WorkloadsAside
<1>7. CASE a.kind = "rotate_downstream_credential"
  <2>1. q = Rotate(e, a) /\ r = Rotate(f, a)
    BY <1>0, <1>7, ApplyCases
  <2> QED
    BY <2>1, RotateSame
<1>8. CASE a.kind = "wait"
  <2>1. q = [e EXCEPT !.time = @ + a.seconds] /\ r = [f EXCEPT !.time = @ + a.seconds]
    BY <1>0, <1>8, ApplyCases
  <2>2. /\ q.pods = e.pods /\ q.controllers = e.controllers /\ q.counter = e.counter
        /\ r.pods = f.pods /\ r.controllers = f.controllers /\ r.counter = f.counter
    BY <1>00, <2>1 DEF EnvFields
  <2>3. /\ q.time = r.time /\ q.accounts = r.accounts /\ q.bindings = r.bindings
        /\ q.secrets = r.secrets /\ q.services = r.services
    BY <1>00, <1>01, <2>1 DEF EnvFields
  <2> QED
    BY <2>2, <2>3, WorkloadsAside
<1> QED
  BY <1>1, <1>2, <1>3, <1>4, <1>5, <1>6, <1>7, <1>8 DEF ActionKinds

(* A defender action with the reconciliation that follows it.              *)
LEMMA RemediationStep ==
    ASSUME NEW e, Formed(e), NEW a, a.kind \in ActionKinds
    PROVE  /\ Formed(Reconcile(ApplyDefenderAction(e, a)))
           /\ Orphaned(Reconcile(ApplyDefenderAction(e, a))) = {}
<1>1. PICK r : r = ApplyDefenderAction(e, a)
  OBVIOUS
<1>2. Formed(r)
  BY <1>1, ApplyNarrows, NarrowsForms DEF Formed
<1> QED
  BY <1>1, <1>2, ReconcileForms

LEMMA RemediationSame ==
    ASSUME NEW e, NEW f, Formed(e), Formed(f), Same(e, f), NEW a, a.kind \in ActionKinds
    PROVE  Same(Reconcile(ApplyDefenderAction(e, a)), Reconcile(ApplyDefenderAction(f, a)))
<1>1. PICK q, r : q = ApplyDefenderAction(e, a) /\ r = ApplyDefenderAction(f, a)
  OBVIOUS
<1>2. Formed(q) /\ Formed(r)
  BY <1>1, ApplyNarrows, NarrowsForms DEF Formed
<1>3. Same(q, r)
  BY <1>1, ApplySame
<1> QED
  BY <1>1, <1>2, <1>3, ReconcileSame

-----------------------------------------------------------------------------
(* What the attacker creates.                                              *)

LEMMA PodsCreated ==
    ASSUME NEW e, Formed(e), NEW new, IsFiniteSet(new),
           \A p \in new : MadePod(p.uid) /\ p.controller = None,
           NEW r, r = [e EXCEPT !.pods = @ \cup new]
    PROVE  /\ Formed(r) /\ Same(r, e) /\ (Orphaned(e) = {} => Orphaned(r) = {})
           /\ r.pods = e.pods \cup new /\ r.controllers = e.controllers /\ r.counter = e.counter
<1>0. DOMAIN e = EnvFields /\ IsFiniteSet(e.pods)
  BY DEF Formed
<1>1. /\ DOMAIN r = EnvFields
      /\ r.time = e.time /\ r.accounts = e.accounts /\ r.bindings = e.bindings
      /\ r.secrets = e.secrets /\ r.services = e.services /\ r.controllers = e.controllers
      /\ r.counter = e.counter /\ r.pods = e.pods \cup new
  BY <1>0 DEF EnvFields
<1>2. IsFiniteSet(e.pods \cup new)
  BY <1>0, FS_Union
<1>3. Formed(r)
  BY <1>1, <1>2 DEF Formed
<1>4. \A u : ~MadeController(u) => SameCounter(r, e, u)
  BY <1>1 DEF SameCounter
<1>5. Same(r, e)
  BY <1>1, <1>4 DEF Same
<1>6. Orphaned(e) = {} => Orphaned(r) = {}
  BY <1>1 DEF Orphaned
<1> QED
  BY <1>1, <1>3, <1>5, <1>6

(* An environment with controllers that were just created, whose counters  *)
(* start at -1.                                                            *)
WithControllers(e, new) ==
    [e EXCEPT !.controllers = @ \cup new,
              !.counter = [uid \in DOMAIN @ \cup UidsOf(new) |->
                              IF uid \in UidsOf(new) THEN -1 ELSE @[uid]]]

LEMMA WithControllersFacts ==
    ASSUME NEW e, DOMAIN e = EnvFields, NEW new
    PROVE  LET r == WithControllers(e, new)
           IN  /\ DOMAIN r = EnvFields
               /\ r.time = e.time /\ r.accounts = e.accounts /\ r.bindings = e.bindings
               /\ r.secrets = e.secrets /\ r.services = e.services /\ r.pods = e.pods
               /\ r.controllers = e.controllers \cup new
               /\ r.counter = [uid \in DOMAIN e.counter \cup UidsOf(new) |->
                                  IF uid \in UidsOf(new) THEN -1 ELSE e.counter[uid]]
BY DEF EnvFields, WithControllers

LEMMA ControllersCreated ==
    ASSUME NEW e, Formed(e), NEW new, IsFiniteSet(new),
           \A c \in new : MadeController(c.uid) /\ c.uid # None
    PROVE  Formed(WithControllers(e, new)) /\ Same(WithControllers(e, new), e)
<1>0. DOMAIN e = EnvFields /\ IsFiniteSet(e.controllers)
  BY DEF Formed
<1>1. PICK r : r = WithControllers(e, new)
  OBVIOUS
<1>2. /\ DOMAIN r = EnvFields
      /\ r.time = e.time /\ r.accounts = e.accounts /\ r.bindings = e.bindings
      /\ r.secrets = e.secrets /\ r.services = e.services /\ r.pods = e.pods
      /\ r.controllers = e.controllers \cup new
      /\ r.counter = [uid \in DOMAIN e.counter \cup UidsOf(new) |->
                         IF uid \in UidsOf(new) THEN -1 ELSE e.counter[uid]]
  BY <1>0, <1>1 DEF EnvFields, WithControllers
<1>3. IsFiniteSet(e.controllers \cup new)
  BY <1>0, FS_Union
<1>4. \A u \in UidsOf(new) : MadeController(u)
  BY DEF UidsOf
<1>5. \A u \in DOMAIN r.counter : r.counter[u] \in Int /\ r.counter[u] >= -1
  BY <1>2 DEF Formed
<1>6. Formed(r)
  BY <1>2, <1>3, <1>5 DEF Formed
<1>7. \A u : ~MadeController(u) => SameCounter(r, e, u)
  BY <1>2, <1>4 DEF SameCounter
<1>8. Same(r, e)
  BY <1>2, <1>7 DEF Same
<1> QED
  BY <1>1, <1>6, <1>8

(* Where every controller had a pod, only the new ones are given one.      *)
LEMMA ControllersReconciled ==
    ASSUME NEW e, Formed(e), NEW new, IsFiniteSet(new),
           \A c \in new : MadeController(c.uid) /\ c.uid # None,
           Orphaned(e) = {},
           NEW r, r = WithControllers(e, new)
    PROVE  Formed(Reconcile(r)) /\ Same(Reconcile(r), e) /\ Orphaned(Reconcile(r)) = {}
<1>0. DOMAIN e = EnvFields
  BY DEF Formed
<1>1. Formed(r) /\ Same(r, e) /\ r.pods = e.pods /\ r.controllers = e.controllers \cup new
  BY <1>0, ControllersCreated, WithControllersFacts
<1>2. \A c \in Orphaned(r) : MadeController(c.uid)
  BY <1>1 DEF Orphaned
<1>3. Same(Reconcile(r), r)
  BY <1>1, <1>2, ReconcileQuiet
<1> QED
  BY <1>1, <1>3, ReconcileForms, SameTransitive

(* Finitely many workloads are created, which are all the attacker's.      *)
LEMMA NewPodsFacts ==
    ASSUME IsFiniteSet(env.accounts)
    PROVE  IsFiniteSet(NewPods) /\ \A p \in NewPods : MadePod(p.uid) /\ p.controller = None
<1> DEFINE made(a) == [uid |-> ModelPodUid(a, interval), name |-> ModelPodUid(a, interval),
                       account |-> a, audiences |-> {}, controller |-> None]
           f == [s \in env.accounts |-> made(s.account)]
           image == {made(s.account) : s \in env.accounts}
<1>1. f \in Surjection(env.accounts, image)
  BY DEF Surjection
<1>2. NewPods \subseteq image
  BY DEF NewPods, Creatable
<1>3. \A p \in image : MadePod(p.uid) /\ p.controller = None
  BY DEF MadePod, BareUid
<1> HIDE DEF f, image
<1>4. IsFiniteSet(image)
  BY <1>1, FS_Surjection
<1> QED
  BY <1>2, <1>3, <1>4, FS_Subset

LEMMA NewControllersFacts ==
    ASSUME IsFiniteSet(env.accounts)
    PROVE  IsFiniteSet(NewControllers) /\ \A c \in NewControllers : MadeController(c.uid)
<1> DEFINE made(a) == [uid |-> ModelControllerUid(a, interval),
                       name |-> ModelControllerUid(a, interval), account |-> a, audiences |-> {}]
           f == [s \in env.accounts |-> made(s.account)]
           image == {made(s.account) : s \in env.accounts}
<1>1. f \in Surjection(env.accounts, image)
  BY DEF Surjection
<1>2. NewControllers \subseteq image
  BY DEF NewControllers, Creatable
<1>3. \A c \in image : MadeController(c.uid)
  BY DEF MadeController, DeployUid
<1> HIDE DEF f, image
<1>4. IsFiniteSet(image)
  BY <1>1, FS_Surjection
<1> QED
  BY <1>2, <1>3, <1>4, FS_Subset

-----------------------------------------------------------------------------
(* The remediation by itself.                                              *)

(* g[n] is what the first n actions make of an input's inventory, with no  *)
(* attacker about.                                                         *)
Replay(i, g, n) ==
    /\ g[0] = Reconcile(i.inventory)
    /\ \A k \in 1..n : g[k] = Reconcile(ApplyDefenderAction(g[k - 1], i.remediation[k]))

(* An environment that differs from that in attacker workloads alone.      *)
FollowsReplay(i, e, n) ==
    /\ \E g : Replay(i, g, n)
    /\ \A g : Replay(i, g, n) => Formed(g[n]) /\ Same(e, g[n])

LEMMA InventoryFormed ==
    ASSUME UidsApart, NEW i \in Inputs
    PROVE  Formed(i.inventory)
BY CaseAssumption DEF UidsApart, Formed

LEMMA ReplayStarts ==
    ASSUME UidsApart, NEW i \in Inputs
    PROVE  /\ Formed(Reconcile(i.inventory)) /\ Orphaned(Reconcile(i.inventory)) = {}
           /\ FollowsReplay(i, Reconcile(i.inventory), 0)
<1>1. PICK e : e = Reconcile(i.inventory)
  OBVIOUS
<1>2. Formed(e) /\ Orphaned(e) = {}
  BY <1>1, InventoryFormed, ReconcileForms
<1>3. Replay(i, [k \in {0} |-> e], 0)
  BY <1>1 DEF Replay
<1>4. Same(e, e)
  BY DEF Same, SameCounter
<1>5. FollowsReplay(i, e, 0)
  BY <1>1, <1>2, <1>3, <1>4 DEF FollowsReplay, Replay
<1> QED
  BY <1>1, <1>2, <1>5

LEMMA ReplayGoesOn ==
    ASSUME NEW i \in Inputs, NEW n \in Nat, n < Len(i.remediation), NEW e, Formed(e),
           FollowsReplay(i, e, n)
    PROVE  LET r == Reconcile(ApplyDefenderAction(e, i.remediation[n + 1]))
           IN  Formed(r) /\ Orphaned(r) = {} /\ FollowsReplay(i, r, n + 1)
<1>0. Len(i.remediation) \in Nat /\ n + 1 \in 1..Len(i.remediation)
  BY CaseAssumption
<1>1. PICK a : a = i.remediation[n + 1]
  OBVIOUS
<1>2. a.kind \in ActionKinds
  BY <1>0, <1>1, CaseAssumption
<1>3. PICK r : r = Reconcile(ApplyDefenderAction(e, a))
  OBVIOUS
<1>4. Formed(r) /\ Orphaned(r) = {}
  BY <1>2, <1>3, RemediationStep
<1>5. \E h : Replay(i, h, n + 1)
  <2>1. PICK g : Replay(i, g, n)
    BY DEF FollowsReplay
  <2>2. PICK x : x = Reconcile(ApplyDefenderAction(g[n], a))
    OBVIOUS
  <2> DEFINE h == [k \in 0..(n + 1) |-> IF k <= n THEN g[k] ELSE x]
  <2>3. h[0] = Reconcile(i.inventory)
    BY <2>1 DEF Replay
  <2>4. ASSUME NEW k \in 1..(n + 1)
        PROVE  h[k] = Reconcile(ApplyDefenderAction(h[k - 1], i.remediation[k]))
    <3>1. CASE k \in 1..n
      <4>1. h[k] = g[k] /\ h[k - 1] = g[k - 1]
        BY <3>1
      <4> QED
        BY <2>1, <3>1, <4>1 DEF Replay
    <3>2. CASE k = n + 1
      <4>1. h[k] = x /\ h[k - 1] = g[n]
        BY <3>2
      <4> QED
        BY <1>1, <2>2, <3>2, <4>1
    <3> QED
      BY <2>4, <3>1, <3>2
  <2> HIDE DEF h
  <2> QED
    BY <2>3, <2>4 DEF Replay
<1>6. ASSUME NEW g, Replay(i, g, n + 1) PROVE Formed(g[n + 1]) /\ Same(r, g[n + 1])
  <2>1. Replay(i, g, n)
    BY <1>6 DEF Replay
  <2>2. PICK f : f = g[n]
    OBVIOUS
  <2>3. Formed(f) /\ Same(e, f)
    BY <2>1, <2>2 DEF FollowsReplay
  <2>4. n + 1 \in 1..(n + 1) /\ (n + 1) - 1 = n
    OBVIOUS
  <2>5. g[n + 1] = Reconcile(ApplyDefenderAction(f, a))
    BY <1>1, <1>6, <2>2, <2>4 DEF Replay
  <2> QED
    BY <1>2, <1>3, <2>3, <2>5, RemediationStep, RemediationSame
<1>7. FollowsReplay(i, r, n + 1)
  BY <1>5, <1>6 DEF FollowsReplay
<1> QED
  BY <1>1, <1>3, <1>4, <1>7

LEMMA ReplaySame ==
    ASSUME NEW i, NEW n, NEW e, NEW r, FollowsReplay(i, e, n), Same(r, e)
    PROVE  FollowsReplay(i, r, n)
BY SameTransitive DEF FollowsReplay

-----------------------------------------------------------------------------
(* The environments of the engine.                                         *)

(* In the main phase every controller has a pod, and the environment is    *)
(* that of the remediation so far, attacker workloads aside.               *)
MainEnv(i, e, n) ==
    /\ n \in 0..Len(i.remediation)
    /\ Formed(e) /\ Orphaned(e) = {}
    /\ FollowsReplay(i, e, n)

(* A view that was run to its end has that of the whole remediation.       *)
Settled(i, o) ==
    ~o.bounds_exceeded => FollowsReplay(i, o.env, Len(i.remediation))

ResultsInv ==
    /\ input \in Inputs
    /\ view \in 1..3
    /\ phase \in {"begin", "history", "main"}
    /\ phase # "begin" => view <= 2
    /\ phase = "main" => MainEnv(input, env, interval)
    /\ view = 1 => outcome = <<>>
    /\ view = 2 => \E a : outcome = <<a>> /\ Settled(input, a)
    /\ view = 3 => \E a, b : outcome = <<a, b>> /\ Settled(input, a) /\ Settled(input, b)

LEMMA ResultsInit == Init => ResultsInv
BY DEF Init, ResultsInv

LEMMA AppendSecond ==
    ASSUME NEW a, NEW o
    PROVE  Append(<<a>>, o) = <<a, o>>
<1>1. PICK S : S = {a, o}
  OBVIOUS
<1>2. <<a>> \in Seq(S) /\ o \in S
  BY <1>1
<1>3. PICK q : q = <<a>>
  OBVIOUS
<1>4. Append(q, o) = [i \in 1..(Len(q) + 1) |-> IF i <= Len(q) THEN q[i] ELSE o]
  BY <1>2, <1>3
<1>5. Len(q) = 1 /\ q[1] = a
  BY <1>3
<1>6. <<a, o>> = [i \in 1..2 |-> IF i <= 1 THEN q[i] ELSE o]
  BY <1>5
<1>7. Append(q, o) = [i \in 1..2 |-> IF i <= 1 THEN q[i] ELSE o]
  <2>1. PICK n : n = Len(q)
    OBVIOUS
  <2>2. n = 1 /\ n + 1 = 2
    BY <1>5, <2>1
  <2>3. Append(q, o) = [i \in 1..(n + 1) |-> IF i <= n THEN q[i] ELSE o]
    BY <1>4, <2>1
  <2> QED
    BY <2>2, <2>3
<1>8. Append(q, o) = <<a, o>>
  BY <1>6, <1>7, Zenon
<1> QED
  BY <1>3, <1>8, Zenon

(* A view that ends adds its outcome.                                      *)
LEMMA ViewEnds ==
    ASSUME ResultsInv, phase # "begin", NEW o, Settled(input, o),
           outcome' = Append(outcome, o), view' = view + 1, phase' = "begin", input' = input
    PROVE  ResultsInv'
<1>1. CASE view = 1
  <2>1. outcome' = <<o>>
    BY <1>1 DEF ResultsInv
  <2> QED
    BY <1>1, <2>1 DEF ResultsInv
<1>2. CASE view = 2
  <2>1. PICK a : outcome = <<a>> /\ Settled(input, a)
    BY <1>2 DEF ResultsInv
  <2>2. Append(<<a>>, o) = <<a, o>>
    BY AppendSecond
  <2>3. outcome' = <<a, o>>
    BY <2>1, <2>2
  <2>4. view' = 3 /\ phase' = "begin" /\ input' \in Inputs
    BY <1>2 DEF ResultsInv
  <2>5. Settled(input', a) /\ Settled(input', o)
    BY <2>1
  <2>6. \E x, y : outcome' = <<x, y>> /\ Settled(input', x) /\ Settled(input', y)
    BY <2>3, <2>5
  <2> QED
    BY <2>4, <2>6 DEF ResultsInv
<1> QED
  BY <1>1, <1>2 DEF ResultsInv

(* A step within a view changes the environment, at most.                  *)
LEMMA ViewGoesOn ==
    ASSUME ResultsInv, view <= 2, view' = view, outcome' = outcome, input' = input,
           phase' \in {"history", "main"},
           phase' = "main" => MainEnv(input, env', interval')
    PROVE  ResultsInv'
BY DEF ResultsInv

LEMMA ResultsNext ==
    ASSUME UidsApart, ResultsInv, [Next]_vars
    PROVE  ResultsInv'
<1>0. /\ input \in Inputs /\ Len(input.remediation) \in Nat
      /\ phase # "begin" => view <= 2
      /\ phase = "main" => MainEnv(input, env, interval)
  BY CaseAssumption DEF ResultsInv
<1>1. CASE BeginHistory
  BY <1>1, ViewGoesOn DEF BeginHistory
<1>2. CASE BeginMain \/ EndHistory
  <2>1. /\ view <= 2 /\ view' = view /\ outcome' = outcome /\ input' = input
        /\ phase' = "main" /\ interval' = 0 /\ env' = Reconcile(input.inventory)
    BY <1>0, <1>2 DEF BeginMain, EndHistory, Inventory
  <2>2. MainEnv(input, env', interval')
    <3>1. PICK i, r : i = input /\ r = Reconcile(i.inventory)
      OBVIOUS
    <3>2. Formed(r) /\ Orphaned(r) = {} /\ FollowsReplay(i, r, 0)
      BY <1>0, <3>1, ReplayStarts
    <3> QED
      BY <1>0, <2>1, <3>1, <3>2 DEF MainEnv
  <2> QED
    BY <2>1, <2>2, ViewGoesOn
<1>3. CASE ControllerPod \/ ObtainToken \/ ExecPod \/ ReadSecret \/ DownstreamCredential \/ UseDownstream
  <2>1. /\ phase \in {"history", "main"} /\ view' = view /\ outcome' = outcome /\ input' = input
        /\ phase' = phase /\ interval' = interval /\ env' = env
    BY <1>3 DEF ControllerPod, ObtainToken, ExecPod, ReadSecret, DownstreamCredential,
                UseDownstream, Apply, Sweeping
  <2> QED
    BY <1>0, <2>1, ViewGoesOn
<1>4. CASE CreatePod
  <2>1. /\ phase \in {"history", "main"} /\ view' = view /\ outcome' = outcome /\ input' = input
        /\ phase' = phase /\ interval' = interval
        /\ env' = [env EXCEPT !.pods = @ \cup NewPods]
    BY <1>4 DEF CreatePod, Apply, Sweeping
  <2>2. ASSUME phase = "main" PROVE MainEnv(input, env', interval')
    <3>1. PICK e, r, new : e = env /\ r = env' /\ new = NewPods
      OBVIOUS
    <3>2. Formed(e) /\ Orphaned(e) = {}
      BY <1>0, <2>2, <3>1 DEF MainEnv
    <3>3. IsFiniteSet(new) /\ \A p \in new : MadePod(p.uid) /\ p.controller = None
      BY <3>1, <3>2, NewPodsFacts DEF Formed
    <3>4. r = [e EXCEPT !.pods = @ \cup new]
      BY <2>1, <3>1
    <3>5. Formed(r) /\ Same(r, e) /\ Orphaned(r) = {}
      BY <3>2, <3>3, <3>4, PodsCreated
    <3>6. MainEnv(input, e, interval)
      BY <1>0, <2>2, <3>1
    <3>7. FollowsReplay(input, r, interval)
      BY <3>5, <3>6, ReplaySame DEF MainEnv
    <3> QED
      BY <2>1, <3>1, <3>5, <3>6, <3>7 DEF MainEnv
  <2> QED
    BY <1>0, <2>1, <2>2, ViewGoesOn
<1>5. CASE CreateController
  <2>1. /\ phase \in {"history", "main"} /\ view' = view /\ outcome' = outcome /\ input' = input
        /\ phase' = phase /\ interval' = interval
    BY <1>5 DEF CreateController, Apply, Sweeping
  <2>2. ASSUME phase = "main" PROVE MainEnv(input, env', interval')
    <3>1. CASE NewControllers = {}
      <4>1. env' = env
        BY <1>5, <3>1 DEF CreateController
      <4> QED
        BY <1>0, <2>1, <2>2, <4>1
    <3>2. CASE NewControllers # {}
      <4>1. PICK e, new : e = env /\ new = NewControllers
        OBVIOUS
      <4>2. PICK r : r = WithControllers(e, new)
        OBVIOUS
      <4>3. env' = Reconcile(r)
        BY <1>5, <3>2, <4>1, <4>2 DEF CreateController, WithControllers
      <4>4. MainEnv(input, e, interval)
        BY <1>0, <2>2, <4>1
      <4>5. IsFiniteSet(new) /\ \A c \in new : MadeController(c.uid) /\ c.uid # None
        BY <4>1, <4>4, NewControllersFacts DEF Formed, MainEnv, UidsApart
      <4>6. Formed(Reconcile(r)) /\ Same(Reconcile(r), e) /\ Orphaned(Reconcile(r)) = {}
        BY <4>2, <4>4, <4>5, ControllersReconciled DEF MainEnv
      <4>7. FollowsReplay(input, Reconcile(r), interval)
        BY <4>4, <4>6, ReplaySame DEF MainEnv
      <4> QED
        BY <2>1, <4>3, <4>4, <4>6, <4>7 DEF MainEnv
    <3> QED
      BY <3>1, <3>2
  <2> QED
    BY <1>0, <2>1, <2>2, ViewGoesOn
<1>6. CASE Remediate
  <2>1. /\ phase = "main" /\ interval < Len(input.remediation)
        /\ view' = view /\ outcome' = outcome /\ input' = input /\ phase' = phase
        /\ interval' = interval + 1
        /\ env' = Reconcile(ApplyDefenderAction(env, input.remediation[interval + 1]))
    BY <1>6 DEF Remediate
  <2>2. PICK e, i, n : e = env /\ i = input /\ n = interval
    OBVIOUS
  <2>3. /\ n \in Nat /\ n < Len(i.remediation) /\ i \in Inputs /\ Formed(e)
        /\ FollowsReplay(i, e, n) /\ n + 1 \in 0..Len(i.remediation)
    BY <1>0, <2>1, <2>2 DEF MainEnv
  <2>4. PICK r : r = Reconcile(ApplyDefenderAction(e, i.remediation[n + 1]))
    OBVIOUS
  <2>5. Formed(r) /\ Orphaned(r) = {} /\ FollowsReplay(i, r, n + 1)
    BY <2>3, <2>4, ReplayGoesOn
  <2>6. MainEnv(input, env', interval')
    BY <2>1, <2>2, <2>3, <2>4, <2>5 DEF MainEnv
  <2> QED
    BY <1>0, <2>1, <2>6, ViewGoesOn
<1>7. CASE FinishView
  <2>1. PICK o : o = [goals |-> eph, unknowns |-> unknowns, bounds_exceeded |-> FALSE, env |-> env]
    OBVIOUS
  <2>2. /\ phase = "main" /\ interval = Len(input.remediation)
        /\ outcome' = Append(outcome, o) /\ view' = view + 1 /\ phase' = "begin" /\ input' = input
    BY <1>7, <2>1 DEF FinishView, EndView
  <2>3. Settled(input, o)
    BY <1>0, <2>1, <2>2 DEF Settled, MainEnv
  <2> QED
    BY <2>2, <2>3, ViewEnds
<1>8. CASE ExceedBounds
  <2>1. PICK o : o = [goals |-> goals, unknowns |-> unknowns, bounds_exceeded |-> TRUE,
                      env |-> IF phase = "history" THEN Inventory ELSE env]
    OBVIOUS
  <2>2. /\ phase # "begin"
        /\ outcome' = Append(outcome, o) /\ view' = view + 1 /\ phase' = "begin" /\ input' = input
    BY <1>8, <2>1 DEF ExceedBounds, EndView, Sweeping
  <2>3. Settled(input, o)
    BY <2>1 DEF Settled
  <2> QED
    BY <2>2, <2>3, ViewEnds
<1>9. CASE Stop \/ UNCHANGED vars
  BY <1>9 DEF Stop, vars, ResultsInv
<1> QED
  BY <1>1, <1>2, <1>3, <1>4, <1>5, <1>6, <1>7, <1>8, <1>9 DEF Next

(* What a legitimate operation needs is the cluster's own.                 *)
LEMMA PreservedSame ==
    ASSUME NEW e, NEW f, Same(e, f), NEW op, ~MadePod(op.pod)
    PROVE  Preserved(op, e) = Preserved(op, f)
<1>1. /\ e.accounts = f.accounts /\ e.bindings = f.bindings
      /\ e.secrets = f.secrets /\ e.services = f.services
      /\ \A p : p.uid = op.pod => (p \in e.pods <=> p \in f.pods)
  BY DEF Same
<1>2. \A a, s : Authorized(e, a, "get", "secrets", s[1], s[2])
                <=> Authorized(f, a, "get", "secrets", s[1], s[2])
  BY <1>1 DEF Authorized, AuthorizingBindings
<1>3. \A s : LegitCanRead(e, op.pod, s) <=> LegitCanRead(f, op.pod, s)
  BY <1>1, <1>2 DEF LegitCanRead
<1>4. LegitCanUseService(e, op.pod, op.target) <=> LegitCanUseService(f, op.pod, op.target)
  BY <1>1, <1>3 DEF LegitCanUseService
<1>5. /\ LegitCanRead(e, op.pod, op.target) = LegitCanRead(f, op.pod, op.target)
      /\ LegitCanUseService(e, op.pod, op.target) = LegitCanUseService(f, op.pod, op.target)
  BY <1>3, <1>4, Zenon DEF LegitCanRead, LegitCanUseService
<1> QED
  BY <1>5 DEF Preserved

(* The environment of a view differs from what the remediation makes of    *)
(* the inventory in attacker workloads alone, in run_view's every interval *)
(* and in each view's outcome.                                             *)
THEOREM RemediationReplayed ==
    ASSUME UidsApart
    PROVE  Spec => []ResultsInv
<1>1. ResultsInv /\ [Next]_vars => ResultsInv'
  BY ResultsNext
<1> QED
  BY <1>1, ResultsInit, PTL DEF Spec

(* legit_status gives the same answer for the environments of both views,  *)
(* whatever the attacker created in either.                                *)
THEOREM LegitimateAlike ==
    ASSUME UidsApart
    PROVE  Spec => []LegitIndependent
<1>1. ASSUME ResultsInv, Done, ~outcome[1].bounds_exceeded, ~outcome[2].bounds_exceeded,
             NEW op \in LegitimateOperations
      PROVE  Preserved(op, outcome[1].env) = Preserved(op, outcome[2].env)
  <2>1. PICK a, b : outcome = <<a, b>> /\ Settled(input, a) /\ Settled(input, b)
    BY <1>1 DEF ResultsInv, Done
  <2>2. outcome[1] = a /\ outcome[2] = b
    BY <2>1
  <2>3. PICK n : n = Len(input.remediation)
    OBVIOUS
  <2>4. FollowsReplay(input, a.env, n) /\ FollowsReplay(input, b.env, n)
    BY <1>1, <2>1, <2>2, <2>3 DEF Settled
  <2>5. PICK g : Replay(input, g, n)
    BY <2>4 DEF FollowsReplay
  <2>6. PICK e, f, h : e = a.env /\ f = b.env /\ h = g[n]
    OBVIOUS
  <2>7. Same(e, h) /\ Same(f, h)
    BY <2>4, <2>5, <2>6 DEF FollowsReplay
  <2>8. Same(e, f)
    BY <2>7, SameSymmetric, SameTransitive
  <2>9. Preserved(op, e) = Preserved(op, f)
    BY <2>8, PreservedSame DEF UidsApart
  <2> QED
    BY <2>2, <2>6, <2>9
<1>2. ResultsInv => LegitIndependent
  BY <1>1 DEF LegitIndependent
<1> QED
  BY <1>2, RemediationReplayed, PTL

-----------------------------------------------------------------------------
(* Tokens of pods that are gone.                                           *)

(* The UIDs that the engine makes up for pods.                             *)
EnginePod(uid) ==
    \/ \E a : BareUid(a, uid)
    \/ \E c, k : uid = ReplicaUid(c, k)

(* An input knows none of them.                                            *)
PodsApart ==
    \A i \in Inputs :
        /\ \A p \in i.inventory.pods : ~EnginePod(p.uid)
        /\ \A f \in i.initial_facts :
              /\ f.kind = "historical_pod" => ~EnginePod(f.arg.uid)
              /\ f.kind = "possesses_credential" => ~EnginePod(f.arg.bound_pod)

(* A pod's UID that was used up by interval n: a replica's number is no    *)
(* more than its controller's counter, and a workload that was created in  *)
(* this interval is still there.                                           *)
Used(e, n, uid) ==
    /\ \A u, k : uid = ReplicaUid(u, k) =>
          /\ \A c \in e.controllers : c.uid = u => k \in Int /\ k <= CounterOf(e, c)
          /\ \A a, i : u = ModelControllerUid(a, i) =>
                i \in Int /\ i <= n /\ (i = n => u \in UidsOf(e.controllers))
    /\ \A a, i : uid = ModelPodUid(a, i) =>
          i \in Int /\ i <= n /\ (i = n => uid \in UidsOf(e.pods))

(* The controllers that were created by interval n.                        *)
Created(e, n) ==
    \A c \in e.controllers : \A a, i : c.uid = ModelControllerUid(a, i) => i \in Int /\ i <= n

LEMMA EngineUidsDiffer ==
    ASSUME NEW a, NEW i, NEW u, NEW k
    PROVE  ModelPodUid(a, i) # ReplicaUid(u, k)
BY DEF ModelPodUid, ReplicaUid

LEMMA OwnUsed ==
    ASSUME NEW e, NEW n, NEW uid, ~EnginePod(uid)
    PROVE  Used(e, n, uid)
BY DEF EnginePod, Used, BareUid

(* A controller's counter after a reconciliation.                          *)
LEMMA ReconcileCounts ==
    ASSUME NEW e, Formed(e), NEW c
    PROVE  /\ CounterOf(e, c) \in Int /\ CounterOf(Reconcile(e), c) \in Int
           /\ CounterOf(Reconcile(e), c) >= CounterOf(e, c)
           /\ c \in Orphaned(e) => CounterOf(Reconcile(e), c) = NextReplica(e, c)
           /\ (\A d \in Orphaned(e) : d.uid # c.uid) => CounterOf(Reconcile(e), c) = CounterOf(e, c)
<1>0. DOMAIN e = EnvFields
  BY DEF Formed
<1>1. PICK r : r = Reconcile(e)
  OBVIOUS
<1>2. r.counter = [uid \in DOMAIN e.counter \cup UidsOf(Orphaned(e)) |->
                     IF \E d \in Orphaned(e) : d.uid = uid
                     THEN NextReplica(e, CHOOSE d \in Orphaned(e) : d.uid = uid)
                     ELSE e.counter[uid]]
  BY <1>0, <1>1, ReconcileFacts
<1>3. CounterOf(e, c) \in Int
  BY DEF CounterOf, Formed
<1>4. CASE \E d \in Orphaned(e) : d.uid = c.uid
  <2>1. PICK d : d = CHOOSE x \in Orphaned(e) : x.uid = c.uid
    OBVIOUS
  <2>2. d.uid = c.uid
    BY <1>4, <2>1
  <2>3. NextReplica(e, d) = NextReplica(e, c)
    BY <2>2 DEF NextReplica, CounterOf
  <2>4. c.uid \in UidsOf(Orphaned(e))
    BY <1>4 DEF UidsOf
  <2>5. CounterOf(r, c) = NextReplica(e, c)
    BY <1>2, <1>4, <2>1, <2>3, <2>4 DEF CounterOf
  <2>6. NextReplica(e, c) \in Nat /\ NextReplica(e, c) >= CounterOf(e, c) + 1
    BY NextReplicaFacts
  <2> QED
    BY <1>1, <1>3, <1>4, <2>5, <2>6
<1>5. CASE ~\E d \in Orphaned(e) : d.uid = c.uid
  <2>1. c.uid \notin UidsOf(Orphaned(e)) /\ c \notin Orphaned(e)
    BY <1>5 DEF UidsOf
  <2>2. CounterOf(r, c) = CounterOf(e, c)
    BY <1>2, <1>5, <2>1 DEF CounterOf
  <2> QED
    BY <1>1, <1>3, <2>1, <2>2
<1> QED
  BY <1>4, <1>5

(* What is used up stays so when controllers are given pods; what these    *)
(* get was not used up, and is now.                                        *)
LEMMA ReconcileUses ==
    ASSUME NEW e, Formed(e), NEW n, Created(e, n), NEW uid, Used(e, n, uid)
    PROVE  Used(Reconcile(e), n, uid)
<1>0. DOMAIN e = EnvFields
  BY DEF Formed
<1>1. PICK r : r = Reconcile(e)
  OBVIOUS
<1>2. r.controllers = e.controllers /\ e.pods \subseteq r.pods
  BY <1>0, <1>1, ReconcileFacts
<1>3. ASSUME NEW u, NEW k, uid = ReplicaUid(u, k), NEW c \in e.controllers, c.uid = u
      PROVE  k \in Int /\ k <= CounterOf(r, c)
  <2>1. k \in Int /\ k <= CounterOf(e, c)
    BY <1>3 DEF Used
  <2>2. CounterOf(e, c) \in Int /\ CounterOf(r, c) \in Int /\ CounterOf(r, c) >= CounterOf(e, c)
    BY <1>1, ReconcileCounts
  <2> QED
    BY <2>1, <2>2
<1>4. UidsOf(e.pods) \subseteq UidsOf(r.pods)
  BY <1>2 DEF UidsOf
<1>5. Used(r, n, uid)
  BY <1>2, <1>3, <1>4 DEF Used
<1> QED
  BY <1>1, <1>5

LEMMA ReconcileFresh ==
    ASSUME NEW e, Formed(e), NEW n, Created(e, n), NEW p \in Reconcile(e).pods, p \notin e.pods
    PROVE  /\ Used(Reconcile(e), n, p.uid)
           /\ \A uid : Used(e, n, uid) => uid # p.uid
<1>0. DOMAIN e = EnvFields
  BY DEF Formed
<1>1. PICK r : r = Reconcile(e)
  OBVIOUS
<1>2. /\ r.controllers = e.controllers
      /\ r.pods = e.pods \cup {PodOf(c, NextReplica(e, c)) : c \in Orphaned(e)}
  BY <1>0, <1>1, ReconcileFacts
<1>3. PICK c \in Orphaned(e) : p = PodOf(c, NextReplica(e, c))
  BY <1>1, <1>2
<1>4. PICK m : m = NextReplica(e, c)
  OBVIOUS
<1>5. p.uid = ReplicaUid(c.uid, m) /\ c \in e.controllers
  BY <1>3, <1>4, PodOfFacts DEF Orphaned
<1>6. m \in Nat /\ m >= CounterOf(e, c) + 1 /\ CounterOf(e, c) \in Int
  BY <1>4, NextReplicaFacts, ReconcileCounts
<1>7. CounterOf(r, c) = m
  BY <1>1, <1>3, <1>4, ReconcileCounts
<1>8. ASSUME NEW uid, Used(e, n, uid), uid = p.uid PROVE FALSE
  <2>1. m <= CounterOf(e, c)
    BY <1>5, <1>8 DEF Used
  <2> QED
    BY <1>6, <2>1
<1>9. ASSUME NEW u, NEW k, p.uid = ReplicaUid(u, k)
      PROVE  /\ \A d \in r.controllers : d.uid = u => k \in Int /\ k <= CounterOf(r, d)
             /\ \A a, i : u = ModelControllerUid(a, i) =>
                   i \in Int /\ i <= n /\ (i = n => u \in UidsOf(r.controllers))
  <2>1. u = c.uid /\ k = m
    BY <1>5, <1>9 DEF ReplicaUid
  <2>2. \A d : d.uid = c.uid => CounterOf(r, d) = m
    BY <1>7 DEF CounterOf
  <2>3. u \in UidsOf(r.controllers)
    BY <1>2, <1>5, <2>1 DEF UidsOf
  <2>4. \A a, i : u = ModelControllerUid(a, i) => i \in Int /\ i <= n
    BY <1>5, <2>1 DEF Created
  <2>5. m \in Int /\ m <= m
    BY <1>6
  <2> QED
    BY <2>1, <2>2, <2>3, <2>4, <2>5
<1>10. \A a, i : p.uid # ModelPodUid(a, i)
  BY <1>5, EngineUidsDiffer
<1>11. Used(r, n, p.uid)
  BY <1>9, <1>10 DEF Used
<1> QED
  BY <1>1, <1>8, <1>11

(* A pod that is created takes a UID that was not used up.                 *)
LEMMA PodsUse ==
    ASSUME NEW e, NEW n \in Int, NEW r, NEW new,
           r.controllers = e.controllers, r.counter = e.counter, r.pods = e.pods \cup new,
           \A p \in new : p.uid \notin UidsOf(e.pods) /\ \E a : p.uid = ModelPodUid(a, n)
    PROVE  /\ \A uid : Used(e, n, uid) => Used(r, n, uid)
           /\ \A p \in new : Used(r, n, p.uid)
           /\ \A p \in new : \A uid : Used(e, n, uid) => uid # p.uid
<1>1. \A c : CounterOf(r, c) = CounterOf(e, c)
  BY DEF CounterOf
<1>2. UidsOf(e.pods) \subseteq UidsOf(r.pods)
  BY DEF UidsOf
<1>3. ASSUME NEW uid, Used(e, n, uid) PROVE Used(r, n, uid)
  BY <1>1, <1>2, <1>3 DEF Used
<1>4. ASSUME NEW p \in new PROVE Used(r, n, p.uid) /\ \A uid : Used(e, n, uid) => uid # p.uid
  <2>1. PICK a : p.uid = ModelPodUid(a, n)
    BY <1>4
  <2>2. p.uid \in UidsOf(r.pods)
    BY <1>4 DEF UidsOf
  <2>3. \A b, i : p.uid = ModelPodUid(b, i) => i = n
    BY <2>1 DEF ModelPodUid
  <2>4. \A u, k : p.uid # ReplicaUid(u, k)
    BY <2>1, EngineUidsDiffer
  <2>5. Used(r, n, p.uid)
    BY <2>2, <2>3, <2>4 DEF Used
  <2>6. ASSUME NEW uid, Used(e, n, uid), uid = p.uid PROVE FALSE
    BY <1>4, <2>1, <2>6 DEF Used
  <2> QED
    BY <2>5, <2>6
<1> QED
  BY <1>3, <1>4

(* No replica of a new controller's was used up.                           *)
LEMMA ControllersUse ==
    ASSUME NEW e, DOMAIN e = EnvFields, NEW n \in Int, NEW new, NEW r, r = WithControllers(e, new),
           Created(e, n),
           \A c \in new : c.uid \notin UidsOf(e.controllers) /\ \E a : c.uid = ModelControllerUid(a, n)
    PROVE  /\ Created(r, n)
           /\ \A c \in e.controllers : CounterOf(r, c) = CounterOf(e, c)
           /\ \A uid : Used(e, n, uid) => Used(r, n, uid)
<1>1. /\ r.pods = e.pods /\ r.controllers = e.controllers \cup new
      /\ r.counter = [uid \in DOMAIN e.counter \cup UidsOf(new) |->
                         IF uid \in UidsOf(new) THEN -1 ELSE e.counter[uid]]
  BY DEF EnvFields, WithControllers
<1>2. \A u \in UidsOf(new) : u \notin UidsOf(e.controllers)
  BY DEF UidsOf
<1>3. ASSUME NEW c \in e.controllers PROVE CounterOf(r, c) = CounterOf(e, c)
  <2>1. c.uid \in UidsOf(e.controllers)
    BY <1>3 DEF UidsOf
  <2>2. c.uid \notin UidsOf(new)
    BY <1>2, <2>1
  <2> QED
    BY <1>1, <2>2 DEF CounterOf
<1>4. Created(r, n)
  <2>1. \A c \in new : \A a, i : c.uid = ModelControllerUid(a, i) => i = n
    BY DEF ModelControllerUid
  <2> QED
    BY <1>1, <2>1 DEF Created
<1>5. UidsOf(e.controllers) \subseteq UidsOf(r.controllers)
  BY <1>1 DEF UidsOf
<1>6. ASSUME NEW uid, Used(e, n, uid) PROVE Used(r, n, uid)
  <2>1. ASSUME NEW u, NEW k, uid = ReplicaUid(u, k), NEW c \in r.controllers, c.uid = u
        PROVE  k \in Int /\ k <= CounterOf(r, c)
    <3>1. CASE c \in e.controllers
      BY <1>3, <1>6, <2>1, <3>1 DEF Used
    <3>2. CASE c \in new
      <4>1. PICK a : c.uid = ModelControllerUid(a, n)
        BY <3>2
      <4>2. u \in UidsOf(e.controllers)
        BY <1>6, <2>1, <4>1 DEF Used
      <4> QED
        BY <2>1, <3>2, <4>2
    <3> QED
      BY <1>1, <2>1, <3>1, <3>2
  <2>2. ASSUME NEW u, NEW k, uid = ReplicaUid(u, k), NEW a, NEW i, u = ModelControllerUid(a, i)
        PROVE  i \in Int /\ i <= n /\ (i = n => u \in UidsOf(r.controllers))
    BY <1>5, <1>6, <2>2 DEF Used
  <2> QED
    BY <1>1, <1>6, <2>1, <2>2 DEF Used
<1> QED
  BY <1>3, <1>4, <1>6

(* A defender action begins another interval.                              *)
LEMMA NarrowsUse ==
    ASSUME NEW e, NEW q, Narrows(q, e), NEW n \in Int, Created(e, n)
    PROVE  /\ Created(q, n + 1)
           /\ \A uid : Used(e, n, uid) => Used(q, n + 1, uid)
<1>1. \A c : CounterOf(q, c) = CounterOf(e, c)
  BY DEF CounterOf, Narrows
<1>2. Created(q, n + 1)
  BY DEF Created, Narrows
<1>3. ASSUME NEW uid, Used(e, n, uid) PROVE Used(q, n + 1, uid)
  <2>1. \A i \in Int : i <= n => i <= n + 1 /\ i # n + 1
    OBVIOUS
  <2> QED
    BY <1>1, <1>3, <2>1 DEF Used, Narrows
<1> QED
  BY <1>2, <1>3

-----------------------------------------------------------------------------
(* The counters in the possible past are no further than those at the      *)
(* start of the main phase.                                                *)
PastEnv(i, e) ==
    \A c \in i.inventory.controllers :
        /\ c \in e.controllers
        /\ CounterOf(e, c) <= CounterOf(Reconcile(i.inventory), c)
        /\ c \in Orphaned(e) =>
              /\ CounterOf(e, c) = CounterOf(i.inventory, c) /\ c \in Orphaned(i.inventory)
              /\ \A k : ReplicaUid(c.uid, k) \notin UidsOf(e.pods)

(* Everything in an environment, and what every token is bound to, is used *)
(* up.                                                                     *)
AllUsed(e, n, credentials) ==
    /\ Created(e, n)
    /\ \A p \in e.pods : Used(e, n, p.uid)
    /\ \A c \in credentials : Used(e, n, c.bound_pod)

TokenInv ==
    /\ phase = "history" => interval = HistoryInterval /\ Formed(env) /\ PastEnv(input, env)
    /\ phase # "begin" => AllUsed(env, interval, att.credentials)

LEMMA ReconcileAllUsed ==
    ASSUME NEW e, Formed(e), NEW n, NEW creds, AllUsed(e, n, creds)
    PROVE  AllUsed(Reconcile(e), n, creds)
<1>0. DOMAIN e = EnvFields /\ Created(e, n)
  BY DEF Formed, AllUsed
<1>1. PICK r : r = Reconcile(e)
  OBVIOUS
<1>2. Created(r, n)
  <2>1. r.controllers = e.controllers
    BY <1>0, <1>1, ReconcileFacts
  <2> QED
    BY <1>0, <2>1 DEF Created
<1>3. \A p \in r.pods : Used(r, n, p.uid)
  <2>1. \A p \in r.pods : p \in e.pods => Used(r, n, p.uid)
    BY <1>0, <1>1, ReconcileUses DEF AllUsed
  <2>2. \A p \in r.pods : p \notin e.pods => Used(r, n, p.uid)
    BY <1>0, <1>1, ReconcileFresh
  <2> QED
    BY <2>1, <2>2
<1>4. \A c \in creds : Used(r, n, c.bound_pod)
  BY <1>0, <1>1, ReconcileUses DEF AllUsed
<1> QED
  BY <1>1, <1>2, <1>3, <1>4 DEF AllUsed

(* The scratch environment of the possible past, as it is made.            *)
LEMMA HistoryFacts ==
    ASSUME UidsApart, PodsApart, input \in Inputs, NEW v
    PROVE  /\ Formed(HistoryEnv(v)) /\ PastEnv(input, HistoryEnv(v))
           /\ Created(HistoryEnv(v), HistoryInterval)
           /\ \A p \in HistoryEnv(v).pods : ~EnginePod(p.uid)
<1>1. PICK i, e, old : i = input.inventory /\ e = HistoryEnv(v) /\ old = HistoricalPods(v)
  OBVIOUS
<1>2. Formed(i)
  BY <1>1, InventoryFormed
<1>a. PICK added : added = {CHOOSE p \in old : p.uid = uid : uid \in UidsOf(old) \ UidsOf(i.pods)}
  OBVIOUS
<1>b. added \subseteq old
  BY <1>a DEF UidsOf
<1>3. /\ DOMAIN e = EnvFields /\ e.accounts = i.accounts /\ e.controllers = i.controllers
      /\ e.counter = i.counter /\ e.pods = i.pods \cup added
  BY <1>1, <1>2, <1>a DEF HistoryEnv, Inventory, Formed, EnvFields
<1>4. \A p \in old : ~EnginePod(p.uid) /\ p.controller = None
  BY <1>1 DEF HistoricalPods, Believed, PodsApart
<1>5. IsFiniteSet(old)
  <2> DEFINE made(h) == [uid |-> h.uid, name |-> h.uid, account |-> h.account, audiences |-> {},
                         controller |-> None]
             f == [x \in input.initial_facts |-> made(x.arg)]
             image == {made(x.arg) : x \in input.initial_facts}
  <2>1. f \in Surjection(input.initial_facts, image)
    BY DEF Surjection
  <2>2. old \subseteq image
    BY <1>1 DEF HistoricalPods, Believed
  <2>3. IsFiniteSet(input.initial_facts)
    BY CaseAssumption
  <2> HIDE DEF f, image
  <2>4. IsFiniteSet(image)
    BY <2>1, <2>3, FS_Surjection
  <2> QED
    BY <2>2, <2>4, FS_Subset
<1>6. IsFiniteSet(e.pods)
  <2>2. IsFiniteSet(added)
    BY <1>5, <1>b, FS_Subset
  <2>3. IsFiniteSet(i.pods)
    BY <1>2 DEF Formed
  <2>4. IsFiniteSet(i.pods \cup added)
    BY <2>2, <2>3, FS_Union
  <2> QED
    BY <1>3, <2>4
<1>7. \A p \in e.pods : ~EnginePod(p.uid)
  BY <1>1, <1>3, <1>4, <1>b DEF PodsApart
<1>8. \A u : MadePod(u) => EnginePod(u)
  BY DEF MadePod, EnginePod
<1>9. Formed(e)
  BY <1>2, <1>3, <1>4, <1>6, <1>8, <1>b DEF Formed, UidsApart
<1>10. Created(e, HistoryInterval)
  BY <1>1, <1>3 DEF Created, UidsApart, MadeController, DeployUid
<1>11. PastEnv(input, e)
  <2>1. \A c : CounterOf(e, c) = CounterOf(i, c)
    BY <1>3 DEF CounterOf
  <2>2. \A c, k : ReplicaUid(c, k) \notin UidsOf(e.pods)
    BY <1>7 DEF UidsOf, EnginePod
  <2>3. Orphaned(e) \subseteq Orphaned(i)
    BY <1>3 DEF Orphaned
  <2>4. \A c : CounterOf(e, c) <= CounterOf(Reconcile(i), c)
    BY <1>2, <2>1, ReconcileCounts
  <2> QED
    BY <1>1, <1>3, <2>1, <2>2, <2>3, <2>4 DEF PastEnv
<1> QED
  BY <1>1, <1>7, <1>9, <1>10, <1>11

(* Controllers that are created there take the others along only as far as *)
(* the main phase does.                                                    *)
LEMMA PastControllers ==
    ASSUME UidsApart, NEW i \in Inputs, NEW e, DOMAIN e = EnvFields, PastEnv(i, e), NEW new,
           NEW r, r = WithControllers(e, new), Formed(r),
           \A c \in e.controllers : CounterOf(r, c) = CounterOf(e, c)
    PROVE  PastEnv(i, Reconcile(r))
<1>1. r.pods = e.pods /\ r.controllers = e.controllers \cup new
  BY WithControllersFacts
<1>2. PICK q, inv : q = Reconcile(r) /\ inv = i.inventory
  OBVIOUS
<1>3. Orphaned(q) = {} /\ q.controllers = r.controllers
  BY <1>2, ReconcileForms, ReconcileFacts DEF Formed
<1>4. Formed(inv)
  BY <1>2, InventoryFormed
<1>5. ASSUME NEW c \in inv.controllers PROVE CounterOf(q, c) <= CounterOf(Reconcile(inv), c)
  <2>1. c \in e.controllers /\ CounterOf(r, c) = CounterOf(e, c)
    BY <1>2, <1>5 DEF PastEnv
  <2>2. CASE c \in Orphaned(r)
    <3>1. c \in Orphaned(e)
      BY <1>1, <2>1, <2>2 DEF Orphaned
    <3>2. /\ CounterOf(e, c) = CounterOf(inv, c) /\ c \in Orphaned(inv)
          /\ \A k : ReplicaUid(c.uid, k) \notin UidsOf(r.pods)
      BY <1>1, <1>2, <1>5, <3>1 DEF PastEnv
    <3>3. PICK m, k0 : m = NextReplica(r, c) /\ k0 = CounterOf(r, c) + 1
      OBVIOUS
    <3>4. /\ m \in Nat /\ k0 \in Nat /\ m >= k0
          /\ \A k \in k0..m - 1 : ReplicaUid(c.uid, k) \in UidsOf(r.pods)
      BY <3>3, NextReplicaFacts
    <3>5. m = k0
      <4>1. ASSUME m > k0 PROVE FALSE
        <5>1. k0 \in k0..m - 1
          BY <3>4, <4>1
        <5> QED
          BY <3>2, <3>4, <5>1
      <4> QED
        BY <3>4, <4>1
    <3>6. CounterOf(q, c) = m
      BY <1>2, <2>2, <3>3, ReconcileCounts
    <3>7. CounterOf(Reconcile(inv), c) = NextReplica(inv, c)
      BY <1>4, <3>2, ReconcileCounts
    <3>8. NextReplica(inv, c) \in Nat /\ NextReplica(inv, c) >= CounterOf(inv, c) + 1
      BY <1>4, NextReplicaFacts
    <3> QED
      BY <2>1, <3>2, <3>3, <3>4, <3>5, <3>6, <3>7, <3>8
  <2>3. CASE c \notin Orphaned(r)
    <3>1. \A d \in Orphaned(r) : d.uid # c.uid
      BY <1>1, <2>1, <2>3 DEF Orphaned
    <3>2. CounterOf(q, c) = CounterOf(r, c)
      BY <1>2, <3>1, ReconcileCounts
    <3> QED
      BY <1>2, <1>5, <2>1, <3>2 DEF PastEnv
  <2> QED
    BY <2>2, <2>3
<1>6. \A c \in inv.controllers : c \in q.controllers
  BY <1>1, <1>2, <1>3 DEF PastEnv
<1> QED
  BY <1>2, <1>3, <1>5, <1>6 DEF PastEnv

(* The main phase starts with the tokens of the possible past.             *)
LEMMA MainStarts ==
    ASSUME UidsApart, PodsApart, NEW i \in Inputs, NEW creds,
           \A c \in creds : \/ ~EnginePod(c.bound_pod)
                            \/ \E e : /\ Formed(e) /\ PastEnv(i, e)
                                       /\ Used(e, HistoryInterval, c.bound_pod)
    PROVE  AllUsed(Reconcile(i.inventory), 0, creds)
<1>1. PICK inv, r : inv = i.inventory /\ r = Reconcile(inv)
  OBVIOUS
<1>2. Formed(inv)
  BY <1>1, InventoryFormed
<1>3. r.controllers = inv.controllers
  BY <1>1, <1>2, ReconcileFacts DEF Formed
<1>4. AllUsed(inv, 0, {})
  <2>1. Created(inv, 0)
    BY <1>1 DEF Created, UidsApart, MadeController, DeployUid
  <2>2. \A p \in inv.pods : Used(inv, 0, p.uid)
    BY <1>1, OwnUsed DEF PodsApart
  <2> QED
    BY <2>1, <2>2 DEF AllUsed
<1>5. AllUsed(r, 0, {})
  BY <1>1, <1>2, <1>4, ReconcileAllUsed
<1>6. ASSUME NEW e, Formed(e), PastEnv(i, e), NEW uid, Used(e, HistoryInterval, uid)
      PROVE  Used(r, 0, uid)
  <2>1. ASSUME NEW u, NEW k, uid = ReplicaUid(u, k), NEW c \in r.controllers, c.uid = u
        PROVE  k \in Int /\ k <= CounterOf(r, c)
    <3>1. c \in e.controllers /\ CounterOf(e, c) <= CounterOf(r, c)
      BY <1>1, <1>3, <1>6, <2>1 DEF PastEnv
    <3>2. k \in Int /\ k <= CounterOf(e, c)
      BY <1>6, <2>1, <3>1 DEF Used
    <3>3. CounterOf(r, c) \in Int /\ CounterOf(e, c) \in Int
      BY <1>1, <1>2, <1>6, ReconcileCounts
    <3> QED
      BY <3>1, <3>2, <3>3
  <2>2. ASSUME NEW u, NEW k, uid = ReplicaUid(u, k), NEW a, NEW j, u = ModelControllerUid(a, j)
        PROVE  j \in Int /\ j <= 0 /\ j # 0
    <3>1. j \in Int /\ j <= HistoryInterval
      BY <1>6, <2>2 DEF Used
    <3> QED
      BY <3>1 DEF HistoryInterval
  <2>3. ASSUME NEW a, NEW j, uid = ModelPodUid(a, j) PROVE j \in Int /\ j <= 0 /\ j # 0
    <3>1. j \in Int /\ j <= HistoryInterval
      BY <1>6, <2>3 DEF Used
    <3> QED
      BY <3>1 DEF HistoryInterval
  <2> QED
    BY <2>1, <2>2, <2>3 DEF Used
<1>7. \A c \in creds : Used(r, 0, c.bound_pod)
  BY <1>6, OwnUsed
<1> QED
  BY <1>1, <1>5, <1>7 DEF AllUsed

(* The workloads of this interval have its number.                         *)
LEMMA NewUids ==
    /\ \A p \in NewPods : p.uid \notin UidsOf(env.pods) /\ \E a : p.uid = ModelPodUid(a, interval)
    /\ \A c \in NewControllers : /\ c.uid \notin UidsOf(env.controllers)
                                /\ \E a : c.uid = ModelControllerUid(a, interval)
BY DEF NewPods, NewControllers

(* A token is bound to a pod that is there.                                *)
LEMMA TokensBound ==
    ASSUME NEW e, NEW pods, NEW t \in TokensFrom(e, pods)
    PROVE  \E p \in e.pods : t.bound_pod = p.uid
<1>1. PICK p \in e.pods : \E aud : t = ProjectedToken(e, p, aud)
  BY DEF TokensFrom
<1> QED
  BY <1>1 DEF ProjectedToken

LEMMA TokenInit == Init => TokenInv
BY DEF Init, TokenInv

(* The number of the interval that is run.                                 *)
LEMMA Running ==
    ASSUME ResultsInv, TokenInv, phase \in {"history", "main"}
    PROVE  /\ interval \in Int /\ Formed(env) /\ AllUsed(env, interval, att.credentials)
           /\ DOMAIN env = EnvFields /\ IsFiniteSet(env.accounts)
BY CaseAssumption DEF ResultsInv, TokenInv, MainEnv, HistoryInterval, Formed

LEMMA TokenNext ==
    ASSUME UidsApart, PodsApart, ResultsInv, TokenInv, [Next]_vars
    PROVE  TokenInv'
<1>0. input \in Inputs
  BY DEF ResultsInv
<1>1. CASE BeginHistory
  <2>1. PICK e, creds : e = HistoryEnv(View) /\ creds = Believed("possesses_credential", View)
    OBVIOUS
  <2>2. /\ env' = e /\ phase' = "history" /\ interval' = HistoryInterval /\ input' = input
        /\ att'.credentials = creds
    BY <1>1, <2>1 DEF BeginHistory, InitialFacts
  <2>3. /\ Formed(e) /\ PastEnv(input, e) /\ Created(e, HistoryInterval)
        /\ \A p \in e.pods : ~EnginePod(p.uid)
    BY <1>0, <2>1, HistoryFacts
  <2>4. \A c \in creds : ~EnginePod(c.bound_pod)
    BY <1>0, <2>1 DEF Believed, PodsApart
  <2>5. AllUsed(e, HistoryInterval, creds)
    BY <2>3, <2>4, OwnUsed DEF AllUsed
  <2> QED
    BY <2>2, <2>3, <2>5 DEF TokenInv
<1>2. CASE BeginMain
  <2>1. PICK i, creds : i = input /\ creds = Believed("possesses_credential", View)
    OBVIOUS
  <2>2. /\ env' = Reconcile(i.inventory) /\ phase' = "main" /\ interval' = 0
        /\ att'.credentials = creds
    BY <1>2, <2>1 DEF BeginMain, InitialFacts, Inventory
  <2>3. \A c \in creds : ~EnginePod(c.bound_pod)
    BY <1>0, <2>1 DEF Believed, PodsApart
  <2>4. AllUsed(Reconcile(i.inventory), 0, creds)
    BY <1>0, <2>1, <2>3, MainStarts
  <2> QED
    BY <2>2, <2>4 DEF TokenInv
<1>3. CASE EndHistory
  <2>1. PICK i, e, creds : i = input /\ e = env /\ creds = att.credentials
    OBVIOUS
  <2>2. /\ phase = "history" /\ env' = Reconcile(i.inventory) /\ phase' = "main" /\ interval' = 0
        /\ att'.credentials = creds
    BY <1>3, <2>1 DEF EndHistory, Inventory
  <2>3. Formed(e) /\ PastEnv(i, e) /\ \A c \in creds : Used(e, HistoryInterval, c.bound_pod)
    BY <2>1, <2>2 DEF TokenInv, AllUsed
  <2>4. AllUsed(Reconcile(i.inventory), 0, creds)
    BY <1>0, <2>1, <2>3, MainStarts
  <2> QED
    BY <2>2, <2>4 DEF TokenInv
<1>4. CASE ControllerPod \/ ExecPod \/ ReadSecret \/ DownstreamCredential \/ UseDownstream
  <2>1. /\ phase' = phase /\ interval' = interval /\ env' = env /\ input' = input
        /\ phase \in {"history", "main"}
    BY <1>4 DEF ControllerPod, ExecPod, ReadSecret, DownstreamCredential, UseDownstream, Apply,
                Sweeping
  <2>2. \/ att' = [att EXCEPT !.pods = @ \cup OwnedPods]
        \/ att' = [att EXCEPT !.pods = @ \cup ExecPods]
        \/ att' = [att EXCEPT !.secrets = @ \cup ReadVersions]
        \/ att' = [att EXCEPT !.downstream = @ \cup DownstreamKnown]
        \/ att' = att
    BY <1>4 DEF ControllerPod, ExecPod, ReadSecret, DownstreamCredential, UseDownstream
  <2>3. att'.credentials = att.credentials
    <3>1. CASE att' = [att EXCEPT !.pods = @ \cup OwnedPods]
      BY <3>1
    <3>2. CASE att' = [att EXCEPT !.pods = @ \cup ExecPods]
      BY <3>2
    <3>3. CASE att' = [att EXCEPT !.secrets = @ \cup ReadVersions]
      BY <3>3
    <3>4. CASE att' = [att EXCEPT !.downstream = @ \cup DownstreamKnown]
      BY <3>4
    <3> QED
      BY <2>2, <3>1, <3>2, <3>3, <3>4
  <2> QED
    BY <2>1, <2>3 DEF TokenInv
<1>5. CASE ObtainToken
  <2>1. /\ phase' = phase /\ interval' = interval /\ env' = env /\ input' = input
        /\ phase \in {"history", "main"}
        /\ att' = [att EXCEPT !.credentials =
                      StaleTokens \cup {c \in @ : \A t \in StaleTokens : t.id # c.id}]
    BY <1>5 DEF ObtainToken, Apply, Sweeping
  <2>2. AllUsed(env, interval, att.credentials)
    BY <2>1 DEF TokenInv
  <2>3. \A c \in StaleTokens : Used(env, interval, c.bound_pod)
    BY <2>2, TokensBound DEF StaleTokens, AllUsed
  <2>4. \A c \in att'.credentials : c \in StaleTokens \/ c \in att.credentials
    BY <2>1
  <2>5. AllUsed(env, interval, att'.credentials)
    BY <2>2, <2>3, <2>4 DEF AllUsed
  <2> QED
    BY <2>1, <2>5 DEF TokenInv
<1>6. CASE CreatePod
  <2>1. PICK e, r, new, n : e = env /\ r = env' /\ new = NewPods /\ n = interval
    OBVIOUS
  <2>2. /\ phase \in {"history", "main"} /\ phase' = phase /\ interval' = n /\ input' = input
        /\ r = [e EXCEPT !.pods = @ \cup new] /\ att' = [att EXCEPT !.pods = @ \cup UidsOf(new)]
    BY <1>6, <2>1 DEF CreatePod, Apply, Sweeping
  <2>3. PICK creds : creds = att.credentials
    OBVIOUS
  <2>4. att'.credentials = creds
    BY <2>2, <2>3
  <2>5. n \in Int /\ Formed(e) /\ AllUsed(e, n, creds)
    BY <2>1, <2>2, <2>3, Running
  <2>6. IsFiniteSet(new) /\ \A p \in new : MadePod(p.uid) /\ p.controller = None
    BY <2>1, <2>2, Running, NewPodsFacts
  <2>7. /\ Formed(r) /\ r.controllers = e.controllers /\ r.counter = e.counter
        /\ r.pods = e.pods \cup new
    BY <2>2, <2>5, <2>6, PodsCreated
  <2>8. \A p \in new : p.uid \notin UidsOf(e.pods) /\ \E a : p.uid = ModelPodUid(a, n)
    BY <2>1, NewUids
  <2>9. /\ \A uid : Used(e, n, uid) => Used(r, n, uid)
        /\ \A p \in new : Used(r, n, p.uid)
    BY <2>5, <2>7, <2>8, PodsUse
  <2>10. AllUsed(r, n, creds)
    BY <2>5, <2>7, <2>9 DEF AllUsed, Created
  <2>11. ASSUME phase = "history" PROVE PastEnv(input, r)
    <3>1. PastEnv(input, e)
      BY <2>1, <2>11 DEF TokenInv
    <3>2. \A c : CounterOf(r, c) = CounterOf(e, c)
      BY <2>7 DEF CounterOf
    <3>3. Orphaned(r) \subseteq Orphaned(e)
      BY <2>7 DEF Orphaned
    <3>4. \A c, k : ReplicaUid(c, k) \in UidsOf(r.pods) => ReplicaUid(c, k) \in UidsOf(e.pods)
      BY <2>7, <2>8, EngineUidsDiffer DEF UidsOf
    <3> QED
      BY <2>7, <3>1, <3>2, <3>3, <3>4 DEF PastEnv
  <2> QED
    BY <2>1, <2>2, <2>4, <2>7, <2>10, <2>11 DEF TokenInv
<1>7. CASE CreateController
  <2>1. PICK e, new, n, creds : e = env /\ new = NewControllers /\ n = interval /\ creds = att.credentials
    OBVIOUS
  <2>2. /\ phase \in {"history", "main"} /\ phase' = phase /\ interval' = n /\ input' = input
        /\ att' = [att EXCEPT !.controllers = @ \cup UidsOf(new)]
    BY <1>7, <2>1 DEF CreateController, Apply, Sweeping
  <2>3. att'.credentials = creds
    BY <2>1, <2>2
  <2>4. n \in Int /\ Formed(e) /\ DOMAIN e = EnvFields /\ AllUsed(e, n, creds)
    BY <2>1, <2>2, Running
  <2>5. CASE new = {}
    <3>1. env' = e
      BY <1>7, <2>1, <2>5 DEF CreateController
    <3> QED
      BY <2>1, <2>2, <2>3, <3>1 DEF TokenInv
  <2>6. CASE new # {}
    <3>1. PICK r : r = WithControllers(e, new)
      OBVIOUS
    <3>2. env' = Reconcile(r)
      BY <1>7, <2>1, <2>6, <3>1 DEF CreateController, WithControllers
    <3>3. IsFiniteSet(new) /\ \A c \in new : MadeController(c.uid) /\ c.uid # None
      BY <2>1, <2>2, Running, NewControllersFacts DEF UidsApart
    <3>4. Formed(r) /\ r.pods = e.pods
      BY <2>4, <3>1, <3>3, ControllersCreated, WithControllersFacts
    <3>5. \A c \in new : c.uid \notin UidsOf(e.controllers) /\ \E a : c.uid = ModelControllerUid(a, n)
      BY <2>1, NewUids
    <3>6. /\ Created(r, n) /\ \A c \in e.controllers : CounterOf(r, c) = CounterOf(e, c)
          /\ \A uid : Used(e, n, uid) => Used(r, n, uid)
      BY <2>4, <3>1, <3>5, ControllersUse DEF AllUsed
    <3>7. AllUsed(r, n, creds)
      BY <2>4, <3>4, <3>6 DEF AllUsed
    <3>8. AllUsed(Reconcile(r), n, creds)
      BY <3>4, <3>7, ReconcileAllUsed
    <3>9. ASSUME phase = "history" PROVE PastEnv(input, Reconcile(r))
      <4>1. PastEnv(input, e)
        BY <2>1, <3>9 DEF TokenInv
      <4> QED
        BY <1>0, <2>4, <3>1, <3>4, <3>6, <4>1, PastControllers
    <3>10. Formed(Reconcile(r))
      BY <3>4, ReconcileForms
    <3> QED
      BY <2>1, <2>2, <2>3, <3>2, <3>8, <3>9, <3>10 DEF TokenInv
  <2> QED
    BY <2>5, <2>6
<1>8. CASE Remediate
  <2>1. PICK e, i, n, creds : e = env /\ i = input /\ n = interval /\ creds = att.credentials
    OBVIOUS
  <2>2. PICK a, q : a = i.remediation[n + 1] /\ q = ApplyDefenderAction(e, a)
    OBVIOUS
  <2>3. /\ phase = "main" /\ phase' = "main" /\ interval' = n + 1 /\ n < Len(i.remediation)
        /\ env' = Reconcile(q) /\ att'.credentials = creds
    BY <1>8, <2>1, <2>2 DEF Remediate
  <2>4. n \in Int /\ Formed(e) /\ DOMAIN e = EnvFields /\ AllUsed(e, n, creds)
    BY <2>1, <2>3, Running
  <2>5. n + 1 \in 1..Len(i.remediation)
    BY <2>1, <2>3, <1>0, CaseAssumption DEF ResultsInv, MainEnv
  <2>6. a.kind \in ActionKinds
    BY <1>0, <2>1, <2>2, <2>5, CaseAssumption
  <2>7. Narrows(q, e) /\ Formed(q)
    BY <2>2, <2>4, <2>6, ApplyNarrows, NarrowsForms
  <2>8. /\ Created(q, n + 1)
        /\ \A uid : Used(e, n, uid) => Used(q, n + 1, uid)
    BY <2>4, <2>7, NarrowsUse DEF AllUsed
  <2>9. AllUsed(q, n + 1, creds)
    BY <2>4, <2>7, <2>8 DEF AllUsed, Narrows
  <2>10. AllUsed(Reconcile(q), n + 1, creds)
    BY <2>7, <2>9, ReconcileAllUsed
  <2> QED
    BY <2>3, <2>10 DEF TokenInv
<1>9. CASE FinishView \/ ExceedBounds
  BY <1>9 DEF FinishView, ExceedBounds, EndView, TokenInv
<1>10. CASE Stop \/ UNCHANGED vars
  BY <1>10 DEF Stop, vars, TokenInv
<1> QED
  BY <1>1, <1>2, <1>3, <1>4, <1>5, <1>6, <1>7, <1>8, <1>9, <1>10 DEF Next

(* The invariant that goes with it: every pod's UID and everything that a  *)
(* token is bound to is used up.                                           *)
THEOREM UidsUsedUp ==
    ASSUME UidsApart, PodsApart
    PROVE  Spec => []TokenInv
<1>1. ResultsInv /\ TokenInv /\ [Next]_vars => TokenInv'
  BY TokenNext
<1> QED
  BY <1>1, TokenInit, RemediationReplayed, PTL DEF Spec

(* Pods that an attacker or a controller makes have UIDs that no token was *)
(* bound to before.                                                        *)
NewPodsUnknown(surviving) ==
    \A p \in env'.pods \ surviving : \A c \in att.credentials : c.bound_pod # p.uid

LEMMA TokensStep ==
    ASSUME UidsApart, PodsApart, ResultsInv, TokenInv, [Next]_vars, view' = view, phase' = phase
    PROVE  NewPodsUnknown(IF interval' = interval THEN env.pods
                          ELSE ApplyDefenderAction(env, input.remediation[interval']).pods)
<1>0. input \in Inputs
  BY DEF ResultsInv
<1>1. ASSUME env' = env, interval' = interval
      PROVE  NewPodsUnknown(IF interval' = interval THEN env.pods
                            ELSE ApplyDefenderAction(env, input.remediation[interval']).pods)
  BY <1>1 DEF NewPodsUnknown
<1>2. CASE ControllerPod \/ ObtainToken \/ ExecPod \/ ReadSecret \/ DownstreamCredential
           \/ UseDownstream \/ Stop \/ UNCHANGED vars
  BY <1>1, <1>2 DEF ControllerPod, ObtainToken, ExecPod, ReadSecret, DownstreamCredential,
                    UseDownstream, Apply, Stop, vars
<1>3. CASE BeginHistory \/ BeginMain \/ EndHistory
  BY <1>3 DEF BeginHistory, BeginMain, EndHistory
<1>4. CASE FinishView \/ ExceedBounds
  <2>1. view' = view + 1 /\ view \in 1..3
    BY <1>4 DEF FinishView, ExceedBounds, EndView, ResultsInv
  <2> QED
    BY <2>1
<1>5. CASE CreatePod
  <2>1. PICK e, r, new, n : e = env /\ r = env' /\ new = NewPods /\ n = interval
    OBVIOUS
  <2>2. /\ phase \in {"history", "main"} /\ interval' = interval
        /\ r = [e EXCEPT !.pods = @ \cup new]
    BY <1>5, <2>1 DEF CreatePod, Apply, Sweeping
  <2>3. n \in Int /\ Formed(e) /\ AllUsed(e, n, att.credentials)
    BY <2>1, <2>2, Running
  <2>4. r.pods = e.pods \cup new /\ r.controllers = e.controllers /\ r.counter = e.counter
    BY <2>2, <2>3 DEF Formed, EnvFields
  <2>5. \A p \in new : p.uid \notin UidsOf(e.pods) /\ \E a : p.uid = ModelPodUid(a, n)
    BY <2>1, NewUids
  <2>6. \A p \in new : \A uid : Used(e, n, uid) => uid # p.uid
    BY <2>3, <2>4, <2>5, PodsUse
  <2>7. \A p \in r.pods \ e.pods : \A c \in att.credentials : c.bound_pod # p.uid
    BY <2>3, <2>4, <2>6 DEF AllUsed
  <2> QED
    BY <2>1, <2>2, <2>7 DEF NewPodsUnknown
<1>6. CASE CreateController
  <2>1. PICK e, new, n : e = env /\ new = NewControllers /\ n = interval
    OBVIOUS
  <2>2. phase \in {"history", "main"} /\ interval' = interval
    BY <1>6 DEF CreateController, Apply, Sweeping
  <2>3. CASE new = {}
    BY <1>1, <1>6, <2>1, <2>2, <2>3 DEF CreateController
  <2>4. CASE new # {}
    <3>1. PICK r : r = WithControllers(e, new)
      OBVIOUS
    <3>2. env' = Reconcile(r)
      BY <1>6, <2>1, <2>4, <3>1 DEF CreateController, WithControllers
    <3>3. n \in Int /\ Formed(e) /\ DOMAIN e = EnvFields /\ AllUsed(e, n, att.credentials)
      BY <2>1, <2>2, Running
    <3>4. IsFiniteSet(new) /\ \A c \in new : MadeController(c.uid) /\ c.uid # None
      BY <2>1, <2>2, Running, NewControllersFacts DEF UidsApart
    <3>5. Formed(r) /\ r.pods = e.pods
      BY <3>1, <3>3, <3>4, ControllersCreated, WithControllersFacts
    <3>6. \A c \in new : c.uid \notin UidsOf(e.controllers) /\ \E a : c.uid = ModelControllerUid(a, n)
      BY <2>1, NewUids
    <3>7. Created(r, n) /\ \A uid : Used(e, n, uid) => Used(r, n, uid)
      BY <3>1, <3>3, <3>6, ControllersUse DEF AllUsed
    <3>8. \A p \in Reconcile(r).pods : p \notin r.pods => \A uid : Used(r, n, uid) => uid # p.uid
      BY <3>5, <3>7, ReconcileFresh
    <3>9. \A c \in att.credentials : Used(r, n, c.bound_pod)
      BY <3>3, <3>7 DEF AllUsed
    <3>10. \A p \in env'.pods \ env.pods : \A c \in att.credentials : c.bound_pod # p.uid
      BY <2>1, <3>2, <3>5, <3>8, <3>9
    <3> QED
      BY <2>2, <3>10 DEF NewPodsUnknown
  <2> QED
    BY <2>3, <2>4
<1>7. CASE Remediate
  <2>1. PICK e, i, n : e = env /\ i = input /\ n = interval
    OBVIOUS
  <2>2. PICK a, q : a = i.remediation[n + 1] /\ q = ApplyDefenderAction(e, a)
    OBVIOUS
  <2>3. /\ phase = "main" /\ interval' = n + 1 /\ n < Len(i.remediation) /\ env' = Reconcile(q)
    BY <1>7, <2>1, <2>2 DEF Remediate
  <2>4. n \in Int /\ Formed(e) /\ DOMAIN e = EnvFields /\ AllUsed(e, n, att.credentials)
    BY <2>1, <2>3, Running
  <2>5. n + 1 \in 1..Len(i.remediation)
    BY <1>0, <2>1, <2>3, CaseAssumption DEF ResultsInv, MainEnv
  <2>6. a.kind \in ActionKinds
    BY <1>0, <2>1, <2>2, <2>5, CaseAssumption
  <2>7. Narrows(q, e) /\ Formed(q)
    BY <2>2, <2>4, <2>6, ApplyNarrows, NarrowsForms
  <2>8. Created(q, n + 1) /\ \A uid : Used(e, n, uid) => Used(q, n + 1, uid)
    BY <2>4, <2>7, NarrowsUse DEF AllUsed
  <2>9. \A p \in Reconcile(q).pods : p \notin q.pods => \A uid : Used(q, n + 1, uid) => uid # p.uid
    BY <2>7, <2>8, ReconcileFresh
  <2>10. \A c \in att.credentials : Used(q, n + 1, c.bound_pod)
    BY <2>4, <2>8 DEF AllUsed
  <2>11. NewPodsUnknown(q.pods)
    BY <2>3, <2>9, <2>10 DEF NewPodsUnknown
  <2>12. interval' # interval
    BY <2>1, <2>3, <2>4
  <2>13. ApplyDefenderAction(env, input.remediation[interval']) = q
    BY <2>1, <2>2, <2>3
  <2> QED
    BY <2>11, <2>12, <2>13
<1> QED
  BY <1>2, <1>3, <1>4, <1>5, <1>6, <1>7 DEF Next

(* S-TOK-4 for every input: a token that was bound to a pod that is gone   *)
(* stays dead; neither reconcile_controllers nor an attacker's workload    *)
(* brings its UID back, in the possible past or under any remediation.     *)
THEOREM TokensStayDead ==
    ASSUME UidsApart, PodsApart
    PROVE  Spec => NoTokenRevived
<1>1. ResultsInv /\ TokenInv /\ [Next]_vars =>
        [view' = view /\ phase' = phase =>
           LET surviving == IF interval' = interval THEN env.pods
                            ELSE ApplyDefenderAction(env, input.remediation[interval']).pods
           IN  \A p \in env'.pods \ surviving :
                  \A c \in att.credentials : c.bound_pod # p.uid]_vars
  BY TokensStep DEF NewPodsUnknown
<1> QED
  BY <1>1, RemediationReplayed, UidsUsedUp, PTL DEF Spec, NoTokenRevived
-----------------------------------------------------------------------------
(* How much an analysis derives.                                           *)

UniqueUids(S) == \A x, y \in S : x.uid = y.uid => x = y

SecretNames(e) == {s.secret : s \in e.secrets}
ServiceNames(e) == {s.name : s \in e.services}

(* The dictionaries of an environment have their keys, and those of the    *)
(* secrets and the services are the input's.                               *)
Keyed(i, e) ==
    /\ e.time \in Int
    /\ IsFiniteSet(e.secrets) /\ IsFiniteSet(e.services)
    /\ SecretNames(e) = SecretNames(i.inventory) /\ ServiceNames(e) = ServiceNames(i.inventory)
    /\ \A s \in e.secrets : "secret" \in DOMAIN s
    /\ \A s \in e.services : "name" \in DOMAIN s
    /\ UniqueUids(e.pods) /\ UniqueUids(e.controllers)
    /\ \A p \in e.pods : IsFiniteSet(p.audiences)
    /\ \A c \in e.controllers : IsFiniteSet(c.audiences)

LEMMA InventoryKeyed ==
    ASSUME NEW i \in Inputs
    PROVE  Keyed(i, i.inventory)
BY CaseAssumption DEF Keyed, UniqueUids

(* The scratch environment has one pod for a UID, too.                     *)
LEMMA HistoryKeyed ==
    ASSUME input \in Inputs, NEW v
    PROVE  Keyed(input, HistoryEnv(v))
<1>1. PICK i, e, old : i = input.inventory /\ e = HistoryEnv(v) /\ old = HistoricalPods(v)
  OBVIOUS
<1>2. PICK gone, added : /\ gone = UidsOf(old) \ UidsOf(i.pods)
                         /\ added = {CHOOSE p \in old : p.uid = uid : uid \in gone}
  OBVIOUS
<1>3. DOMAIN i = EnvFields /\ Keyed(input, i)
  BY <1>1, InventoryKeyed, CaseAssumption
<1>4. /\ e.time = i.time /\ e.secrets = i.secrets /\ e.services = i.services
      /\ e.controllers = i.controllers /\ e.pods = i.pods \cup added
  BY <1>1, <1>2, <1>3 DEF HistoryEnv, Inventory, EnvFields
<1>5. \A p \in old : p.audiences = {}
  BY <1>1 DEF HistoricalPods
<1>6. \A uid \in gone : \E p \in old : p.uid = uid
  BY <1>2 DEF UidsOf
<1>7. ASSUME NEW p \in added PROVE p \in old /\ p.uid \in gone /\ p = CHOOSE q \in old : q.uid = p.uid
  <2>1. PICK uid \in gone : p = CHOOSE q \in old : q.uid = uid
    BY <1>2, <1>7
  <2>2. p \in old /\ p.uid = uid
    BY <1>6, <2>1
  <2> QED
    BY <2>1, <2>2
<1>8. \A p \in added, q \in i.pods : p.uid # q.uid
  BY <1>2, <1>7 DEF UidsOf
<1>9. \A p, q \in added : p.uid = q.uid => p = q
  BY <1>7
<1>10. UniqueUids(i.pods) /\ \A p \in i.pods : IsFiniteSet(p.audiences)
  BY <1>3 DEF Keyed
<1>11. UniqueUids(e.pods)
  BY <1>4, <1>8, <1>9, <1>10 DEF UniqueUids
<1>12. \A p \in e.pods : IsFiniteSet(p.audiences)
  BY <1>4, <1>5, <1>7, <1>10, FS_EmptySet
<1>13. SecretNames(e) = SecretNames(i) /\ ServiceNames(e) = ServiceNames(i)
  BY <1>4 DEF SecretNames, ServiceNames
<1>14. Keyed(input, e)
  BY <1>3, <1>4, <1>11, <1>12, <1>13 DEF Keyed
<1> QED
  BY <1>1, <1>14

(* reconcile_controllers looks for a UID that is free.                     *)
LEMMA ReconcileKeyed ==
    ASSUME NEW i, NEW e, Formed(e), Keyed(i, e)
    PROVE  Keyed(i, Reconcile(e))
<1>1. PICK r, new : r = Reconcile(e) /\ new = {PodOf(c, NextReplica(e, c)) : c \in Orphaned(e)}
  OBVIOUS
<1>2. /\ r.time = e.time /\ r.secrets = e.secrets /\ r.services = e.services
      /\ r.controllers = e.controllers /\ r.pods = e.pods \cup new
  BY <1>1, ReconcileFacts DEF Formed
<1>3. Orphaned(e) \subseteq e.controllers
  BY DEF Orphaned
<1>4. ASSUME NEW p \in new
      PROVE  \E c \in e.controllers : /\ p = PodOf(c, NextReplica(e, c))
                                      /\ p.uid = ReplicaUid(c.uid, NextReplica(e, c))
                                      /\ p.uid \notin UidsOf(e.pods)
                                      /\ IsFiniteSet(p.audiences)
  <2>1. PICK c \in Orphaned(e) : p = PodOf(c, NextReplica(e, c))
    BY <1>1, <1>4
  <2>2. c \in e.controllers /\ p.uid = ReplicaUid(c.uid, NextReplica(e, c))
    BY <1>3, <2>1, PodOfFacts
  <2>3. p.uid \notin UidsOf(e.pods)
    BY <2>2, NextReplicaFacts
  <2>4. p.audiences = c.audiences
    BY <2>1 DEF PodOf
  <2>5. IsFiniteSet(p.audiences)
    BY <2>2, <2>4 DEF Keyed
  <2> QED
    BY <2>1, <2>2, <2>3, <2>5
<1>5. ASSUME NEW p \in new, NEW q \in new, p.uid = q.uid PROVE p = q
  <2>1. PICK c \in e.controllers : /\ p = PodOf(c, NextReplica(e, c))
                                   /\ p.uid = ReplicaUid(c.uid, NextReplica(e, c))
    BY <1>4
  <2>2. PICK d \in e.controllers : /\ q = PodOf(d, NextReplica(e, d))
                                   /\ q.uid = ReplicaUid(d.uid, NextReplica(e, d))
    BY <1>4
  <2>3. c.uid = d.uid
    BY <1>5, <2>1, <2>2 DEF ReplicaUid
  <2>4. c = d
    BY <2>3 DEF Keyed, UniqueUids
  <2> QED
    BY <2>1, <2>2, <2>4
<1>6. \A p \in new, q \in e.pods : p.uid # q.uid
  BY <1>4 DEF UidsOf
<1>7. UniqueUids(e.pods) /\ \A p \in e.pods : IsFiniteSet(p.audiences)
  BY DEF Keyed
<1>8. UniqueUids(r.pods)
  BY <1>2, <1>5, <1>6, <1>7 DEF UniqueUids
<1>9. \A p \in r.pods : IsFiniteSet(p.audiences)
  BY <1>2, <1>4, <1>7
<1>10. SecretNames(r) = SecretNames(e) /\ ServiceNames(r) = ServiceNames(e)
  BY <1>2 DEF SecretNames, ServiceNames
<1>11. Keyed(i, r)
  BY <1>2, <1>8, <1>9, <1>10 DEF Keyed
<1> QED
  BY <1>1, <1>11

(* Secrets and services keep their names whatever the defender does.       *)
LEMMA RotateKeyed ==
    ASSUME NEW e, NEW a, DOMAIN e = EnvFields, IsFiniteSet(e.secrets), IsFiniteSet(e.services),
           \A s \in e.secrets : "secret" \in DOMAIN s, \A s \in e.services : "name" \in DOMAIN s,
           NEW r, r = Rotate(e, a)
    PROVE  /\ r.time = e.time /\ r.pods = e.pods /\ r.controllers = e.controllers
           /\ IsFiniteSet(r.secrets) /\ IsFiniteSet(r.services)
           /\ SecretNames(r) = SecretNames(e) /\ ServiceNames(r) = ServiceNames(e)
           /\ \A s \in r.secrets : "secret" \in DOMAIN s
           /\ \A s \in r.services : "name" \in DOMAIN s
<1> DEFINE rotated == {s \in e.services : s.name = a.service}
           SourceOf(x) == {s \in rotated : s.source = x.secret}
           moved(x) == IF SourceOf(x) = {} THEN x
                       ELSE [x EXCEPT !.version = RotatedVersion(e, CHOOSE s \in SourceOf(x) : TRUE)]
           turned(s) == IF s \in rotated THEN RotateService(s, RotatedVersion(e, s), e.time) ELSE s
           f == [x \in e.secrets |-> moved(x)]
           g == [s \in e.services |-> turned(s)]
<1>1. /\ r.time = e.time /\ r.pods = e.pods /\ r.controllers = e.controllers
      /\ r.secrets = {moved(x) : x \in e.secrets} /\ r.services = {turned(s) : s \in e.services}
  BY DEF Rotate, EnvFields
<1>2. \A x \in e.secrets : "secret" \in DOMAIN moved(x) /\ moved(x).secret = x.secret
  OBVIOUS
<1>3. \A s \in e.services : "name" \in DOMAIN turned(s) /\ turned(s).name = s.name
  BY DEF RotateService
<1>4. f \in Surjection(e.secrets, r.secrets) /\ g \in Surjection(e.services, r.services)
  BY <1>1 DEF Surjection
<1> HIDE DEF f, g, moved, turned
<1>5. IsFiniteSet(r.secrets) /\ IsFiniteSet(r.services)
  BY <1>4, FS_Surjection
<1>6. SecretNames(r) = SecretNames(e)
  BY <1>1, <1>2 DEF SecretNames
<1>7. ServiceNames(r) = ServiceNames(e)
  BY <1>1, <1>3 DEF ServiceNames
<1> QED
  BY <1>1, <1>2, <1>3, <1>5, <1>6, <1>7

LEMMA ApplyKeyed ==
    ASSUME NEW i, NEW e, NEW a, DOMAIN e = EnvFields, Keyed(i, e), a.kind \in ActionKinds,
           a.kind = "wait" => a.seconds \in Nat
    PROVE  Keyed(i, ApplyDefenderAction(e, a))
<1>0. PICK r : r = ApplyDefenderAction(e, a)
  OBVIOUS
<1>1. r.pods \subseteq e.pods /\ r.controllers \subseteq e.controllers
  BY <1>0, ApplyNarrows DEF Narrows
<1>2. /\ UniqueUids(r.pods) /\ UniqueUids(r.controllers)
      /\ \A p \in r.pods : IsFiniteSet(p.audiences)
      /\ \A c \in r.controllers : IsFiniteSet(c.audiences)
  BY <1>1 DEF Keyed, UniqueUids
<1>3. CASE a.kind = "rotate_downstream_credential"
  <2>1. r = Rotate(e, a)
    BY <1>0, <1>3, ApplyCases
  <2>2. /\ r.time = e.time
        /\ IsFiniteSet(r.secrets) /\ IsFiniteSet(r.services)
        /\ SecretNames(r) = SecretNames(e) /\ ServiceNames(r) = ServiceNames(e)
        /\ \A s \in r.secrets : "secret" \in DOMAIN s
        /\ \A s \in r.services : "name" \in DOMAIN s
    BY <2>1, RotateKeyed DEF Keyed
  <2>3. Keyed(i, r)
    BY <1>2, <2>2 DEF Keyed
  <2> QED
    BY <1>0, <2>3
<1>4. CASE a.kind # "rotate_downstream_credential"
  <2>1. r.secrets = e.secrets /\ r.services = e.services /\ r.time \in Int
    <3>1. CASE a.kind = "remove_binding"
      <4>1. r = RemoveBinding(e, a)
        BY <1>0, <3>1, ApplyCases
      <4> QED
        BY <4>1 DEF RemoveBinding, EnvFields, Keyed
    <3>2. CASE a.kind = "delete_pod"
      <4>1. r = DeletePods(e, {a.uid})
        BY <1>0, <3>2, ApplyCases
      <4> QED
        BY <4>1 DEF DeletePods, EnvFields, Keyed
    <3>3. CASE a.kind = "delete_controller"
      <4>1. r = DeleteControllers(e, {a.uid})
        BY <1>0, <3>3, ApplyCases
      <4> QED
        BY <4>1 DEF DeleteControllers, EnvFields, Keyed
    <3>4. CASE a.kind = "delete_pods_except"
      <4>1. r = DeletePods(e, Selected(e.pods, a))
        BY <1>0, <3>4, ApplyCases
      <4> QED
        BY <4>1 DEF DeletePods, EnvFields, Keyed
    <3>5. CASE a.kind = "delete_controllers_except"
      <4>1. r = DeleteControllers(e, Selected(e.controllers, a))
        BY <1>0, <3>5, ApplyCases
      <4> QED
        BY <4>1 DEF DeleteControllers, EnvFields, Keyed
    <3>6. CASE a.kind = "delete_service_account"
      <4>1. r = DeleteServiceAccount(e, a)
        BY <1>0, <3>6, ApplyCases
      <4> QED
        BY <4>1 DEF DeleteServiceAccount, EnvFields, Keyed
    <3>7. CASE a.kind = "wait"
      <4>1. r = [e EXCEPT !.time = @ + a.seconds]
        BY <1>0, <3>7, ApplyCases
      <4> QED
        BY <3>7, <4>1 DEF EnvFields, Keyed
    <3> QED
      BY <1>4, <3>1, <3>2, <3>3, <3>4, <3>5, <3>6, <3>7 DEF ActionKinds
  <2>2. SecretNames(r) = SecretNames(e) /\ ServiceNames(r) = ServiceNames(e)
    BY <2>1 DEF SecretNames, ServiceNames
  <2>3. Keyed(i, r)
    BY <1>2, <2>1, <2>2 DEF Keyed
  <2> QED
    BY <1>0, <2>3
<1> QED
  BY <1>3, <1>4

(* Sizes.                                                                  *)

LEMMA Larger ==
    ASSUME NEW n \in Nat, NEW x \in Nat, NEW y \in Nat, x <= y
    PROVE  n * x \in Nat /\ n * y \in Nat /\ n * x <= n * y /\ (n + 1) * x = n * x + x
<1>1. PICK d \in Nat : y = x + d
  <2>1. y - x \in Nat /\ y = x + (y - x)
    OBVIOUS
  <2> QED
    BY <2>1
<1>2. n * y = n * x + n * d /\ n * x \in Nat /\ n * d \in Nat /\ (n + 1) * x = n * x + x
  BY <1>1
<1> QED
  BY <1>2

LEMMA Grown ==
    ASSUME NEW S, NEW T, IsFiniteSet(S), IsFiniteSet(T)
    PROVE  /\ IsFiniteSet(S \cup T) /\ IsFiniteSet(T \ S)
           /\ Cardinality(S) \in Nat /\ Cardinality(T \ S) \in Nat
           /\ Cardinality(S \cup T) = Cardinality(S) + Cardinality(T \ S)
<1>1. PICK U : U = T \ S
  OBVIOUS
<1>2. IsFiniteSet(U)
  BY <1>1, FS_Subset
<1>3. S \cup T = S \cup U /\ S \cap U = {}
  BY <1>1
<1>4. IsFiniteSet(S \cup U) /\ Cardinality(S \cup U) = Cardinality(S) + Cardinality(U) - Cardinality(S \cap U)
  BY <1>2, FS_Union
<1>5. Cardinality(S \cap U) = 0 /\ Cardinality(S) \in Nat /\ Cardinality(U) \in Nat
  BY <1>2, <1>3, FS_EmptySet, FS_CardinalityType
<1>6. Cardinality(S \cup U) = Cardinality(S) + Cardinality(U)
  BY <1>4, <1>5
<1> QED
  BY <1>1, <1>2, <1>3, <1>4, <1>5, <1>6

LEMMA Within ==
    ASSUME NEW S, NEW T, S \subseteq T, IsFiniteSet(T)
    PROVE  /\ IsFiniteSet(S) /\ Cardinality(S) \in Nat /\ Cardinality(T) \in Nat
           /\ Cardinality(S) <= Cardinality(T)
BY FS_Subset, FS_CardinalityType

(* The objects of different UIDs are as many as their UIDs.                *)
LEMMA UidsCounted ==
    ASSUME NEW S, IsFiniteSet(S), UniqueUids(S)
    PROVE  Cardinality(UidsOf(S)) = Cardinality(S)
<1> DEFINE f == [o \in S |-> o.uid]
<1>1. f \in Bijection(S, UidsOf(S))
  BY DEF Bijection, Injection, Surjection, IsInjective, UidsOf, UniqueUids
<1> HIDE DEF f
<1> QED
  BY <1>1, FS_Bijection DEF ExistsBijection

Ids(credentials) == {c.id : c \in credentials}

LEMMA IdsCounted ==
    ASSUME NEW S, IsFiniteSet(S)
    PROVE  /\ IsFiniteSet(Ids(S)) /\ Cardinality(Ids(S)) \in Nat /\ Cardinality(S) \in Nat
           /\ Cardinality(Ids(S)) <= Cardinality(S)
           /\ (\A x, y \in S : x.id = y.id => x = y) => Cardinality(Ids(S)) = Cardinality(S)
<1> DEFINE f == [o \in S |-> o.id]
<1>1. f \in Surjection(S, Ids(S))
  BY DEF Surjection, Ids
<1>2. ASSUME \A x, y \in S : x.id = y.id => x = y PROVE f \in Bijection(S, Ids(S))
  BY <1>2 DEF Bijection, Injection, Surjection, IsInjective, Ids
<1> HIDE DEF f
<1>3. (\A x, y \in S : x.id = y.id => x = y) => Cardinality(Ids(S)) = Cardinality(S)
  BY <1>2, FS_Bijection DEF ExistsBijection
<1> QED
  BY <1>1, <1>3, FS_Surjection, FS_CardinalityType

LEMMA NamesCounted ==
    ASSUME NEW e, IsFiniteSet(e.secrets), IsFiniteSet(e.services)
    PROVE  /\ IsFiniteSet(SecretNames(e)) /\ IsFiniteSet(ServiceNames(e))
           /\ Cardinality(SecretNames(e)) \in Nat /\ Cardinality(e.secrets) \in Nat
           /\ Cardinality(ServiceNames(e)) \in Nat /\ Cardinality(e.services) \in Nat
           /\ Cardinality(SecretNames(e)) <= Cardinality(e.secrets)
           /\ Cardinality(ServiceNames(e)) <= Cardinality(e.services)
<1> DEFINE f == [s \in e.secrets |-> s.secret]
           g == [s \in e.services |-> s.name]
<1>1. f \in Surjection(e.secrets, SecretNames(e)) /\ g \in Surjection(e.services, ServiceNames(e))
  BY DEF Surjection, SecretNames, ServiceNames
<1> HIDE DEF f, g
<1> QED
  BY <1>1, FS_Surjection, FS_CardinalityType

(* Finitely many tokens, each with an identifier of its own, that expire   *)
(* together.                                                               *)
LEMMA TokensCounted ==
    ASSUME NEW i, NEW e, Keyed(i, e), IsFiniteSet(e.pods), NEW pods
    PROVE  /\ IsFiniteSet(TokensFrom(e, pods))
           /\ \A t \in TokensFrom(e, pods) : t.expires_at = e.time + TokenTTL
           /\ \A t, u \in TokensFrom(e, pods) : t.id = u.id => t = u
<1> DEFINE able == {q \in e.pods : q.uid \in pods /\ \E s \in e.accounts : s.account = q.account}
           of(p) == {ProjectedToken(e, p, aud) : aud \in AudiencesOf(p)}
           sets == {of(p) : p \in able}
           f == [p \in able |-> of(p)]
<1>1. TokensFrom(e, pods) = UNION sets
  BY DEF TokensFrom
<1>2. ASSUME NEW p \in able PROVE IsFiniteSet(of(p))
  <2> DEFINE g == [aud \in AudiencesOf(p) |-> ProjectedToken(e, p, aud)]
  <2>1. g \in Surjection(AudiencesOf(p), of(p))
    BY DEF Surjection
  <2>2. IsFiniteSet(p.audiences)
    BY <1>2 DEF Keyed
  <2>3. IsFiniteSet(AudiencesOf(p))
    BY <2>2, FS_Singleton DEF AudiencesOf
  <2> HIDE DEF g, of
  <2> QED
    BY <2>1, <2>3, FS_Surjection
<1>3. f \in Surjection(able, sets)
  BY DEF Surjection
<1>4. IsFiniteSet(able)
  BY FS_Subset
<1>5. \A T \in sets : IsFiniteSet(T)
  BY <1>2
<1>6. IsFiniteSet(UNION sets)
  <2> HIDE DEF f, sets, able
  <2>1. IsFiniteSet(sets)
    BY <1>3, <1>4, FS_Surjection
  <2> QED
    BY <1>5, <2>1, FS_UNION
<1>7. ASSUME NEW t \in TokensFrom(e, pods)
      PROVE  \E p \in e.pods : \E aud : /\ t = ProjectedToken(e, p, aud)
                                        /\ t.id = <<"projected", p.uid, aud>>
                                        /\ t.expires_at = e.time + TokenTTL
  BY DEF TokensFrom, ProjectedToken
<1>8. ASSUME NEW t \in TokensFrom(e, pods), NEW u \in TokensFrom(e, pods), t.id = u.id PROVE t = u
  <2>1. PICK p, aud : /\ p \in e.pods /\ t = ProjectedToken(e, p, aud)
                     /\ t.id = <<"projected", p.uid, aud>>
    BY <1>7
  <2>2. PICK q, b : /\ q \in e.pods /\ u = ProjectedToken(e, q, b)
                   /\ u.id = <<"projected", q.uid, b>>
    BY <1>7
  <2>3. p.uid = q.uid /\ aud = b
    BY <1>8, <2>1, <2>2
  <2>4. p = q
    BY <2>1, <2>2, <2>3 DEF Keyed, UniqueUids
  <2> QED
    BY <2>1, <2>2, <2>3, <2>4
<1> QED
  BY <1>1, <1>6, <1>7, <1>8

(* Initial facts name no workload that the engine makes up.                *)
FactsApart ==
    \A i \in Inputs : \A f \in i.initial_facts :
        /\ f.kind = "controls_pod" => ~\E a, j : f.arg = ModelPodUid(a, j)
        /\ f.kind = "controls_controller" => ~MadeController(f.arg)

(* A workload of this interval that the attacker controls is there.        *)
PodsMade(known, e, n) ==
    \A a, j : ModelPodUid(a, j) \in known =>
        j \in Int /\ j <= n /\ (j = n => ModelPodUid(a, j) \in UidsOf(e.pods))
ControllersMade(known, e, n) ==
    \A a, j : ModelControllerUid(a, j) \in known =>
        j \in Int /\ j <= n /\ (j = n => ModelControllerUid(a, j) \in UidsOf(e.controllers))

AttFields == {"credentials", "pods", "controllers", "secrets", "downstream"}

(* What the attacker a knows in the environment e of interval n, where it  *)
(* has reached g.                                                          *)
Known(i, a, e, g, n) ==
    /\ DOMAIN a = AttFields /\ DOMAIN g = {"reads", "uses"}
    /\ IsFiniteSet(a.credentials) /\ IsFiniteSet(a.pods) /\ IsFiniteSet(a.controllers)
    /\ IsFiniteSet(a.secrets) /\ IsFiniteSet(a.downstream)
    /\ Keyed(i, e)
    /\ g.reads \subseteq SecretNames(e) /\ g.uses \subseteq ServiceNames(e)
    /\ PodsMade(a.pods, e, n) /\ ControllersMade(a.controllers, e, n)

(* The tokens that are as new as a token can be in this interval.          *)
FreshIds(a, e) == Ids({c \in a.credentials : c.expires_at = e.time + TokenTTL})

(* What was derived once and for all or in this interval, and what can be  *)
(* derived again in every interval.                                        *)
Loose(a, e, g) ==
    Cardinality(a.pods) + Cardinality(a.controllers) + Cardinality(a.secrets)
    + Cardinality(a.downstream) + Cardinality(FreshIds(a, e))
    + Cardinality(g.reads) + Cardinality(g.uses)
Steady(a, e) ==
    Cardinality(Ids(a.credentials)) + Cardinality(SecretNames(e)) + Cardinality(ServiceNames(e))

LEMMA Measured ==
    ASSUME NEW i, NEW a, NEW e, NEW g, NEW n, Known(i, a, e, g, n)
    PROVE  /\ Cardinality(a.pods) \in Nat /\ Cardinality(a.controllers) \in Nat
           /\ Cardinality(a.secrets) \in Nat /\ Cardinality(a.downstream) \in Nat
           /\ IsFiniteSet(FreshIds(a, e)) /\ IsFiniteSet(Ids(a.credentials))
           /\ IsFiniteSet(g.reads) /\ IsFiniteSet(g.uses)
           /\ Cardinality(FreshIds(a, e)) \in Nat /\ Cardinality(Ids(a.credentials)) \in Nat
           /\ Cardinality(g.reads) \in Nat /\ Cardinality(g.uses) \in Nat
           /\ Cardinality(SecretNames(e)) \in Nat /\ Cardinality(ServiceNames(e)) \in Nat
           /\ Cardinality(FreshIds(a, e)) <= Cardinality(Ids(a.credentials))
           /\ Cardinality(g.reads) <= Cardinality(SecretNames(e))
           /\ Cardinality(g.uses) <= Cardinality(ServiceNames(e))
           /\ Loose(a, e, g) \in Nat /\ Steady(a, e) \in Nat
<1>1. /\ IsFiniteSet(a.credentials) /\ IsFiniteSet(a.pods) /\ IsFiniteSet(a.controllers)
      /\ IsFiniteSet(a.secrets) /\ IsFiniteSet(a.downstream)
      /\ IsFiniteSet(e.secrets) /\ IsFiniteSet(e.services)
      /\ g.reads \subseteq SecretNames(e) /\ g.uses \subseteq ServiceNames(e)
  BY DEF Known, Keyed
<1>2. /\ Cardinality(a.pods) \in Nat /\ Cardinality(a.controllers) \in Nat
      /\ Cardinality(a.secrets) \in Nat /\ Cardinality(a.downstream) \in Nat
  BY <1>1, FS_CardinalityType
<1>3. IsFiniteSet(Ids(a.credentials))
  BY <1>1, IdsCounted
<1>4. FreshIds(a, e) \subseteq Ids(a.credentials)
  BY DEF FreshIds, Ids
<1>5. IsFiniteSet(SecretNames(e)) /\ IsFiniteSet(ServiceNames(e))
  BY <1>1, NamesCounted
<1>6. /\ IsFiniteSet(FreshIds(a, e)) /\ Cardinality(FreshIds(a, e)) \in Nat
      /\ Cardinality(Ids(a.credentials)) \in Nat
      /\ Cardinality(FreshIds(a, e)) <= Cardinality(Ids(a.credentials))
  BY <1>3, <1>4, Within
<1>7. /\ IsFiniteSet(g.reads) /\ Cardinality(g.reads) \in Nat /\ Cardinality(SecretNames(e)) \in Nat
      /\ Cardinality(g.reads) <= Cardinality(SecretNames(e))
  BY <1>1, <1>5, Within
<1>8. /\ IsFiniteSet(g.uses) /\ Cardinality(g.uses) \in Nat /\ Cardinality(ServiceNames(e)) \in Nat
      /\ Cardinality(g.uses) <= Cardinality(ServiceNames(e))
  BY <1>1, <1>5, Within
<1>9. Loose(a, e, g) \in Nat /\ Steady(a, e) \in Nat
  BY <1>2, <1>6, <1>7, <1>8 DEF Loose, Steady
<1> QED
  BY <1>2, <1>3, <1>6, <1>7, <1>8, <1>9

(* R-CONTROLLER-POD and R-EXEC-POD.                                        *)
Takes(b, a, T) ==
    /\ DOMAIN b = AttFields /\ b.pods = a.pods \cup T /\ b.credentials = a.credentials
    /\ b.controllers = a.controllers /\ b.secrets = a.secrets /\ b.downstream = a.downstream

LEMMA PodsCounted ==
    ASSUME NEW i, NEW a, NEW e, NEW g, NEW n \in Int, Known(i, a, e, g, n), IsFiniteSet(e.pods),
           \A p \in e.pods : Used(e, n, p.uid),
           NEW T, T \subseteq UidsOf(e.pods), NEW b, Takes(b, a, T)
    PROVE  /\ Known(i, b, e, g, n)
           /\ Loose(b, e, g) = Loose(a, e, g) + Cardinality(T \ a.pods)
           /\ Steady(b, e) = Steady(a, e)
<1>1. /\ DOMAIN b = AttFields /\ b.pods = a.pods \cup T /\ b.credentials = a.credentials
      /\ b.controllers = a.controllers /\ b.secrets = a.secrets /\ b.downstream = a.downstream
  BY DEF Takes
<1>2. IsFiniteSet(T) /\ IsFiniteSet(a.pods)
  BY UidsFinite, FS_Subset DEF Known
<1>3. /\ IsFiniteSet(b.pods) /\ Cardinality(T \ a.pods) \in Nat
      /\ Cardinality(b.pods) = Cardinality(a.pods) + Cardinality(T \ a.pods)
  <2>1. PICK S : S = a.pods
    OBVIOUS
  <2>2. /\ IsFiniteSet(S \cup T) /\ Cardinality(T \ S) \in Nat
        /\ Cardinality(S \cup T) = Cardinality(S) + Cardinality(T \ S)
    BY <1>2, <2>1, Grown
  <2> QED
    BY <1>1, <2>1, <2>2
<1>4. PodsMade(b.pods, e, n)
  <2>1. ASSUME NEW x, NEW j, ModelPodUid(x, j) \in T
        PROVE  j \in Int /\ j <= n /\ ModelPodUid(x, j) \in UidsOf(e.pods)
    <3>1. PICK p \in e.pods : p.uid = ModelPodUid(x, j)
      BY <2>1 DEF UidsOf
    <3> QED
      BY <2>1, <3>1 DEF Used
  <2> QED
    BY <1>1, <2>1 DEF Known, PodsMade
<1>5. Known(i, b, e, g, n)
  BY <1>1, <1>3, <1>4 DEF Known
<1>6. FreshIds(b, e) = FreshIds(a, e) /\ Steady(b, e) = Steady(a, e)
  BY <1>1 DEF FreshIds, Steady
<1>7. Loose(b, e, g) = Loose(a, e, g) + Cardinality(T \ a.pods)
  BY <1>1, <1>3, <1>6, Measured DEF Loose
<1> QED
  BY <1>5, <1>6, <1>7

(* R-OBTAIN-PROJECTED-TOKEN: a token as new as can be is not replaced.     *)
StaleIn(a, e) ==
    {t \in TokensFrom(e, a.pods) :
        ~\E c \in a.credentials :
            c.id = t.id /\ c.expires_at # None /\ c.expires_at >= t.expires_at}
Obtains(b, a, T) ==
    /\ DOMAIN b = AttFields /\ b.pods = a.pods
    /\ b.credentials = T \cup {c \in a.credentials : \A t \in T : t.id # c.id}
    /\ b.controllers = a.controllers /\ b.secrets = a.secrets /\ b.downstream = a.downstream

LEMMA TokensAdded ==
    ASSUME NEW i, NEW a, NEW e, NEW g, NEW n, Known(i, a, e, g, n), IsFiniteSet(e.pods),
           NEW T, T = StaleIn(a, e), NEW b, Obtains(b, a, T)
    PROVE  /\ Known(i, b, e, g, n) /\ Cardinality(T) \in Nat
           /\ Loose(b, e, g) >= Loose(a, e, g) + Cardinality(T)
           /\ Steady(b, e) >= Steady(a, e)
<1>0. Keyed(i, e) /\ IsFiniteSet(a.credentials)
  BY DEF Known
<1>1. PICK kept : kept = {c \in a.credentials : \A t \in T : t.id # c.id}
  OBVIOUS
<1>2. /\ DOMAIN b = AttFields /\ b.pods = a.pods /\ b.credentials = T \cup kept
      /\ b.controllers = a.controllers /\ b.secrets = a.secrets /\ b.downstream = a.downstream
  BY <1>1 DEF Obtains
<1>3. T \subseteq TokensFrom(e, a.pods) /\ kept \subseteq a.credentials
  BY <1>1 DEF StaleIn
<1>4. /\ IsFiniteSet(TokensFrom(e, a.pods))
      /\ \A t \in T : t.expires_at = e.time + TokenTTL
      /\ \A t, u \in T : t.id = u.id => t = u
  BY <1>0, <1>3, TokensCounted
<1>5. IsFiniteSet(T) /\ IsFiniteSet(kept)
  BY <1>0, <1>3, <1>4, FS_Subset
<1>6. IsFiniteSet(T \cup kept)
  BY <1>5, FS_Union
<1>7. Known(i, b, e, g, n)
  BY <1>2, <1>6 DEF Known
<1>8. e.time + TokenTTL \in Int /\ e.time + TokenTTL # None
  <2>1. e.time + TokenTTL \in Int
    BY <1>0, SemanticsAssumption DEF Keyed
  <2> QED
    BY <2>1, SemanticsAssumption
<1>9. ASSUME NEW c \in a.credentials, c.expires_at = e.time + TokenTTL, NEW t \in T, t.id = c.id
      PROVE  FALSE
  <2>1. t.expires_at = e.time + TokenTTL
    BY <1>4, <1>9
  <2>2. c.expires_at # None /\ c.expires_at >= t.expires_at
    BY <1>8, <1>9, <2>1
  <2> QED
    BY <1>9, <2>2 DEF StaleIn
<1>10. FreshIds(a, e) \cup Ids(T) \subseteq FreshIds(b, e) /\ FreshIds(a, e) \cap Ids(T) = {}
  <2>1. \A c \in a.credentials : c.expires_at = e.time + TokenTTL => c \in kept
    BY <1>1, <1>9
  <2>2. FreshIds(a, e) \subseteq FreshIds(b, e)
    BY <1>2, <2>1 DEF FreshIds, Ids
  <2>3. Ids(T) \subseteq FreshIds(b, e)
    BY <1>2, <1>4 DEF FreshIds, Ids
  <2>4. FreshIds(a, e) \cap Ids(T) = {}
    BY <1>9 DEF FreshIds, Ids
  <2> QED
    BY <2>2, <2>3, <2>4
<1>11. /\ IsFiniteSet(Ids(T)) /\ Cardinality(Ids(T)) \in Nat
       /\ Cardinality(Ids(T)) = Cardinality(T)
  BY <1>4, <1>5, IdsCounted
<1>12. Cardinality(FreshIds(b, e)) >= Cardinality(FreshIds(a, e)) + Cardinality(T)
  <2>1. PICK F, I : F = FreshIds(a, e) /\ I = Ids(T)
    OBVIOUS
  <2>2. IsFiniteSet(F) /\ IsFiniteSet(I) /\ I \ F = I
    BY <1>10, <1>11, <2>1, Measured
  <2>3. Cardinality(F \cup I) = Cardinality(F) + Cardinality(I)
    BY <2>2, Grown
  <2>4. IsFiniteSet(FreshIds(b, e)) /\ F \cup I \subseteq FreshIds(b, e)
    BY <1>7, <1>10, <2>1, Measured
  <2>5. /\ Cardinality(F \cup I) <= Cardinality(FreshIds(b, e))
        /\ Cardinality(F \cup I) \in Nat /\ Cardinality(FreshIds(b, e)) \in Nat
    BY <2>4, Within
  <2> QED
    BY <1>11, <2>1, <2>3, <2>5
<1>13. Cardinality(Ids(b.credentials)) >= Cardinality(Ids(a.credentials))
  <2>1. Ids(a.credentials) \subseteq Ids(b.credentials)
    <3>1. ASSUME NEW c \in a.credentials PROVE c.id \in Ids(b.credentials)
      <4>1. CASE c \in kept
        BY <1>2, <4>1 DEF Ids
      <4>2. CASE c \notin kept
        BY <1>1, <1>2, <4>2 DEF Ids
      <4> QED
        BY <4>1, <4>2
    <3> QED
      BY <3>1 DEF Ids
  <2>2. IsFiniteSet(Ids(b.credentials))
    BY <1>7, Measured
  <2>3. /\ Cardinality(Ids(a.credentials)) <= Cardinality(Ids(b.credentials))
        /\ Cardinality(Ids(a.credentials)) \in Nat /\ Cardinality(Ids(b.credentials)) \in Nat
    BY <2>1, <2>2, Within
  <2> QED
    BY <2>3
<1>14. Loose(b, e, g) >= Loose(a, e, g) + Cardinality(T)
  <2>1. /\ Cardinality(FreshIds(a, e)) \in Nat /\ Cardinality(FreshIds(b, e)) \in Nat
        /\ Cardinality(a.pods) \in Nat /\ Cardinality(a.controllers) \in Nat
        /\ Cardinality(a.secrets) \in Nat /\ Cardinality(a.downstream) \in Nat
        /\ Cardinality(g.reads) \in Nat /\ Cardinality(g.uses) \in Nat
    BY <1>7, Measured
  <2> QED
    BY <1>2, <1>11, <1>12, <2>1 DEF Loose
<1>15. Steady(b, e) >= Steady(a, e)
  <2>1. /\ Cardinality(Ids(a.credentials)) \in Nat /\ Cardinality(Ids(b.credentials)) \in Nat
        /\ Cardinality(SecretNames(e)) \in Nat /\ Cardinality(ServiceNames(e)) \in Nat
    BY <1>7, Measured
  <2> QED
    BY <1>13, <2>1 DEF Steady
<1> QED
  BY <1>7, <1>11, <1>14, <1>15

(* R-CREATE-POD: what is created was not known.                            *)
LEMMA PodsAdded ==
    ASSUME NEW i, NEW a, NEW e, NEW g, NEW n \in Int, Known(i, a, e, g, n), DOMAIN e = EnvFields,
           NEW new, IsFiniteSet(new), UniqueUids(new),
           \A p \in new : /\ p.uid \notin UidsOf(e.pods) /\ p.audiences = {}
                          /\ \E x : p.uid = ModelPodUid(x, n),
           NEW h, h = [e EXCEPT !.pods = @ \cup new],
           NEW b, b = [a EXCEPT !.pods = @ \cup UidsOf(new)]
    PROVE  /\ Known(i, b, h, g, n) /\ Cardinality(new) \in Nat
           /\ Loose(b, h, g) = Loose(a, e, g) + Cardinality(new)
           /\ Steady(b, h) = Steady(a, e)
<1>0. DOMAIN a = AttFields /\ Keyed(i, e) /\ IsFiniteSet(a.pods)
  BY DEF Known
<1>1. PICK S, T : S = a.pods /\ T = UidsOf(new)
  OBVIOUS
<1>2. /\ DOMAIN b = AttFields /\ b.pods = S \cup T /\ b.credentials = a.credentials
      /\ b.controllers = a.controllers /\ b.secrets = a.secrets /\ b.downstream = a.downstream
  BY <1>0, <1>1 DEF AttFields
<1>3. /\ h.time = e.time /\ h.secrets = e.secrets /\ h.services = e.services
      /\ h.controllers = e.controllers /\ h.pods = e.pods \cup new
  BY DEF EnvFields
<1>4. Keyed(i, h)
  <2>1. UniqueUids(e.pods) /\ \A p \in e.pods : IsFiniteSet(p.audiences)
    BY <1>0 DEF Keyed
  <2>2. \A p \in new, q \in e.pods : p.uid # q.uid
    BY DEF UidsOf
  <2>3. UniqueUids(h.pods)
    BY <1>3, <2>1, <2>2 DEF UniqueUids
  <2>4. \A p \in h.pods : IsFiniteSet(p.audiences)
    BY <1>3, <2>1, FS_EmptySet
  <2>5. SecretNames(h) = SecretNames(e) /\ ServiceNames(h) = ServiceNames(e)
    BY <1>3 DEF SecretNames, ServiceNames
  <2> QED
    BY <1>0, <1>3, <2>3, <2>4, <2>5 DEF Keyed
<1>5. IsFiniteSet(T) /\ Cardinality(T) \in Nat /\ Cardinality(T) = Cardinality(new)
  BY <1>1, UidsFinite, UidsCounted
<1>6. T \ S = T
  <2>1. ASSUME NEW p \in new PROVE p.uid \notin S
    <3>1. PICK x : p.uid = ModelPodUid(x, n)
      BY <2>1
    <3> QED
      BY <1>1, <2>1, <3>1 DEF Known, PodsMade
  <2> QED
    BY <1>1, <2>1 DEF UidsOf
<1>7. IsFiniteSet(S \cup T) /\ Cardinality(S \cup T) = Cardinality(S) + Cardinality(T)
  BY <1>0, <1>1, <1>5, <1>6, Grown
<1>8. PodsMade(b.pods, h, n)
  <2>1. UidsOf(h.pods) = UidsOf(e.pods) \cup T
    BY <1>1, <1>3 DEF UidsOf
  <2>2. ASSUME NEW x, NEW j, ModelPodUid(x, j) \in T PROVE j = n
    <3>1. PICK y : ModelPodUid(x, j) = ModelPodUid(y, n)
      BY <1>1, <2>2 DEF UidsOf
    <3> QED
      BY <3>1 DEF ModelPodUid
  <2>3. PodsMade(S, e, n)
    BY <1>1 DEF Known
  <2>4. ASSUME NEW x, NEW j, ModelPodUid(x, j) \in S \cup T
        PROVE  j \in Int /\ j <= n /\ (j = n => ModelPodUid(x, j) \in UidsOf(h.pods))
    <3>1. CASE ModelPodUid(x, j) \in T
      <4>1. j \in Int /\ j <= n
        BY <2>2, <3>1
      <4>2. ModelPodUid(x, j) \in UidsOf(h.pods)
        BY <2>1, <3>1, Zenon
      <4> QED
        BY <4>1, <4>2
    <3>2. CASE ModelPodUid(x, j) \in S
      BY <2>1, <2>3, <3>2 DEF PodsMade
    <3> QED
      BY <2>4, <3>1, <3>2
  <2> QED
    BY <1>2, <2>4 DEF PodsMade
<1>9. ControllersMade(b.controllers, h, n)
  BY <1>2, <1>3 DEF Known, ControllersMade
<1>10. SecretNames(h) = SecretNames(e) /\ ServiceNames(h) = ServiceNames(e)
  BY <1>3 DEF SecretNames, ServiceNames
<1>11. Known(i, b, h, g, n)
  BY <1>2, <1>4, <1>7, <1>8, <1>9, <1>10 DEF Known
<1>12. FreshIds(b, h) = FreshIds(a, e) /\ Steady(b, h) = Steady(a, e)
  BY <1>2, <1>3, <1>10 DEF FreshIds, Steady
<1>13. Loose(b, h, g) = Loose(a, e, g) + Cardinality(new)
  BY <1>1, <1>2, <1>5, <1>7, <1>12, Measured DEF Loose
<1> QED
  BY <1>5, <1>11, <1>12, <1>13

(* R-CREATE-CONTROLLER, with the pods that the new controllers get.        *)
LEMMA ControllersAdded ==
    ASSUME NEW i, NEW a, NEW e, NEW g, NEW n \in Int, Known(i, a, e, g, n), Formed(e),
           NEW new, IsFiniteSet(new), UniqueUids(new),
           \A c \in new : /\ c.uid \notin UidsOf(e.controllers) /\ c.audiences = {} /\ c.uid # None
                          /\ \E x : c.uid = ModelControllerUid(x, n),
           NEW h, h = Reconcile(WithControllers(e, new)),
           NEW b, b = [a EXCEPT !.controllers = @ \cup UidsOf(new)]
    PROVE  /\ Known(i, b, h, g, n) /\ Cardinality(new) \in Nat
           /\ Loose(b, h, g) = Loose(a, e, g) + Cardinality(new)
           /\ Steady(b, h) = Steady(a, e)
<1>0. DOMAIN a = AttFields /\ Keyed(i, e) /\ IsFiniteSet(a.controllers) /\ DOMAIN e = EnvFields
  BY DEF Known, Formed
<1>1. PICK S, T, w : S = a.controllers /\ T = UidsOf(new) /\ w = WithControllers(e, new)
  OBVIOUS
<1>2. /\ DOMAIN b = AttFields /\ b.controllers = S \cup T /\ b.credentials = a.credentials
      /\ b.pods = a.pods /\ b.secrets = a.secrets /\ b.downstream = a.downstream
  BY <1>0, <1>1 DEF AttFields
<1>3. /\ w.time = e.time /\ w.secrets = e.secrets /\ w.services = e.services
      /\ w.controllers = e.controllers \cup new /\ w.pods = e.pods /\ DOMAIN w = EnvFields
  BY <1>0, <1>1 DEF WithControllers, EnvFields
<1>4. Keyed(i, w)
  <2>1. UniqueUids(e.controllers) /\ \A c \in e.controllers : IsFiniteSet(c.audiences)
    BY <1>0 DEF Keyed
  <2>2. \A c \in new, d \in e.controllers : c.uid # d.uid
    BY DEF UidsOf
  <2>3. UniqueUids(w.controllers)
    BY <1>3, <2>1, <2>2 DEF UniqueUids
  <2>4. \A c \in w.controllers : IsFiniteSet(c.audiences)
    BY <1>3, <2>1, FS_EmptySet
  <2>5. SecretNames(w) = SecretNames(e) /\ ServiceNames(w) = ServiceNames(e)
    BY <1>3 DEF SecretNames, ServiceNames
  <2> QED
    BY <1>0, <1>3, <2>3, <2>4, <2>5 DEF Keyed
<1>5. Formed(w)
  <2>1. \A c \in new : MadeController(c.uid) /\ c.uid # None
    BY DEF MadeController, DeployUid
  <2> QED
    BY <1>1, <2>1, ControllersCreated
<1>6. Keyed(i, h)
  BY <1>1, <1>4, <1>5, ReconcileKeyed
<1>7. /\ h.time = e.time /\ h.secrets = e.secrets /\ h.services = e.services
      /\ h.controllers = e.controllers \cup new /\ e.pods \subseteq h.pods
  BY <1>1, <1>3, ReconcileFacts
<1>8. IsFiniteSet(T) /\ Cardinality(T) \in Nat /\ Cardinality(T) = Cardinality(new)
  BY <1>1, UidsFinite, UidsCounted
<1>9. T \ S = T
  <2>1. ASSUME NEW c \in new PROVE c.uid \notin S
    <3>1. PICK x : c.uid = ModelControllerUid(x, n)
      BY <2>1
    <3> QED
      BY <1>1, <2>1, <3>1 DEF Known, ControllersMade
  <2> QED
    BY <1>1, <2>1 DEF UidsOf
<1>10. IsFiniteSet(S \cup T) /\ Cardinality(S \cup T) = Cardinality(S) + Cardinality(T)
  BY <1>0, <1>1, <1>8, <1>9, Grown
<1>11. ControllersMade(b.controllers, h, n)
  <2>1. UidsOf(h.controllers) = UidsOf(e.controllers) \cup T
    BY <1>1, <1>7 DEF UidsOf
  <2>2. ASSUME NEW x, NEW j, ModelControllerUid(x, j) \in T PROVE j = n
    <3>1. PICK y : ModelControllerUid(x, j) = ModelControllerUid(y, n)
      BY <1>1, <2>2 DEF UidsOf
    <3> QED
      BY <3>1 DEF ModelControllerUid
  <2>3. ControllersMade(S, e, n)
    BY <1>1 DEF Known
  <2>4. ASSUME NEW x, NEW j, ModelControllerUid(x, j) \in S \cup T
        PROVE  j \in Int /\ j <= n /\ (j = n => ModelControllerUid(x, j) \in UidsOf(h.controllers))
    <3>1. CASE ModelControllerUid(x, j) \in T
      <4>1. j \in Int /\ j <= n
        BY <2>2, <3>1
      <4>2. ModelControllerUid(x, j) \in UidsOf(h.controllers)
        BY <2>1, <3>1, Zenon
      <4> QED
        BY <4>1, <4>2
    <3>2. CASE ModelControllerUid(x, j) \in S
      BY <2>1, <2>3, <3>2 DEF ControllersMade
    <3> QED
      BY <2>4, <3>1, <3>2
  <2> QED
    BY <1>2, <2>4 DEF ControllersMade
<1>12. PodsMade(b.pods, h, n)
  <2>1. UidsOf(e.pods) \subseteq UidsOf(h.pods) /\ PodsMade(a.pods, e, n)
    BY <1>7 DEF UidsOf, Known
  <2> QED
    BY <1>2, <2>1 DEF PodsMade
<1>13. SecretNames(h) = SecretNames(e) /\ ServiceNames(h) = ServiceNames(e)
  BY <1>7 DEF SecretNames, ServiceNames
<1>14. Known(i, b, h, g, n)
  BY <1>2, <1>6, <1>10, <1>11, <1>12, <1>13 DEF Known
<1>15. FreshIds(b, h) = FreshIds(a, e) /\ Steady(b, h) = Steady(a, e)
  BY <1>2, <1>7, <1>13 DEF FreshIds, Steady
<1>16. Loose(b, h, g) = Loose(a, e, g) + Cardinality(new)
  BY <1>1, <1>2, <1>8, <1>10, <1>15, Measured DEF Loose
<1> QED
  BY <1>8, <1>14, <1>15, <1>16

(* R-READ-SECRET, R-DOWNSTREAM-CREDENTIAL and R-USE-DOWNSTREAM.            *)
Learns(b, a, S, D) ==
    /\ DOMAIN b = AttFields /\ b.pods = a.pods /\ b.credentials = a.credentials
    /\ b.controllers = a.controllers /\ b.secrets = a.secrets \cup S
    /\ b.downstream = a.downstream \cup D
Reaches(q, g, R, U) ==
    DOMAIN q = {"reads", "uses"} /\ q.reads = g.reads \cup R /\ q.uses = g.uses \cup U
Gathers(a, e, g, b, q, S, D, R, U) ==
    /\ Learns(b, a, S, D) /\ Reaches(q, g, R, U)
    /\ IsFiniteSet(S) /\ IsFiniteSet(D)
    /\ R \subseteq SecretNames(e) /\ U \subseteq ServiceNames(e)

Gained(a, g, S, D, R, U) ==
    Cardinality(S \ a.secrets) + Cardinality(D \ a.downstream) + Cardinality(R \ g.reads)
    + Cardinality(U \ g.uses)

LEMMA FactsAdded ==
    ASSUME NEW i, NEW a, NEW e, NEW g, NEW n, Known(i, a, e, g, n),
           NEW S, NEW D, NEW R, NEW U, NEW b, NEW q, Gathers(a, e, g, b, q, S, D, R, U)
    PROVE  /\ Known(i, b, e, q, n) /\ Gained(a, g, S, D, R, U) \in Nat
           /\ Loose(b, e, q) = Loose(a, e, g) + Gained(a, g, S, D, R, U)
           /\ Steady(b, e) = Steady(a, e)
<1>0. /\ DOMAIN a = AttFields /\ DOMAIN g = {"reads", "uses"} /\ Keyed(i, e)
      /\ IsFiniteSet(a.secrets) /\ IsFiniteSet(a.downstream)
      /\ g.reads \subseteq SecretNames(e) /\ g.uses \subseteq ServiceNames(e)
  BY DEF Known
<1>1. /\ DOMAIN b = AttFields /\ b.pods = a.pods /\ b.credentials = a.credentials
      /\ b.controllers = a.controllers /\ b.secrets = a.secrets \cup S
      /\ b.downstream = a.downstream \cup D
  BY DEF Gathers, Learns
<1>2. DOMAIN q = {"reads", "uses"} /\ q.reads = g.reads \cup R /\ q.uses = g.uses \cup U
  BY DEF Gathers, Reaches
<1>3. IsFiniteSet(R) /\ IsFiniteSet(U)
  <2>1. IsFiniteSet(SecretNames(e)) /\ IsFiniteSet(ServiceNames(e))
    BY <1>0, NamesCounted DEF Keyed
  <2> QED
    BY <2>1, FS_Subset DEF Gathers
<1>4. PICK s, d, r, u : s = a.secrets /\ d = a.downstream /\ r = g.reads /\ u = g.uses
  OBVIOUS
<1>5. IsFiniteSet(s) /\ IsFiniteSet(d) /\ IsFiniteSet(r) /\ IsFiniteSet(u)
  BY <1>0, <1>4, Measured
<1>a. IsFiniteSet(S) /\ IsFiniteSet(D) /\ R \subseteq SecretNames(e) /\ U \subseteq ServiceNames(e)
  BY DEF Gathers
<1>6. /\ IsFiniteSet(s \cup S) /\ Cardinality(S \ s) \in Nat
      /\ Cardinality(s \cup S) = Cardinality(s) + Cardinality(S \ s)
  BY <1>5, <1>a, Grown
<1>7. /\ IsFiniteSet(d \cup D) /\ Cardinality(D \ d) \in Nat
      /\ Cardinality(d \cup D) = Cardinality(d) + Cardinality(D \ d)
  BY <1>5, <1>a, Grown
<1>8. Cardinality(R \ r) \in Nat /\ Cardinality(r \cup R) = Cardinality(r) + Cardinality(R \ r)
  BY <1>3, <1>5, Grown
<1>9. Cardinality(U \ u) \in Nat /\ Cardinality(u \cup U) = Cardinality(u) + Cardinality(U \ u)
  BY <1>3, <1>5, Grown
<1>10. Known(i, b, e, q, n)
  <2>1. /\ IsFiniteSet(b.secrets) /\ IsFiniteSet(b.downstream)
        /\ q.reads \subseteq SecretNames(e) /\ q.uses \subseteq ServiceNames(e)
    BY <1>0, <1>1, <1>2, <1>4, <1>6, <1>7, <1>a
  <2> QED
    BY <1>1, <1>2, <2>1 DEF Known
<1>11. FreshIds(b, e) = FreshIds(a, e) /\ Steady(b, e) = Steady(a, e)
  BY <1>1 DEF FreshIds, Steady
<1>12. /\ Cardinality(b.secrets) = Cardinality(a.secrets) + Cardinality(S \ a.secrets)
       /\ Cardinality(b.downstream) = Cardinality(a.downstream) + Cardinality(D \ a.downstream)
       /\ Cardinality(q.reads) = Cardinality(g.reads) + Cardinality(R \ g.reads)
       /\ Cardinality(q.uses) = Cardinality(g.uses) + Cardinality(U \ g.uses)
       /\ Cardinality(S \ a.secrets) \in Nat /\ Cardinality(D \ a.downstream) \in Nat
       /\ Cardinality(R \ g.reads) \in Nat /\ Cardinality(U \ g.uses) \in Nat
  BY <1>1, <1>2, <1>4, <1>6, <1>7, <1>8, <1>9
<1>13. /\ Gained(a, g, S, D, R, U) \in Nat
       /\ Loose(b, e, q) = Loose(a, e, g) + Gained(a, g, S, D, R, U)
  <2>1. /\ Cardinality(FreshIds(a, e)) \in Nat
        /\ Cardinality(a.pods) \in Nat /\ Cardinality(a.controllers) \in Nat
        /\ Cardinality(a.secrets) \in Nat /\ Cardinality(a.downstream) \in Nat
        /\ Cardinality(g.reads) \in Nat /\ Cardinality(g.uses) \in Nat
    BY Measured
  <2> QED
    BY <1>1, <1>11, <1>12, <2>1 DEF Loose, Gained
<1> QED
  BY <1>10, <1>11, <1>13

(* In interval n there have been n + 1 others.                             *)
CountInv ==
    /\ phase = "begin" => /\ count = 0 /\ att = NoFacts /\ eph = NoGoals
                          /\ env = Inventory /\ interval = HistoryInterval
    /\ phase # "begin" =>
          /\ Known(input, att, env, eph, interval)
          /\ interval + 1 \in Nat
          /\ count \in Nat
          /\ count <= Loose(att, env, eph) + (interval + 1) * Steady(att, env)

(* What a rule adds is counted.                                            *)
LEMMA RuleCounted ==
    ASSUME NEW x \in Nat, NEW d \in Nat, NEW n \in Nat, NEW l \in Nat, NEW m \in Nat,
           NEW s \in Nat, NEW t \in Nat,
           x <= l + n * s, m >= l + d, t >= s
    PROVE  x + d \in Nat /\ x + d <= m + n * t
<1>1. n * s \in Nat /\ n * t \in Nat /\ n * s <= n * t
  BY Larger
<1> QED
  BY <1>1

LEMMA Sound ==
    ASSUME ResultsInv, TokenInv, CountInv, phase \in {"history", "main"}
    PROVE  /\ interval \in Int /\ interval + 1 \in Nat /\ Formed(env) /\ DOMAIN env = EnvFields
           /\ IsFiniteSet(env.pods) /\ IsFiniteSet(env.accounts)
           /\ \A p \in env.pods : Used(env, interval, p.uid)
           /\ Known(input, att, env, eph, interval)
           /\ count \in Nat /\ count <= Loose(att, env, eph) + (interval + 1) * Steady(att, env)
BY Running DEF AllUsed, Formed, CountInv

(* A rule was applied that derives d facts.                                *)
Adds(d) ==
    /\ phase \in {"history", "main"} /\ phase' = phase /\ input' = input /\ interval' = interval
    /\ count' = count + d

LEMMA AppliedRule ==
    ASSUME ResultsInv, TokenInv, CountInv, NEW d \in Nat, Adds(d),
           NEW b, NEW h, NEW q, b = att', h = env', q = eph',
           Known(input, b, h, q, interval),
           Loose(b, h, q) >= Loose(att, env, eph) + d, Steady(b, h) >= Steady(att, env)
    PROVE  CountInv'
<1>1. PICK a, e, g, n, i : a = att /\ e = env /\ g = eph /\ n = interval /\ i = input
  OBVIOUS
<1>2. /\ Known(i, a, e, g, n) /\ n + 1 \in Nat
      /\ count \in Nat /\ count <= Loose(a, e, g) + (n + 1) * Steady(a, e)
  BY <1>1, Sound DEF Adds
<1>3. Loose(a, e, g) \in Nat /\ Steady(a, e) \in Nat /\ Loose(b, h, q) \in Nat /\ Steady(b, h) \in Nat
  BY <1>1, <1>2, Measured
<1>4. count + d \in Nat /\ count + d <= Loose(b, h, q) + (n + 1) * Steady(b, h)
  BY <1>1, <1>2, <1>3, RuleCounted
<1>5. phase' # "begin" /\ interval' = n /\ input' = i /\ count' = count + d
  BY <1>1 DEF Adds
<1> QED
  BY <1>1, <1>2, <1>4, <1>5 DEF CountInv

(* What each rule derives.                                                 *)
LEMMA DerivedFacts ==
    /\ ControllerPod => Adds(Cardinality(OwnedPods \ att.pods))
    /\ ObtainToken => Adds(Cardinality(StaleTokens))
    /\ CreatePod => Adds(Cardinality(NewPods))
    /\ CreateController => Adds(Cardinality(NewControllers))
    /\ ExecPod => Adds(Cardinality(ExecPods \ att.pods))
    /\ ReadSecret => Adds(Cardinality(ReadVersions \ att.secrets) + Cardinality(ReadNames \ eph.reads))
    /\ DownstreamCredential => Adds(Cardinality(DownstreamKnown \ att.downstream))
    /\ UseDownstream => Adds(Cardinality(Usable \ eph.uses))
<1>1. ASSUME NEW r, Apply(r) PROVE Rules[rule] = r /\ Adds(Derived)
  BY <1>1 DEF Apply, Sweeping, Adds
<1>2. ControllerPod => Rules[rule] = "controller_pod" /\ Adds(Derived)
  BY <1>1 DEF ControllerPod
<1>3. ObtainToken => Rules[rule] = "projected_token" /\ Adds(Derived)
  BY <1>1 DEF ObtainToken
<1>4. CreatePod => Rules[rule] = "create_pod" /\ Adds(Derived)
  BY <1>1 DEF CreatePod
<1>5. CreateController => Rules[rule] = "create_controller" /\ Adds(Derived)
  BY <1>1 DEF CreateController
<1>6. ExecPod => Rules[rule] = "exec_pod" /\ Adds(Derived)
  BY <1>1 DEF ExecPod
<1>7. ReadSecret => Rules[rule] = "read_secret" /\ Adds(Derived)
  BY <1>1 DEF ReadSecret
<1>8. DownstreamCredential => Rules[rule] = "downstream_credential" /\ Adds(Derived)
  BY <1>1 DEF DownstreamCredential
<1>9. UseDownstream => Rules[rule] = "use_downstream" /\ Adds(Derived)
  BY <1>1 DEF UseDownstream
<1>10. /\ Rules[rule] = "controller_pod" => Derived = Cardinality(OwnedPods \ att.pods)
       /\ Rules[rule] = "projected_token" => Derived = Cardinality(StaleTokens)
       /\ Rules[rule] = "create_pod" => Derived = Cardinality(NewPods)
       /\ Rules[rule] = "create_controller" => Derived = Cardinality(NewControllers)
       /\ Rules[rule] = "exec_pod" => Derived = Cardinality(ExecPods \ att.pods)
       /\ Rules[rule] = "read_secret" =>
             Derived = Cardinality(ReadVersions \ att.secrets) + Cardinality(ReadNames \ eph.reads)
       /\ Rules[rule] = "downstream_credential" => Derived = Cardinality(DownstreamKnown \ att.downstream)
       /\ Rules[rule] = "use_downstream" => Derived = Cardinality(Usable \ eph.uses)
  BY DEF Derived
<1> QED
  BY <1>2, <1>3, <1>4, <1>5, <1>6, <1>7, <1>8, <1>9, <1>10


(* Objects that are made out of different accounts have different UIDs.    *)
LEMMA NewUnique ==
    /\ UniqueUids(NewPods) /\ UniqueUids(NewControllers)
    /\ \A p \in NewPods : p.audiences = {}
    /\ \A c \in NewControllers : c.audiences = {}
<1>1. \A p \in NewPods : /\ p.uid = ModelPodUid(p.account, interval) /\ p.audiences = {}
                         /\ p = [uid |-> ModelPodUid(p.account, interval),
                                 name |-> ModelPodUid(p.account, interval), account |-> p.account,
                                 audiences |-> {}, controller |-> None]
  BY DEF NewPods
<1>2. \A c \in NewControllers : /\ c.uid = ModelControllerUid(c.account, interval)
                                /\ c.audiences = {}
                                /\ c = [uid |-> ModelControllerUid(c.account, interval),
                                        name |-> ModelControllerUid(c.account, interval),
                                        account |-> c.account, audiences |-> {}]
  BY DEF NewControllers
<1>3. ASSUME NEW p \in NewPods, NEW q \in NewPods, p.uid = q.uid PROVE p = q
  <2>1. p.account = q.account
    BY <1>1, <1>3 DEF ModelPodUid
  <2> QED
    BY <1>1, <2>1
<1>4. ASSUME NEW c \in NewControllers, NEW d \in NewControllers, c.uid = d.uid PROVE c = d
  <2>1. c.account = d.account
    BY <1>2, <1>4 DEF ModelControllerUid
  <2> QED
    BY <1>2, <2>1
<1> QED
  BY <1>1, <1>2, <1>3, <1>4 DEF UniqueUids

(* Every rule derives finitely many facts.                                 *)
LEMMA RulesFinite ==
    ASSUME IsFiniteSet(env.secrets), IsFiniteSet(env.services), IsFiniteSet(att.secrets)
    PROVE  /\ IsFiniteSet(ReadVersions) /\ IsFiniteSet(DownstreamKnown)
           /\ ReadNames \subseteq SecretNames(env) /\ Usable \subseteq ServiceNames(env)
<1>1. IsFiniteSet(ReadVersions)
  <2> DEFINE f == [s \in Readable |-> <<s.secret, s.version>>]
  <2>1. f \in Surjection(Readable, ReadVersions)
    BY DEF Surjection, ReadVersions
  <2>2. Readable \subseteq env.secrets
    BY DEF Readable
  <2> HIDE DEF f
  <2>3. IsFiniteSet(Readable)
    BY <2>2, FS_Subset
  <2> QED
    BY <2>1, <2>3, FS_Surjection
<1>2. IsFiniteSet(DownstreamKnown)
  <2> DEFINE from(s) == {x \in att.secrets : x[1] = s.source}
             of(s) == {<<s.name, k[2]>> : k \in from(s)}
             sets == {of(s) : s \in env.services}
             f == [s \in env.services |-> of(s)]
  <2>1. DownstreamKnown = UNION sets
    BY DEF DownstreamKnown
  <2>2. ASSUME NEW s \in env.services PROVE IsFiniteSet(of(s))
    <3> DEFINE g == [k \in from(s) |-> <<s.name, k[2]>>]
    <3>1. g \in Surjection(from(s), of(s))
      BY DEF Surjection
    <3>2. IsFiniteSet(from(s))
      BY FS_Subset
    <3> HIDE DEF g, of, from
    <3> QED
      BY <3>1, <3>2, FS_Surjection
  <2>3. f \in Surjection(env.services, sets)
    BY DEF Surjection
  <2>4. \A T \in sets : IsFiniteSet(T)
    BY <2>2
  <2> HIDE DEF f, sets
  <2>5. IsFiniteSet(sets)
    BY <2>3, FS_Surjection
  <2> QED
    BY <2>1, <2>4, <2>5, FS_UNION
<1>3. ReadNames \subseteq SecretNames(env)
  BY DEF ReadNames, Readable, SecretNames
<1>4. Usable \subseteq ServiceNames(env)
  BY DEF Usable, ServiceNames
<1> QED
  BY <1>1, <1>2, <1>3, <1>4

(* Pods of the environment come under control.                             *)
LEMMA PodsTaken ==
    ASSUME ResultsInv, TokenInv, CountInv, NEW T, T \subseteq UidsOf(env.pods),
           Adds(Cardinality(T \ att.pods)),
           att' = [att EXCEPT !.pods = @ \cup T], env' = env, eph' = eph
    PROVE  CountInv'
<1>1. PICK a, e, g, n, i, b : a = att /\ e = env /\ g = eph /\ n = interval /\ i = input /\ b = att'
  OBVIOUS
<1>2. /\ Known(i, a, e, g, n) /\ n \in Int /\ IsFiniteSet(e.pods)
      /\ \A p \in e.pods : Used(e, n, p.uid)
  BY <1>1, Sound DEF Adds
<1>3. Takes(b, a, T) /\ T \subseteq UidsOf(e.pods)
  <2>1. DOMAIN a = AttFields
    BY <1>2 DEF Known
  <2> QED
    BY <1>1, <2>1 DEF Takes, AttFields
<1>4. /\ Known(i, b, e, g, n)
      /\ Loose(b, e, g) = Loose(a, e, g) + Cardinality(T \ a.pods)
      /\ Steady(b, e) = Steady(a, e)
  BY <1>2, <1>3, PodsCounted
<1>5. Cardinality(T \ a.pods) \in Nat
  BY <1>2, <1>3, UidsFinite, FS_Subset, FS_CardinalityType
<1>6. Loose(a, e, g) \in Nat /\ Steady(a, e) \in Nat
  BY <1>2, Measured
<1>7. /\ Loose(b, e, g) >= Loose(a, e, g) + Cardinality(T \ a.pods)
      /\ Steady(b, e) >= Steady(a, e)
  BY <1>4, <1>5, <1>6
<1> QED
  BY <1>1, <1>4, <1>5, <1>7, AppliedRule

LEMMA CountToken ==
    ASSUME ResultsInv, TokenInv, CountInv, ObtainToken
    PROVE  CountInv'
<1>1. PICK a, e, g, n, i, b, T : /\ a = att /\ e = env /\ g = eph /\ n = interval /\ i = input
                                 /\ b = att' /\ T = StaleTokens
  OBVIOUS
<1>2. Adds(Cardinality(T)) /\ env' = e /\ eph' = g
  BY <1>1, DerivedFacts DEF ObtainToken
<1>3. Known(i, a, e, g, n) /\ IsFiniteSet(e.pods)
  BY <1>1, <1>2, Sound DEF Adds
<1>4. T = StaleIn(a, e)
  BY <1>1 DEF StaleTokens, StaleIn
<1>5. Obtains(b, a, T)
  <2>1. DOMAIN a = AttFields
    BY <1>3 DEF Known
  <2> QED
    BY <1>1, <2>1 DEF ObtainToken, Obtains, AttFields
<1>6. /\ Known(i, b, e, g, n) /\ Cardinality(T) \in Nat
      /\ Loose(b, e, g) >= Loose(a, e, g) + Cardinality(T)
      /\ Steady(b, e) >= Steady(a, e)
  BY <1>3, <1>4, <1>5, TokensAdded, Zenon
<1> QED
  BY <1>1, <1>2, <1>6, AppliedRule

LEMMA CountPods ==
    ASSUME ResultsInv, TokenInv, CountInv, CreatePod
    PROVE  CountInv'
<1>1. PICK a, e, g, n, i, b, h, new :
          /\ a = att /\ e = env /\ g = eph /\ n = interval /\ i = input
          /\ b = att' /\ h = env' /\ new = NewPods
  OBVIOUS
<1>2. Adds(Cardinality(new)) /\ eph' = g
  BY <1>1, DerivedFacts DEF CreatePod
<1>3. /\ Known(i, a, e, g, n) /\ DOMAIN e = EnvFields /\ n \in Int
      /\ IsFiniteSet(env.accounts)
  BY <1>1, <1>2, Sound DEF Adds
<1>4. h = [e EXCEPT !.pods = @ \cup new] /\ b = [a EXCEPT !.pods = @ \cup UidsOf(new)]
  BY <1>1 DEF CreatePod
<1>5. /\ IsFiniteSet(new) /\ UniqueUids(new)
      /\ \A p \in new : /\ p.uid \notin UidsOf(e.pods) /\ p.audiences = {}
                        /\ \E x : p.uid = ModelPodUid(x, n)
  BY <1>1, <1>3, NewPodsFacts, NewUids, NewUnique
<1>6. /\ Known(i, b, h, g, n) /\ Cardinality(new) \in Nat
      /\ Loose(b, h, g) = Loose(a, e, g) + Cardinality(new)
      /\ Steady(b, h) = Steady(a, e)
  BY <1>3, <1>4, <1>5, PodsAdded
<1>7. Loose(a, e, g) \in Nat /\ Steady(a, e) \in Nat
  BY <1>3, Measured
<1>8. Loose(b, h, g) >= Loose(a, e, g) + Cardinality(new) /\ Steady(b, h) >= Steady(a, e)
  BY <1>6, <1>7
<1> QED
  BY <1>1, <1>2, <1>6, <1>8, AppliedRule

LEMMA CountControllers ==
    ASSUME UidsApart, ResultsInv, TokenInv, CountInv, CreateController
    PROVE  CountInv'
<1>1. PICK a, e, g, n, i, b, h, new :
          /\ a = att /\ e = env /\ g = eph /\ n = interval /\ i = input
          /\ b = att' /\ h = env' /\ new = NewControllers
  OBVIOUS
<1>2. Adds(Cardinality(new)) /\ eph' = g
  BY <1>1, DerivedFacts DEF CreateController
<1>3. /\ Known(i, a, e, g, n) /\ DOMAIN e = EnvFields /\ n \in Int /\ Formed(e)
      /\ IsFiniteSet(env.accounts)
  BY <1>1, <1>2, Sound DEF Adds
<1>4. /\ h = (IF new = {} THEN e ELSE Reconcile(WithControllers(e, new)))
      /\ b = [a EXCEPT !.controllers = @ \cup UidsOf(new)]
  BY <1>1 DEF CreateController, WithControllers
<1>5. Loose(a, e, g) \in Nat /\ Steady(a, e) \in Nat
  BY <1>3, Measured
<1>6. CASE new = {}
  <2>1. UidsOf(new) = {} /\ Cardinality(new) = 0
    BY <1>6, FS_EmptySet DEF UidsOf
  <2>2. DOMAIN a = AttFields
    BY <1>3 DEF Known
  <2>3. /\ DOMAIN b = AttFields /\ b.pods = a.pods /\ b.credentials = a.credentials
        /\ b.controllers = a.controllers /\ b.secrets = a.secrets /\ b.downstream = a.downstream
    BY <1>4, <2>1, <2>2 DEF AttFields
  <2>4. Loose(b, e, g) = Loose(a, e, g) /\ Steady(b, e) = Steady(a, e)
    BY <2>3 DEF Loose, Steady, FreshIds
  <2>5. Loose(b, e, g) >= Loose(a, e, g) + 0 /\ Steady(b, e) >= Steady(a, e)
    BY <1>5, <2>4
  <2>6. Known(i, b, e, g, n)
    BY <1>3, <2>3 DEF Known
  <2> QED
    BY <1>1, <1>2, <1>4, <1>6, <2>1, <2>5, <2>6, AppliedRule
<1>7. CASE new # {}
  <2>1. h = Reconcile(WithControllers(e, new))
    BY <1>4, <1>7
  <2>2. \A c \in new : c.uid # None
    BY <1>1, <1>3, NewControllersFacts DEF UidsApart
  <2>3. /\ IsFiniteSet(new) /\ UniqueUids(new)
        /\ \A c \in new : /\ c.uid \notin UidsOf(e.controllers) /\ c.audiences = {} /\ c.uid # None
                          /\ \E x : c.uid = ModelControllerUid(x, n)
    BY <1>1, <1>3, <2>2, NewControllersFacts, NewUids, NewUnique
  <2>4. /\ Known(i, b, h, g, n) /\ Cardinality(new) \in Nat
        /\ Loose(b, h, g) = Loose(a, e, g) + Cardinality(new)
        /\ Steady(b, h) = Steady(a, e)
    BY <1>3, <1>4, <2>1, <2>3, ControllersAdded
  <2>5. Loose(b, h, g) >= Loose(a, e, g) + Cardinality(new) /\ Steady(b, h) >= Steady(a, e)
    BY <1>5, <2>4
  <2> QED
    BY <1>1, <1>2, <2>4, <2>5, AppliedRule
<1> QED
  BY <1>6, <1>7

(* Secrets, downstream credentials, reads and uses.                        *)
LEMMA FactsLearned ==
    ASSUME ResultsInv, TokenInv, CountInv, NEW S, NEW D, NEW R, NEW U,
           IsFiniteSet(S), IsFiniteSet(D), R \subseteq SecretNames(env), U \subseteq ServiceNames(env),
           Adds(Cardinality(S \ att.secrets) + Cardinality(D \ att.downstream)
                + Cardinality(R \ eph.reads) + Cardinality(U \ eph.uses)),
           Learns(att', att, S, D), Reaches(eph', eph, R, U), env' = env
    PROVE  CountInv'
<1>1. PICK a, e, g, n, i, b, q : /\ a = att /\ e = env /\ g = eph /\ n = interval /\ i = input
                                 /\ b = att' /\ q = eph'
  OBVIOUS
<1>2. Known(i, a, e, g, n)
  BY <1>1, Sound DEF Adds
<1>3. Gathers(a, e, g, b, q, S, D, R, U)
  BY <1>1 DEF Gathers
<1>4. PICK d : d = Gained(a, g, S, D, R, U)
  OBVIOUS
<1>5. /\ Known(i, b, e, q, n) /\ d \in Nat
      /\ Loose(b, e, q) = Loose(a, e, g) + d
      /\ Steady(b, e) = Steady(a, e)
  BY <1>2, <1>3, <1>4, FactsAdded
<1>6. Loose(a, e, g) \in Nat /\ Steady(a, e) \in Nat
  BY <1>2, Measured
<1>7. Loose(b, e, q) >= Loose(a, e, g) + d /\ Steady(b, e) >= Steady(a, e)
  BY <1>5, <1>6
<1>8. Adds(d)
  BY <1>1, <1>4 DEF Gained
<1> QED
  BY <1>1, <1>5, <1>7, <1>8, AppliedRule

LEMMA CountFacts ==
    ASSUME ResultsInv, TokenInv, CountInv,
           ReadSecret \/ DownstreamCredential \/ UseDownstream
    PROVE  CountInv'
<1>1. phase \in {"history", "main"}
  BY DEF ReadSecret, DownstreamCredential, UseDownstream, Apply, Sweeping
<1>2. Known(input, att, env, eph, interval)
  BY <1>1, Sound
<1>3. /\ DOMAIN att = AttFields /\ DOMAIN eph = {"reads", "uses"}
      /\ IsFiniteSet(env.secrets) /\ IsFiniteSet(env.services) /\ IsFiniteSet(att.secrets)
  BY <1>2 DEF Known, Keyed
<1>4. /\ IsFiniteSet(ReadVersions) /\ IsFiniteSet(DownstreamKnown)
      /\ ReadNames \subseteq SecretNames(env) /\ Usable \subseteq ServiceNames(env)
  BY <1>3, RulesFinite
<1>5. /\ Cardinality({} \ att.secrets) = 0 /\ Cardinality({} \ att.downstream) = 0
      /\ Cardinality({} \ eph.reads) = 0 /\ Cardinality({} \ eph.uses) = 0
      /\ IsFiniteSet({})
  <2>1. /\ {} \ att.secrets = {} /\ {} \ att.downstream = {}
        /\ {} \ eph.reads = {} /\ {} \ eph.uses = {}
    OBVIOUS
  <2> QED
    BY <2>1, FS_EmptySet
<1>6. /\ {} \subseteq SecretNames(env) /\ {} \subseteq ServiceNames(env)
  OBVIOUS
<1>7. CASE ReadSecret
  <2>1. PICK x, y : /\ x = Cardinality(ReadVersions \ att.secrets)
                    /\ y = Cardinality(ReadNames \ eph.reads)
    OBVIOUS
  <2>2. x \in Nat /\ y \in Nat
    <3>1. IsFiniteSet(SecretNames(env))
      BY <1>3, NamesCounted
    <3>2. IsFiniteSet(ReadNames)
      BY <1>4, <3>1, FS_Subset
    <3> QED
      BY <1>4, <2>1, <3>2, FS_Subset, FS_CardinalityType
  <2>3. x + 0 + y + 0 = x + y
    BY <2>2
  <2>4. /\ Learns(att', att, ReadVersions, {})
        /\ Reaches(eph', eph, ReadNames, {}) /\ env' = env
    BY <1>3, <1>7 DEF ReadSecret, AttFields, Learns, Reaches
  <2>5. Adds(x + y)
    BY <1>7, <2>1, DerivedFacts
  <2>6. Adds(Cardinality(ReadVersions \ att.secrets) + Cardinality({} \ att.downstream)
             + Cardinality(ReadNames \ eph.reads) + Cardinality({} \ eph.uses))
    BY <1>5, <2>1, <2>3, <2>5
  <2> QED
    BY <1>4, <1>5, <1>6, <2>4, <2>6, FactsLearned
<1>8. CASE DownstreamCredential
  <2>1. PICK x : x = Cardinality(DownstreamKnown \ att.downstream)
    OBVIOUS
  <2>2. x \in Nat
    BY <1>4, <2>1, FS_Subset, FS_CardinalityType
  <2>3. 0 + x + 0 + 0 = x
    BY <2>2
  <2>4. /\ Learns(att', att, {}, DownstreamKnown)
        /\ Reaches(eph', eph, {}, {}) /\ env' = env
    BY <1>3, <1>8 DEF DownstreamCredential, AttFields, Learns, Reaches
  <2>5. Adds(x)
    BY <1>8, <2>1, DerivedFacts
  <2>6. Adds(Cardinality({} \ att.secrets) + Cardinality(DownstreamKnown \ att.downstream)
             + Cardinality({} \ eph.reads) + Cardinality({} \ eph.uses))
    BY <1>5, <2>1, <2>3, <2>5
  <2> QED
    BY <1>4, <1>5, <1>6, <2>4, <2>6, FactsLearned
<1>9. CASE UseDownstream
  <2>1. PICK x : x = Cardinality(Usable \ eph.uses)
    OBVIOUS
  <2>2. x \in Nat
    <3>1. IsFiniteSet(ServiceNames(env))
      BY <1>3, NamesCounted
    <3>2. IsFiniteSet(Usable)
      BY <1>4, <3>1, FS_Subset
    <3> QED
      BY <2>1, <3>2, FS_Subset, FS_CardinalityType
  <2>3. 0 + 0 + 0 + x = x
    BY <2>2
  <2>4. /\ Learns(att', att, {}, {})
        /\ Reaches(eph', eph, {}, Usable) /\ env' = env
    BY <1>3, <1>9 DEF UseDownstream, AttFields, Learns, Reaches
  <2>5. Adds(x)
    BY <1>9, <2>1, DerivedFacts
  <2>6. Adds(Cardinality({} \ att.secrets) + Cardinality({} \ att.downstream)
             + Cardinality({} \ eph.reads) + Cardinality(Usable \ eph.uses))
    BY <1>5, <2>1, <2>3, <2>5
  <2> QED
    BY <1>4, <1>5, <1>6, <2>4, <2>6, FactsLearned
<1> QED
  BY <1>7, <1>8, <1>9

(* What the attacker knows when an analysis starts.                        *)
LEMMA BelievedFinite ==
    ASSUME input \in Inputs, NEW kind, NEW v
    PROVE  IsFiniteSet(Believed(kind, v))
<1> DEFINE from == {g \in input.initial_facts :
                      g.kind = kind /\ (v = "conservative_possible" \/ g.status # "inferred")}
           f == [g \in from |-> g.arg]
<1>1. f \in Surjection(from, Believed(kind, v))
  BY DEF Surjection, Believed
<1>2. IsFiniteSet(from)
  BY CaseAssumption, FS_Subset
<1> HIDE DEF f, from
<1> QED
  BY <1>1, <1>2, FS_Surjection

LEMMA HistoricalFinite ==
    ASSUME PodsApart, input \in Inputs, NEW v
    PROVE  /\ IsFiniteSet(UidsOf(HistoricalPods(v)))
           /\ \A u \in UidsOf(HistoricalPods(v)) : ~EnginePod(u)
<1> DEFINE made(h) == [uid |-> h.uid, name |-> h.uid, account |-> h.account, audiences |-> {},
                       controller |-> None]
           from == Believed("historical_pod", v)
           f == [h \in from |-> made(h)]
<1>1. f \in Surjection(from, HistoricalPods(v))
  BY DEF Surjection, HistoricalPods
<1>2. IsFiniteSet(from)
  BY BelievedFinite
<1>3. \A h \in from : ~EnginePod(h.uid)
  BY DEF Believed, PodsApart
<1>4. \A u \in UidsOf(HistoricalPods(v)) : ~EnginePod(u)
  BY <1>3 DEF HistoricalPods, UidsOf
<1>5. IsFiniteSet(HistoricalPods(v))
  <2> HIDE DEF f, from
  <2> QED
    BY <1>1, <1>2, FS_Surjection
<1> QED
  BY <1>4, <1>5, UidsFinite

LEMMA InitialKnown ==
    ASSUME PodsApart, FactsApart, input \in Inputs, NEW v, NEW e, Keyed(input, e), NEW n,
           NEW b, DOMAIN b = AttFields, b.credentials = Believed("possesses_credential", v),
           b.pods \subseteq Believed("controls_pod", v) \cup UidsOf(HistoricalPods(v)),
           b.controllers = Believed("controls_controller", v),
           b.secrets = Believed("knows_secret", v), b.downstream = {}
    PROVE  Known(input, b, e, NoGoals, n)
<1>1. PICK pods, gone : pods = Believed("controls_pod", v) /\ gone = UidsOf(HistoricalPods(v))
  OBVIOUS
<1>2. IsFiniteSet(pods \cup gone)
  BY <1>1, BelievedFinite, HistoricalFinite, FS_Union
<1>3. IsFiniteSet(b.pods)
  BY <1>1, <1>2, FS_Subset
<1>4. /\ IsFiniteSet(b.credentials) /\ IsFiniteSet(b.controllers) /\ IsFiniteSet(b.secrets)
      /\ IsFiniteSet(b.downstream)
  BY BelievedFinite, FS_EmptySet
<1>5. \A a, j : ModelPodUid(a, j) \notin b.pods
  <2>1. \A a, j : ModelPodUid(a, j) \notin pods
    BY <1>1 DEF Believed, FactsApart
  <2>2. \A a, j : ModelPodUid(a, j) \notin gone
    BY <1>1, HistoricalFinite DEF EnginePod, BareUid
  <2> QED
    BY <1>1, <2>1, <2>2
<1>6. \A a, j : ModelControllerUid(a, j) \notin b.controllers
  BY DEF Believed, FactsApart, MadeController, DeployUid
<1>7. PodsMade(b.pods, e, n) /\ ControllersMade(b.controllers, e, n)
  BY <1>5, <1>6 DEF PodsMade, ControllersMade
<1>8. DOMAIN NoGoals = {"reads", "uses"} /\ NoGoals.reads = {} /\ NoGoals.uses = {}
  BY DEF NoGoals
<1> QED
  BY <1>3, <1>4, <1>7, <1>8 DEF Known

LEMMA Starts ==
    ASSUME NEW i, NEW b, NEW h, NEW q, NEW n, input' = i, att' = b, env' = h, eph' = q, interval' = n,
           phase' \in {"history", "main"}, n + 1 \in Nat, count' = 0, Known(i, b, h, q, n)
    PROVE  CountInv'
<1>1. Loose(b, h, q) \in Nat /\ Steady(b, h) \in Nat
  BY Measured
<1>2. (n + 1) * Steady(b, h) \in Nat
  BY <1>1, Larger
<1>3. 0 <= Loose(b, h, q) + (n + 1) * Steady(b, h)
  BY <1>1, <1>2
<1> QED
  BY <1>3 DEF CountInv

(* An interval ends: what was derived in it is what can be derived in one. *)
LEMMA IntervalEnds ==
    ASSUME NEW i, NEW a, NEW e, NEW g, NEW n \in Int, n + 1 \in Nat, Known(i, a, e, g, n),
           NEW h, Keyed(i, h), NEW x \in Nat, x <= Loose(a, e, g) + (n + 1) * Steady(a, e)
    PROVE  /\ Known(i, a, h, NoGoals, n + 1)
           /\ x <= Loose(a, h, NoGoals) + (n + 1 + 1) * Steady(a, h)
<1>0. DOMAIN NoGoals = {"reads", "uses"} /\ NoGoals.reads = {} /\ NoGoals.uses = {}
  BY DEF NoGoals
<1>1. SecretNames(h) = SecretNames(e) /\ ServiceNames(h) = ServiceNames(e)
  BY DEF Known, Keyed
<1>2. PodsMade(a.pods, h, n + 1)
  BY DEF Known, PodsMade
<1>3. ControllersMade(a.controllers, h, n + 1)
  BY DEF Known, ControllersMade
<1>4. Known(i, a, h, NoGoals, n + 1)
  BY <1>0, <1>2, <1>3 DEF Known
<1>5. Steady(a, h) = Steady(a, e)
  BY <1>1 DEF Steady
<1>6. PICK base, s : /\ s = Steady(a, e)
                     /\ base = Cardinality(a.pods) + Cardinality(a.controllers)
                               + Cardinality(a.secrets) + Cardinality(a.downstream)
  OBVIOUS
<1>7. base \in Nat /\ s \in Nat /\ Loose(a, e, g) <= base + s /\ Loose(a, e, g) \in Nat
  <2>1. /\ Cardinality(a.pods) \in Nat /\ Cardinality(a.controllers) \in Nat
        /\ Cardinality(a.secrets) \in Nat /\ Cardinality(a.downstream) \in Nat
        /\ Cardinality(FreshIds(a, e)) \in Nat /\ Cardinality(Ids(a.credentials)) \in Nat
        /\ Cardinality(g.reads) \in Nat /\ Cardinality(g.uses) \in Nat
        /\ Cardinality(SecretNames(e)) \in Nat /\ Cardinality(ServiceNames(e)) \in Nat
        /\ Cardinality(FreshIds(a, e)) <= Cardinality(Ids(a.credentials))
        /\ Cardinality(g.reads) <= Cardinality(SecretNames(e))
        /\ Cardinality(g.uses) <= Cardinality(ServiceNames(e))
    BY Measured
  <2> QED
    BY <1>6, <2>1 DEF Loose, Steady
<1>8. Loose(a, h, NoGoals) >= base /\ Loose(a, h, NoGoals) \in Nat
  <2>1. /\ Cardinality(a.pods) \in Nat /\ Cardinality(a.controllers) \in Nat
        /\ Cardinality(a.secrets) \in Nat /\ Cardinality(a.downstream) \in Nat
        /\ Cardinality(FreshIds(a, h)) \in Nat
        /\ Cardinality(NoGoals.reads) \in Nat /\ Cardinality(NoGoals.uses) \in Nat
    BY <1>4, Measured
  <2> QED
    BY <1>6, <2>1 DEF Loose
<1>9. (n + 1) * s \in Nat /\ (n + 1 + 1) * s = (n + 1) * s + s
  BY <1>7, Larger
<1>10. x <= Loose(a, h, NoGoals) + (n + 1 + 1) * s
  BY <1>6, <1>7, <1>8, <1>9
<1> QED
  BY <1>4, <1>5, <1>6, <1>10

LEMMA CountIntervals ==
    ASSUME UidsApart, ResultsInv, TokenInv, CountInv, EndHistory \/ Remediate
    PROVE  CountInv'
<1>1. PICK a, e, g, n, i, h : /\ a = att /\ e = env /\ g = eph /\ n = interval /\ i = input
                              /\ h = env'
  OBVIOUS
<1>2. /\ phase \in {"history", "main"} /\ phase' = "main" /\ input' = i /\ att' = a
      /\ eph' = NoGoals /\ count' = count
  BY <1>1 DEF EndHistory, Remediate, EnterInterval
<1>3. /\ Known(i, a, e, g, n) /\ n \in Int /\ n + 1 \in Nat /\ Formed(e) /\ DOMAIN e = EnvFields
      /\ count \in Nat /\ count <= Loose(a, e, g) + (n + 1) * Steady(a, e)
  BY <1>1, <1>2, Sound
<1>4. i \in Inputs
  BY <1>1 DEF ResultsInv
<1>5. interval' = n + 1 /\ Keyed(i, h)
  <2>1. CASE EndHistory
    <3>1. phase = "history" /\ interval' = 0 /\ h = Reconcile(i.inventory)
      BY <1>1, <2>1 DEF EndHistory, Inventory
    <3>2. n = -1
      BY <1>1, <3>1 DEF TokenInv, HistoryInterval
    <3>3. Keyed(i, h)
      BY <1>4, <3>1, InventoryKeyed, InventoryFormed, ReconcileKeyed
    <3> QED
      BY <3>1, <3>2, <3>3
  <2>2. CASE Remediate
    <3>1. PICK act, r : act = i.remediation[n + 1] /\ r = ApplyDefenderAction(e, act)
      OBVIOUS
    <3>2. /\ phase = "main" /\ interval' = n + 1 /\ n < Len(i.remediation) /\ h = Reconcile(r)
      BY <1>1, <2>2, <3>1 DEF Remediate
    <3>3. n + 1 \in 1..Len(i.remediation)
      BY <1>1, <1>4, <3>2, CaseAssumption DEF ResultsInv, MainEnv
    <3>4. act.kind \in ActionKinds /\ (act.kind = "wait" => act.seconds \in Nat)
      BY <1>4, <3>1, <3>3, CaseAssumption
    <3>5. Formed(r)
      BY <1>3, <3>1, <3>4, ApplyNarrows, NarrowsForms
    <3>6. Keyed(i, e)
      BY <1>3 DEF Known
    <3>7. Keyed(i, r)
      BY <1>3, <3>1, <3>4, <3>6, ApplyKeyed
    <3> QED
      BY <3>2, <3>5, <3>7, ReconcileKeyed
  <2> QED
    BY <2>1, <2>2
<1>6. /\ Known(i, a, h, NoGoals, n + 1)
      /\ count <= Loose(a, h, NoGoals) + (n + 1 + 1) * Steady(a, h)
  BY <1>3, <1>5, IntervalEnds
<1>7. n + 1 + 1 \in Nat
  BY <1>3
<1> QED
  BY <1>1, <1>2, <1>3, <1>5, <1>6, <1>7 DEF CountInv

LEMMA CountBegins ==
    ASSUME UidsApart, PodsApart, FactsApart, ResultsInv, CountInv, BeginHistory \/ BeginMain
    PROVE  CountInv'
<1>1. PICK b, h, v : b = att' /\ h = env' /\ v = View
  OBVIOUS
<1>2. /\ input \in Inputs /\ phase = "begin" /\ input' = input /\ eph' = eph /\ count' = count
      /\ phase' \in {"history", "main"} /\ interval' + 1 \in Nat
  BY DEF BeginHistory, BeginMain, ResultsInv, HistoryInterval
<1>3. eph' = NoGoals /\ count' = 0
  BY <1>2 DEF CountInv
<1>4. Keyed(input, h)
  <2>1. CASE BeginHistory
    BY <1>1, <1>2, <2>1, HistoryKeyed DEF BeginHistory
  <2>2. CASE BeginMain
    BY <1>1, <1>2, <2>2, InventoryKeyed, InventoryFormed, ReconcileKeyed DEF BeginMain, Inventory
  <2> QED
    BY <2>1, <2>2
<1>5. /\ DOMAIN b = AttFields /\ b.credentials = Believed("possesses_credential", v)
      /\ b.pods \subseteq Believed("controls_pod", v) \cup UidsOf(HistoricalPods(v))
      /\ b.controllers = Believed("controls_controller", v)
      /\ b.secrets = Believed("knows_secret", v) /\ b.downstream = {}
  <2>1. CASE BeginHistory
    BY <1>1, <2>1 DEF BeginHistory, InitialFacts, AttFields
  <2>2. CASE BeginMain
    BY <1>1, <2>2 DEF BeginMain, InitialFacts, AttFields
  <2> QED
    BY <2>1, <2>2
<1>6. PICK n : n = interval'
  OBVIOUS
<1>7. Known(input, b, h, NoGoals, n)
  BY <1>2, <1>4, <1>5, InitialKnown
<1> QED
  BY <1>1, <1>2, <1>3, <1>6, <1>7, Starts

LEMMA CountInit == Init => CountInv
BY DEF Init, CountInv, Inventory

LEMMA CountNext ==
    ASSUME UidsApart, PodsApart, FactsApart, ResultsInv, TokenInv, CountInv, [Next]_vars
    PROVE  CountInv'
<1>1. CASE BeginHistory \/ BeginMain
  BY <1>1, CountBegins
<1>2. CASE ControllerPod
  <2>1. OwnedPods \subseteq UidsOf(env.pods)
    BY DEF OwnedPods, UidsOf
  <2>2. Adds(Cardinality(OwnedPods \ att.pods))
    BY <1>2, DerivedFacts
  <2>3. att' = [att EXCEPT !.pods = @ \cup OwnedPods] /\ env' = env /\ eph' = eph
    BY <1>2 DEF ControllerPod
  <2> QED
    BY <2>1, <2>2, <2>3, PodsTaken
<1>3. CASE ExecPod
  <2>1. ExecPods \subseteq UidsOf(env.pods)
    BY DEF ExecPods, UidsOf
  <2>2. Adds(Cardinality(ExecPods \ att.pods))
    BY <1>3, DerivedFacts
  <2>3. att' = [att EXCEPT !.pods = @ \cup ExecPods] /\ env' = env /\ eph' = eph
    BY <1>3 DEF ExecPod
  <2> QED
    BY <2>1, <2>2, <2>3, PodsTaken
<1>4. CASE ObtainToken
  BY <1>4, CountToken
<1>5. CASE CreatePod
  BY <1>5, CountPods
<1>6. CASE CreateController
  BY <1>6, CountControllers
<1>7. CASE ReadSecret \/ DownstreamCredential \/ UseDownstream
  BY <1>7, CountFacts
<1>8. CASE EndHistory \/ Remediate
  BY <1>8, CountIntervals
<1>9. CASE FinishView \/ ExceedBounds
  BY <1>9 DEF FinishView, ExceedBounds, EndView, EnterInterval, CountInv, Inventory
<1>10. CASE Stop \/ UNCHANGED vars
  BY <1>10 DEF Stop, vars, CountInv, Inventory
<1> QED
  BY <1>1, <1>2, <1>3, <1>4, <1>5, <1>6, <1>7, <1>8, <1>9, <1>10 DEF Next

LEMMA CountSuffices ==
    ASSUME ResultsInv, TokenInv, CountInv
    PROVE  DerivedOnce
<1>1. PICK a, e, g, n : a = att /\ e = env /\ g = eph /\ n = interval
  OBVIOUS
<1>2. CASE phase = "begin"
  <2>1. /\ count = 0 /\ a = NoFacts /\ e = input.inventory /\ n + 2 = 1 /\ input \in Inputs
    BY <1>1, <1>2 DEF CountInv, Inventory, HistoryInterval, ResultsInv
  <2>2. Cardinality({}) = 0
    BY FS_EmptySet
  <2>3. IsFiniteSet(e.secrets) /\ IsFiniteSet(e.services)
    BY <2>1, CaseAssumption
  <2>4. Cardinality(e.secrets) \in Nat /\ Cardinality(e.services) \in Nat
    BY <2>3, FS_CardinalityType
  <2> QED
    BY <1>1, <2>1, <2>2, <2>4 DEF DerivedOnce, NoFacts
<1>3. CASE phase # "begin"
  <2>1. /\ Known(input, a, e, g, n) /\ n + 1 \in Nat
        /\ count \in Nat /\ count <= Loose(a, e, g) + (n + 1) * Steady(a, e)
    BY <1>1, <1>3 DEF CountInv
  <2>2. n \in Int
    BY <1>1, <1>3, Running DEF ResultsInv
  <2>3. PICK base, s, c : /\ s = Steady(a, e)
                          /\ base = Cardinality(a.pods) + Cardinality(a.controllers)
                                    + Cardinality(a.secrets) + Cardinality(a.downstream)
                          /\ c = Cardinality(a.credentials) + Cardinality(e.secrets)
                                 + Cardinality(e.services)
    OBVIOUS
  <2>4. base \in Nat /\ s \in Nat /\ Loose(a, e, g) <= base + s /\ Loose(a, e, g) \in Nat
    <3>1. /\ Cardinality(a.pods) \in Nat /\ Cardinality(a.controllers) \in Nat
          /\ Cardinality(a.secrets) \in Nat /\ Cardinality(a.downstream) \in Nat
          /\ Cardinality(FreshIds(a, e)) \in Nat /\ Cardinality(Ids(a.credentials)) \in Nat
          /\ Cardinality(g.reads) \in Nat /\ Cardinality(g.uses) \in Nat
          /\ Cardinality(SecretNames(e)) \in Nat /\ Cardinality(ServiceNames(e)) \in Nat
          /\ Cardinality(FreshIds(a, e)) <= Cardinality(Ids(a.credentials))
          /\ Cardinality(g.reads) <= Cardinality(SecretNames(e))
          /\ Cardinality(g.uses) <= Cardinality(ServiceNames(e))
      BY <2>1, Measured
    <3> QED
      BY <2>3, <3>1 DEF Loose, Steady
  <2>5. c \in Nat /\ s <= c
    <3>1. IsFiniteSet(a.credentials) /\ IsFiniteSet(e.secrets) /\ IsFiniteSet(e.services)
      BY <2>1 DEF Known, Keyed
    <3>2. /\ Cardinality(Ids(a.credentials)) \in Nat /\ Cardinality(a.credentials) \in Nat
          /\ Cardinality(Ids(a.credentials)) <= Cardinality(a.credentials)
      BY <3>1, IdsCounted
    <3>3. /\ Cardinality(SecretNames(e)) \in Nat /\ Cardinality(e.secrets) \in Nat
          /\ Cardinality(ServiceNames(e)) \in Nat /\ Cardinality(e.services) \in Nat
          /\ Cardinality(SecretNames(e)) <= Cardinality(e.secrets)
          /\ Cardinality(ServiceNames(e)) <= Cardinality(e.services)
      BY <3>1, NamesCounted
    <3> QED
      BY <2>3, <3>2, <3>3 DEF Steady
  <2>6. /\ (n + 1) * s \in Nat /\ (n + 1 + 1) * s = (n + 1) * s + s
    BY <2>1, <2>4, Larger
  <2>7. (n + 1 + 1) * s <= (n + 1 + 1) * c /\ (n + 1 + 1) * c \in Nat
    <3>1. n + 1 + 1 \in Nat
      BY <2>1
    <3> QED
      BY <2>4, <2>5, <3>1, Larger
  <2>8. n + 1 + 1 = n + 2
    BY <2>2
  <2>9. count <= base + (n + 2) * c
    <3>1. count <= base + (n + 1 + 1) * c
      BY <2>1, <2>3, <2>4, <2>6, <2>7
    <3> QED
      BY <2>8, <3>1
  <2> QED
    BY <1>1, <2>3, <2>9 DEF DerivedOnce
<1> QED
  BY <1>2, <1>3

(* The derivations of a view are bounded by what the attacker has in the   *)
(* end: closure derives a fact once, and refreshes a token, reads a secret *)
(* and uses a service once per interval.                                   *)
THEOREM DerivationsBounded ==
    ASSUME UidsApart, PodsApart, FactsApart
    PROVE  Spec => []DerivedOnce
<1>1. Init => ResultsInv /\ TokenInv /\ CountInv
  BY ResultsInit, TokenInit, CountInit
<1>2. ResultsInv /\ TokenInv /\ CountInv /\ [Next]_vars => (ResultsInv /\ TokenInv /\ CountInv)'
  BY ResultsNext, TokenNext, CountNext
<1>3. ResultsInv /\ TokenInv /\ CountInv => DerivedOnce
  BY CountSuffices
<1> QED
  BY <1>1, <1>2, <1>3, PTL DEF Spec

-----------------------------------------------------------------------------
(* Runs of the analysis against one another.                               *)
(*                                                                         *)
(* Interval by interval, a state in which the attacker has nothing left to *)
(* derive bounds every state of a run that started with no more.  The two  *)
(* may have made different workloads: what counts of those is which        *)
(* accounts they run as.                                                   *)

(* The credential d is c, or a later token of the same pod.                *)
AsGood(c, d) ==
    \/ d = c
    \/ /\ d.id = c.id /\ d.kind = c.kind /\ d.account = c.account /\ d.sa_uid = c.sa_uid
       /\ d.bound_pod = c.bound_pod /\ d.audience = c.audience
       /\ c.expires_at \in Int /\ d.expires_at \in Int /\ c.expires_at <= d.expires_at

(* A credential can be used in interval n: in the possible past, at some   *)
(* time of the window.                                                     *)
Valid(i, n, e, c) ==
    \/ c.expires_at = None
    \/ IF n = HistoryInterval
       THEN i.history_start = None \/ i.history_start < c.expires_at
       ELSE e.time < c.expires_at
Works(i, n, e, c) ==
    /\ Supported(c) /\ Valid(i, n, e, c) /\ c.audience \in ApiAudiences
    /\ \E s \in e.accounts : s.account = c.account /\ c.sa_uid \in {None, s.uid}
    /\ c.bound_pod # None => \E p \in e.pods : p.uid = c.bound_pod /\ p.account = c.account

(* The account x as which the attacker a can act.                          *)
Actor(i, n, e, a, x) == \E c \in a.credentials : Works(i, n, e, c) /\ c.account = x

HasAccount(e, x) == \E s \in e.accounts : s.account = x
HasPod(e, x) == \E p \in e.pods : BareUid(x, p.uid)
HasDeploy(e, x) == \E c \in e.controllers : DeployUid(x, c.uid)

(* One that it can act as or will, having a workload of it.                *)
Acts(i, n, e, a, x) ==
    Actor(i, n, e, a, x) \/ (HasAccount(e, x) /\ (HasPod(e, x) \/ HasDeploy(e, x)))

MayCreate(e, x, kind, y) ==
    AdmissionDecision(x, y) = "allow" /\ Authorized(e, x, "create", kind, NamespaceOf(y), None)
MayExec(e, x, p) == Authorized(e, x, "create", "pods/exec", NamespaceOf(p.account), p.name)

(* The attacker a with the goals g has nothing left to derive in e.        *)
Saturated(i, n, e, a, g) ==
    /\ \A p \in e.pods : p.controller \in a.controllers => MadePod(p.uid) \/ p.uid \in a.pods
    /\ \A p \in e.pods : \A x :
          Acts(i, n, e, a, x) /\ MayExec(e, x, p) => MadePod(p.uid) \/ p.uid \in a.pods
    /\ \A t \in TokensFrom(e, a.pods) :
          MadePod(t.bound_pod) \/ \E c \in a.credentials : AsGood(t, c)
    /\ \A x, y : Acts(i, n, e, a, x) /\ HasAccount(e, y) /\ MayCreate(e, x, "pods", y) => HasPod(e, y)
    /\ \A x, y : Acts(i, n, e, a, x) /\ HasAccount(e, y) /\ MayCreate(e, x, "deployments", y) =>
          HasDeploy(e, y)
    /\ \A s \in e.secrets : \A x :
          Acts(i, n, e, a, x) /\ CanReadSecret(e, x, s.secret) =>
              <<s.secret, s.version>> \in a.secrets /\ s.secret \in g.reads
    /\ \A s \in e.services : \A k \in a.secrets :
          k[1] = s.source => <<s.name, k[2]>> \in a.downstream
    /\ \A s \in e.services : \A k \in a.downstream :
          k[1] = s.name /\ Accepts(s, k[2], e.time) => s.name \in g.uses

(* What the environment e has f has too, attacker workloads aside.         *)
Under(e, f) ==
    /\ e.time = f.time /\ e.accounts = f.accounts /\ e.bindings = f.bindings
    /\ e.secrets = f.secrets /\ e.services = f.services
    /\ \A p \in e.pods : MadePod(p.uid) \/ p \in f.pods

(* The attacker a with the goals g in e has no more than the one in the    *)
(* state d.                                                                *)
Covered(e, a, g, d) ==
    /\ \A u \in a.pods : MadePod(u) \/ u \in d.att.pods
    /\ \A u \in a.controllers : MadeController(u) \/ u \in d.att.controllers
    /\ a.secrets \subseteq d.att.secrets /\ a.downstream \subseteq d.att.downstream
    /\ \A c \in a.credentials : MadePod(c.bound_pod) \/ \E x \in d.att.credentials : AsGood(c, x)
    /\ \A x : HasPod(e, x) => HasPod(d.env, x)
    /\ \A x : HasDeploy(e, x) => HasDeploy(d.env, x)
    /\ g.reads \subseteq d.eph.reads /\ g.uses \subseteq d.eph.uses

(* Where pods and controllers come from, h being the environment of the    *)
(* possible past.                                                          *)
CtrlFrom(h, c) == c \in h.controllers \/ (DeployUid(c.account, c.uid) /\ c.audiences = {})
ReplicaOf(c, p) ==
    /\ \E k : p.uid = ReplicaUid(c.uid, k)
    /\ p.account = c.account /\ p.controller = c.uid /\ p.audiences = c.audiences
PodFrom(h, p) ==
    \/ p \in h.pods
    \/ BareUid(p.account, p.uid) /\ p.controller = None /\ p.audiences = {}
    \/ \E c : CtrlFrom(h, c) /\ ReplicaOf(c, p)

(* The objects of the input have UIDs and accounts of their own.           *)
Apart(h) ==
    /\ UniqueUids(h.pods) /\ UniqueUids(h.controllers)
    /\ \A p \in h.pods : ~EnginePod(p.uid) /\ ~MadeController(p.controller)
    /\ \A c \in h.controllers : ~MadeController(c.uid)
    /\ \A s, t \in h.accounts : s.account = t.account => s = t
    /\ \A s \in h.accounts : s.account # None
    /\ ~MadeController(None) /\ ~MadePod(None)

Lodged(h, e) ==
    /\ \A p \in e.pods : PodFrom(h, p)
    /\ \A c \in e.controllers : CtrlFrom(h, c)
    /\ e.accounts \subseteq h.accounts
    /\ \A p \in e.pods : MadeController(p.controller) => p.controller \in UidsOf(e.controllers)

(* A made-up UID tells the account.                                        *)
LEMMA UidTells ==
    ASSUME NEW x, NEW y, NEW u
    PROVE  /\ BareUid(x, u) /\ BareUid(y, u) => x = y
           /\ DeployUid(x, u) /\ DeployUid(y, u) => x = y
           /\ DeployUid(x, u) => MadeController(u)
           /\ BareUid(x, u) => MadePod(u) /\ EnginePod(u)
           /\ BareUid(x, u) => \A c, k : u # ReplicaUid(c, k)
<1>1. BareUid(x, u) /\ BareUid(y, u) => x = y
  BY DEF BareUid, ModelPodUid
<1>2. DeployUid(x, u) /\ DeployUid(y, u) => x = y
  BY DEF DeployUid, ModelControllerUid
<1>3. BareUid(x, u) => \A c, k : u # ReplicaUid(c, k)
  BY DEF BareUid, ModelPodUid, ReplicaUid
<1>4. DeployUid(x, u) => MadeController(u)
  BY DEF MadeController
<1>5. BareUid(x, u) => MadePod(u) /\ EnginePod(u)
  BY DEF MadePod, EnginePod
<1> QED
  BY <1>1, <1>2, <1>3, <1>4, <1>5

LEMMA MadeIsEngine ==
    ASSUME NEW u, MadePod(u)
    PROVE  EnginePod(u)
BY DEF MadePod, EnginePod

(* The controller of a made-up UID runs as the account that it tells.      *)
LEMMA MadeControllerFrom ==
    ASSUME NEW h, Apart(h), NEW c, CtrlFrom(h, c), MadeController(c.uid)
    PROVE  DeployUid(c.account, c.uid)
BY DEF Apart, CtrlFrom

(* An attacker workload that is there belongs to an account that has one.  *)
LEMMA MadeRuns ==
    ASSUME NEW h, Apart(h), NEW e, Lodged(h, e), NEW p \in e.pods, MadePod(p.uid)
    PROVE  HasPod(e, p.account) \/ HasDeploy(e, p.account)
<1>1. PodFrom(h, p) /\ p \notin h.pods
  BY MadeIsEngine DEF Lodged, Apart
<1>2. CASE BareUid(p.account, p.uid)
  BY <1>2 DEF HasPod
<1>3. CASE \E c : CtrlFrom(h, c) /\ ReplicaOf(c, p)
  <2>1. PICK c, k : /\ CtrlFrom(h, c)
                    /\ p.uid = ReplicaUid(c.uid, k) /\ p.account = c.account /\ p.controller = c.uid
    BY <1>3 DEF ReplicaOf
  <2>2. MadeController(c.uid)
    BY <2>1, ReplicaMade
  <2>3. PICK b \in e.controllers : b.uid = c.uid
    BY <2>1, <2>2 DEF Lodged, UidsOf
  <2>4. DeployUid(b.account, b.uid) /\ DeployUid(c.account, c.uid)
    BY <2>1, <2>2, <2>3, MadeControllerFrom DEF Lodged
  <2>5. b.account = c.account
    BY <2>3, <2>4, UidTells
  <2> QED
    BY <2>1, <2>3, <2>4, <2>5 DEF HasDeploy
<1> QED
  BY <1>1, <1>2, <1>3 DEF PodFrom

(* What one environment authorizes the other does too.                     *)
LEMMA AuthorizedUnder ==
    ASSUME NEW e, NEW f, Under(e, f)
    PROVE  /\ \A x, y, kind : MayCreate(e, x, kind, y) => MayCreate(f, x, kind, y)
           /\ \A x, p : MayExec(e, x, p) => MayExec(f, x, p)
           /\ \A x, s : CanReadSecret(e, x, s) => CanReadSecret(f, x, s)
           /\ \A x : HasAccount(e, x) => HasAccount(f, x)
<1>1. e.bindings = f.bindings /\ e.accounts = f.accounts
  BY DEF Under
<1>2. \A x, verb, resource, ns, name :
         Authorized(e, x, verb, resource, ns, name) = Authorized(f, x, verb, resource, ns, name)
  BY <1>1 DEF Authorized, AuthorizingBindings
<1> QED
  BY <1>1, <1>2 DEF MayCreate, MayExec, CanReadSecret, HasAccount

(* The state d is that of an attacker that is done, and covers (e, a, g).  *)
Follows(h, i, n, e, a, g, d) ==
    /\ e.time \in Int /\ (i.history_start # None => i.history_start \in Int)
    /\ Apart(h) /\ Lodged(h, e) /\ Under(e, d.env) /\ Covered(e, a, g, d)
    /\ Saturated(i, n, d.env, d.att, d.eph)

LEMMA WorksUnder ==
    ASSUME NEW e, NEW f, Under(e, f), NEW i, NEW n, NEW c, NEW x, Works(i, n, e, c),
           ~MadePod(c.bound_pod), AsGood(c, x), e.time \in Int,
           i.history_start # None => i.history_start \in Int
    PROVE  Works(i, n, f, x) /\ x.account = c.account
<1>1. CASE x = c
  BY <1>1 DEF Works, Under, Valid
<1>2. CASE x # c
  <2>1. /\ x.kind = c.kind /\ x.account = c.account /\ x.sa_uid = c.sa_uid
        /\ x.bound_pod = c.bound_pod /\ x.audience = c.audience
        /\ c.expires_at \in Int /\ x.expires_at \in Int /\ c.expires_at <= x.expires_at
    BY <1>2 DEF AsGood
  <2>2. Valid(i, n, f, x)
    <3>1. f.time = e.time /\ c.expires_at # None
      BY <2>1, SemanticsAssumption DEF Under
    <3>2. Valid(i, n, e, c)
      BY DEF Works
    <3> QED
      BY <2>1, <3>1, <3>2 DEF Valid
  <2> QED
    BY <2>1, <2>2 DEF Works, Under, Supported
<1> QED
  BY <1>1, <1>2

(* As whom the attacker can act, it can in the state that covers it.       *)
LEMMA ActorCovered ==
    ASSUME NEW h, NEW i, NEW n, NEW e, NEW a, NEW g, NEW d, Follows(h, i, n, e, a, g, d),
           NEW x, Actor(i, n, e, a, x)
    PROVE  Acts(i, n, d.env, d.att, x)
<1>1. PICK c \in a.credentials : Works(i, n, e, c) /\ c.account = x
  BY DEF Actor
<1>2. CASE MadePod(c.bound_pod)
  <2>1. c.bound_pod # None
    BY <1>2 DEF Follows, Apart
  <2>2. PICK p \in e.pods : p.uid = c.bound_pod /\ p.account = x
    BY <1>1, <2>1 DEF Works
  <2>3. HasPod(e, x) \/ HasDeploy(e, x)
    BY <1>2, <2>2, MadeRuns DEF Follows
  <2>4. HasAccount(d.env, x)
    BY <1>1 DEF Works, HasAccount, Follows, Under
  <2> QED
    BY <2>3, <2>4 DEF Follows, Covered, Acts
<1>3. CASE ~MadePod(c.bound_pod)
  <2>1. PICK y \in d.att.credentials : AsGood(c, y)
    BY <1>3 DEF Follows, Covered
  <2>2. Works(i, n, d.env, y) /\ y.account = x
    BY <1>1, <1>3, <2>1, WorksUnder DEF Follows
  <2> QED
    BY <2>1, <2>2 DEF Acts, Actor
<1> QED
  BY <1>2, <1>3

(* Every rule takes the attacker to what the other has already.            *)
LEMMA OwnedCovered ==
    ASSUME NEW h, NEW i, NEW n, NEW e, NEW a, NEW g, NEW d, Follows(h, i, n, e, a, g, d),
           NEW p \in e.pods, p.controller \in a.controllers
    PROVE  MadePod(p.uid) \/ p.uid \in d.att.pods
<1> SUFFICES ASSUME ~MadePod(p.uid) PROVE p.uid \in d.att.pods
  OBVIOUS
<1>1. ~MadeController(p.controller)
  <2>1. PodFrom(h, p)
    BY DEF Follows, Lodged
  <2>2. ~BareUid(p.account, p.uid)
    BY UidTells
  <2>3. ASSUME NEW c, ReplicaOf(c, p) PROVE ~MadeController(p.controller)
    BY <2>3, ReplicaMade DEF ReplicaOf
  <2> QED
    BY <2>1, <2>2, <2>3 DEF PodFrom, Follows, Apart
<1>2. p \in d.env.pods /\ p.controller \in d.att.controllers
  BY <1>1 DEF Follows, Under, Covered
<1> QED
  BY <1>2 DEF Follows, Saturated

LEMMA ExecCovered ==
    ASSUME NEW h, NEW i, NEW n, NEW e, NEW a, NEW g, NEW d, Follows(h, i, n, e, a, g, d),
           NEW p \in e.pods, NEW x, Actor(i, n, e, a, x), MayExec(e, x, p)
    PROVE  MadePod(p.uid) \/ p.uid \in d.att.pods
<1>1. Acts(i, n, d.env, d.att, x)
  BY ActorCovered
<1>2. MayExec(d.env, x, p)
  BY AuthorizedUnder DEF Follows
<1>3. MadePod(p.uid) \/ p \in d.env.pods
  BY DEF Follows, Under
<1> QED
  BY <1>1, <1>2, <1>3 DEF Follows, Saturated

(* What TokensFrom collects.                                               *)
LEMMA TokenOfPod ==
    ASSUME NEW e, NEW S, NEW t
    PROVE  t \in TokensFrom(e, S) <=>
              \E p \in e.pods : /\ p.uid \in S /\ HasAccount(e, p.account)
                                /\ \E aud \in AudiencesOf(p) : t = ProjectedToken(e, p, aud)
BY DEF TokensFrom, HasAccount

LEMMA TokenCovered ==
    ASSUME NEW h, NEW i, NEW n, NEW e, NEW a, NEW g, NEW d, Follows(h, i, n, e, a, g, d),
           NEW t \in TokensFrom(e, a.pods)
    PROVE  MadePod(t.bound_pod) \/ \E c \in d.att.credentials : AsGood(t, c)
<1>1. PICK p \in e.pods : /\ p.uid \in a.pods /\ HasAccount(e, p.account)
                          /\ \E aud \in AudiencesOf(p) : t = ProjectedToken(e, p, aud)
  BY TokenOfPod
<1>2. PICK aud \in AudiencesOf(p) : t = ProjectedToken(e, p, aud)
  BY <1>1
<1>3. t.bound_pod = p.uid
  BY <1>2 DEF ProjectedToken
<1> SUFFICES ASSUME ~MadePod(p.uid) PROVE \E c \in d.att.credentials : AsGood(t, c)
  BY <1>3
<1>4. p \in d.env.pods /\ p.uid \in d.att.pods /\ HasAccount(d.env, p.account)
  BY <1>1, AuthorizedUnder DEF Follows, Under, Covered
<1>5. t = ProjectedToken(d.env, p, aud)
  BY <1>2 DEF ProjectedToken, Follows, Under
<1>6. t \in TokensFrom(d.env, d.att.pods)
  BY <1>4, <1>5, TokenOfPod
<1> QED
  BY <1>3, <1>6 DEF Follows, Saturated

LEMMA CreateCovered ==
    ASSUME NEW h, NEW i, NEW n, NEW e, NEW a, NEW g, NEW d, Follows(h, i, n, e, a, g, d),
           NEW x, Actor(i, n, e, a, x), NEW y, HasAccount(e, y)
    PROVE  /\ MayCreate(e, x, "pods", y) => HasPod(d.env, y)
           /\ MayCreate(e, x, "deployments", y) => HasDeploy(d.env, y)
<1>1. Acts(i, n, d.env, d.att, x)
  BY ActorCovered
<1>2. /\ HasAccount(d.env, y)
      /\ \A kind : MayCreate(e, x, kind, y) => MayCreate(d.env, x, kind, y)
  BY AuthorizedUnder DEF Follows
<1> QED
  BY <1>1, <1>2 DEF Follows, Saturated

LEMMA ReadCovered ==
    ASSUME NEW h, NEW i, NEW n, NEW e, NEW a, NEW g, NEW d, Follows(h, i, n, e, a, g, d),
           NEW x, Actor(i, n, e, a, x), NEW s \in e.secrets, CanReadSecret(e, x, s.secret)
    PROVE  <<s.secret, s.version>> \in d.att.secrets /\ s.secret \in d.eph.reads
<1>1. Acts(i, n, d.env, d.att, x)
  BY ActorCovered
<1>2. CanReadSecret(d.env, x, s.secret) /\ s \in d.env.secrets
  BY AuthorizedUnder DEF Follows, Under
<1> QED
  BY <1>1, <1>2 DEF Follows, Saturated

LEMMA ServicesCovered ==
    ASSUME NEW h, NEW i, NEW n, NEW e, NEW a, NEW g, NEW d, Follows(h, i, n, e, a, g, d),
           NEW s \in e.services
    PROVE  /\ \A k \in a.secrets : k[1] = s.source => <<s.name, k[2]>> \in d.att.downstream
           /\ \A k \in a.downstream :
                 k[1] = s.name /\ Accepts(s, k[2], e.time) => s.name \in d.eph.uses
<1>1. s \in d.env.services /\ e.time = d.env.time
  BY DEF Follows, Under
<1>2. a.secrets \subseteq d.att.secrets /\ a.downstream \subseteq d.att.downstream
  BY DEF Follows, Covered
<1>3. \A k \in d.att.secrets : k[1] = s.source => <<s.name, k[2]>> \in d.att.downstream
  BY <1>1 DEF Follows, Saturated
<1>4. \A k \in d.att.downstream :
         k[1] = s.name /\ Accepts(s, k[2], d.env.time) => s.name \in d.eph.uses
  BY <1>1 DEF Follows, Saturated
<1> QED
  BY <1>1, <1>2, <1>3, <1>4

-----------------------------------------------------------------------------
(* From one interval to the next.                                          *)

(* The environment of interval n, attacker workloads aside.  In the        *)
(* possible past, a controller that lacks a pod gets one when the attacker *)
(* creates its first controller.                                           *)
PastOf(h, e) ==
    IF \E x : HasDeploy(e, x) THEN Same(e, Reconcile(h)) /\ Orphaned(e) = {} ELSE Same(e, h)
Frame(i, h, n, e) ==
    /\ Formed(e)
    /\ IF n = HistoryInterval THEN PastOf(h, e) ELSE FollowsReplay(i, e, n) /\ Orphaned(e) = {}

(* What the attacker a has b has too.                                      *)
Persists(a, b) ==
    /\ a.pods \subseteq b.pods /\ a.controllers \subseteq b.controllers
    /\ a.secrets \subseteq b.secrets /\ a.downstream \subseteq b.downstream
    /\ \A c \in a.credentials : \E x \in b.credentials : AsGood(c, x)

(* A defender action leaves the attacker's workloads of an account alone.  *)
SparesPods(action, x) == ~(action.kind = "delete_pods_except" /\ action.account = x)
SparesDeploys(action, x) == ~(action.kind = "delete_controllers_except" /\ action.account = x)

(* What the state d of interval n leaves to the attacker a in e, one       *)
(* interval later.  The possible past leaves no workloads.                 *)
Carries(i, n, d, e, a) ==
    /\ Persists(d.att, a)
    /\ n # HistoryInterval =>
          /\ \A x : HasPod(d.env, x) /\ SparesPods(i.remediation[n + 1], x) => HasPod(e, x)
          /\ \A x : HasDeploy(d.env, x) /\ SparesDeploys(i.remediation[n + 1], x) => HasDeploy(e, x)

(* The states D of an attacker that starts with the facts of F, and that   *)
(* is done in every interval up to n.                                      *)
Chain(i, h, F, from, D, n) ==
    /\ \A k \in from..n : Frame(i, h, k, D[k].env) /\ Saturated(i, k, D[k].env, D[k].att, D[k].eph)
    /\ from <= n => Persists(F, D[from].att)
    /\ \A k \in from..(n - 1) : Carries(i, k, D[k], D[k + 1].env, D[k + 1].att)

LEMMA AsGoodTransitive ==
    ASSUME NEW b, NEW c, NEW d, AsGood(b, c), AsGood(c, d)
    PROVE  AsGood(b, d)
BY DEF AsGood

LEMMA PersistsTransitive ==
    ASSUME NEW a, NEW b, NEW c, Persists(a, b), Persists(b, c)
    PROVE  Persists(a, c)
<1>1. ASSUME NEW x \in a.credentials PROVE \E y \in c.credentials : AsGood(x, y)
  <2>1. PICK y \in b.credentials : AsGood(x, y)
    BY <1>1 DEF Persists
  <2>2. PICK z \in c.credentials : AsGood(y, z)
    BY <2>1 DEF Persists
  <2> QED
    BY <2>1, <2>2, AsGoodTransitive
<1> QED
  BY <1>1 DEF Persists

LEMMA SameUnder ==
    ASSUME NEW e, NEW f, Same(e, f)
    PROVE  Under(e, f)
BY DEF Same, Under

(* Two environments of one interval.                                       *)
LEMMA FrameUnder ==
    ASSUME NEW i, NEW h, Formed(h), NEW n, NEW e, NEW f, Frame(i, h, n, e), Frame(i, h, n, f),
           \A x : HasDeploy(e, x) => HasDeploy(f, x)
    PROVE  Under(e, f)
<1>1. CASE n # HistoryInterval
  <2>1. PICK g : Replay(i, g, n)
    BY <1>1 DEF Frame, FollowsReplay
  <2>2. Same(e, g[n]) /\ Same(f, g[n])
    BY <1>1, <2>1 DEF Frame, FollowsReplay
  <2>3. Same(e, f)
    BY <2>2, SameSymmetric, SameTransitive
  <2> QED
    BY <2>3, SameUnder
<1>2. CASE n = HistoryInterval
  <2>0. PastOf(h, e) /\ PastOf(h, f)
    BY <1>2 DEF Frame
  <2>1. CASE \E x : HasDeploy(e, x)
    <3>1. Same(e, Reconcile(h)) /\ Same(f, Reconcile(h))
      BY <2>0, <2>1 DEF PastOf
    <3>2. Same(e, f)
      BY <3>1, SameSymmetric, SameTransitive
    <3> QED
      BY <3>2, SameUnder
  <2>2. CASE ~\E x : HasDeploy(e, x)
    <3>1. Same(e, h)
      BY <2>0, <2>2 DEF PastOf
    <3>2. CASE \E x : HasDeploy(f, x)
      <4>1. Same(f, Reconcile(h))
        BY <2>0, <3>2 DEF PastOf
      <4>2. PICK r : r = Reconcile(h)
        OBVIOUS
      <4>3. /\ r.time = h.time /\ r.accounts = h.accounts /\ r.bindings = h.bindings
            /\ r.secrets = h.secrets /\ r.services = h.services /\ h.pods \subseteq r.pods
        BY <4>2, ReconcileFacts DEF Formed
      <4> QED
        BY <3>1, <4>1, <4>2, <4>3 DEF Same, Under
    <3>3. CASE ~\E x : HasDeploy(f, x)
      <4>1. Same(f, h)
        BY <2>0, <3>3 DEF PastOf
      <4>2. Same(e, f)
        BY <3>1, <4>1, SameSymmetric, SameTransitive
      <4> QED
        BY <4>2, SameUnder
    <3> QED
      BY <3>2, <3>3
  <2> QED
    BY <2>1, <2>2
<1> QED
  BY <1>1, <1>2

(* What the objects with made-up UIDs are.                                 *)
LEMMA BareFrom ==
    ASSUME NEW h, Apart(h), NEW e, Lodged(h, e), NEW p \in e.pods, NEW x, BareUid(x, p.uid)
    PROVE  p.account = x /\ p.controller = None /\ p.audiences = {}
<1>1. PodFrom(h, p) /\ p \notin h.pods
  BY UidTells DEF Lodged, Apart
<1>2. ASSUME NEW c PROVE ~ReplicaOf(c, p)
  BY UidTells DEF ReplicaOf
<1>3. BareUid(p.account, p.uid) /\ p.controller = None /\ p.audiences = {}
  BY <1>1, <1>2 DEF PodFrom
<1> QED
  BY <1>3, UidTells

LEMMA DeployFrom ==
    ASSUME NEW h, Apart(h), NEW e, Lodged(h, e), NEW c \in e.controllers, NEW x, DeployUid(x, c.uid)
    PROVE  c.account = x /\ c.audiences = {}
<1>1. CtrlFrom(h, c) /\ c \notin h.controllers
  BY UidTells DEF Lodged, Apart
<1>2. DeployUid(c.account, c.uid) /\ c.audiences = {}
  BY <1>1 DEF CtrlFrom
<1> QED
  BY <1>2, UidTells

(* A remediation names no attacker workload.                               *)
PlanApart(action) ==
    /\ action.kind = "delete_pod" => ~MadePod(action.uid)
    /\ action.kind = "delete_controller" => ~MadeController(action.uid) /\ action.uid # None
    /\ action.kind \in {"delete_pods_except", "delete_controllers_except"} =>
          \A u \in action.keep_uids : ~MadePod(u) /\ ~MadeController(u)

(* Reconciliation adds pods of controllers that are there.                 *)
LEMMA ReconcileLodged ==
    ASSUME NEW h, NEW e, Formed(e), Lodged(h, e), NEW r, r = Reconcile(e)
    PROVE  /\ Lodged(h, r)
           /\ \A x : HasPod(r, x) <=> HasPod(e, x)
           /\ \A x : HasDeploy(r, x) <=> HasDeploy(e, x)
<1>1. /\ r.accounts = e.accounts /\ r.controllers = e.controllers
      /\ r.pods = e.pods \cup {PodOf(c, NextReplica(e, c)) : c \in Orphaned(e)}
  BY ReconcileFacts DEF Formed
<1>2. ASSUME NEW p \in r.pods, p \notin e.pods
      PROVE  /\ \E c \in e.controllers : ReplicaOf(c, p)
             /\ \A x : ~BareUid(x, p.uid)
  <2>1. PICK c \in Orphaned(e) : p = PodOf(c, NextReplica(e, c))
    BY <1>1, <1>2
  <2>2. c \in e.controllers
    BY DEF Orphaned
  <2>3. /\ p.uid = ReplicaUid(c.uid, NextReplica(e, c)) /\ p.account = c.account
        /\ p.controller = c.uid /\ p.audiences = c.audiences
    BY <2>1 DEF PodOf
  <2> QED
    BY <2>2, <2>3, UidTells DEF ReplicaOf
<1>3. \A p \in r.pods : PodFrom(h, p)
  BY <1>1, <1>2 DEF Lodged, PodFrom
<1>4. \A p \in r.pods : MadeController(p.controller) => p.controller \in UidsOf(r.controllers)
  BY <1>1, <1>2 DEF Lodged, UidsOf, ReplicaOf
<1>5. \A x : HasPod(r, x) <=> HasPod(e, x)
  BY <1>1, <1>2 DEF HasPod
<1>6. \A x : HasDeploy(r, x) <=> HasDeploy(e, x)
  BY <1>1 DEF HasDeploy
<1> QED
  BY <1>1, <1>3, <1>4, <1>5, <1>6 DEF Lodged

(* Environments with the same workloads, accounts aside.                   *)
LEMMA WorkloadsLodged ==
    ASSUME NEW h, NEW e, Lodged(h, e), NEW r, r.pods = e.pods, r.controllers = e.controllers,
           r.accounts \subseteq e.accounts
    PROVE  Lodged(h, r) /\ \A x : (HasPod(r, x) <=> HasPod(e, x)) /\ (HasDeploy(r, x) <=> HasDeploy(e, x))
BY DEF Lodged, HasPod, HasDeploy

LEMMA DeletePodsLodged ==
    ASSUME NEW h, Apart(h), NEW e, DOMAIN e = EnvFields, Lodged(h, e), NEW U, NEW r, r = DeletePods(e, U)
    PROVE  /\ Lodged(h, r)
           /\ \A x : HasPod(r, x) <=> \E p \in e.pods : BareUid(x, p.uid) /\ p.uid \notin U
           /\ \A x : HasDeploy(r, x) <=> HasDeploy(e, x)
<1>1. /\ r.accounts = e.accounts /\ r.controllers = e.controllers
      /\ r.pods = {p \in e.pods : p.uid \notin U}
  BY DEF DeletePods, EnvFields
<1> QED
  BY <1>1 DEF Lodged, HasPod, HasDeploy

LEMMA DeleteControllersLodged ==
    ASSUME NEW h, Apart(h), NEW e, Formed(e), Lodged(h, e), NEW U, None \notin U,
           NEW r, r = DeleteControllers(e, U)
    PROVE  /\ Lodged(h, r)
           /\ \A x : HasPod(r, x) <=> HasPod(e, x)
           /\ \A x : HasDeploy(r, x) <=> \E c \in e.controllers : DeployUid(x, c.uid) /\ c.uid \notin U
<1>1. /\ r.accounts = e.accounts /\ r.controllers = {c \in e.controllers : c.uid \notin U}
      /\ r.pods = {p \in e.pods : p.controller \notin U}
  BY DEF DeleteControllers, EnvFields, Formed
<1>2. \A x : HasPod(r, x) <=> HasPod(e, x)
  BY <1>1, BareFrom DEF HasPod
<1>3. \A p \in r.pods : MadeController(p.controller) => p.controller \in UidsOf(r.controllers)
  BY <1>1 DEF Lodged, UidsOf
<1> QED
  BY <1>1, <1>2, <1>3 DEF Lodged, HasDeploy

(* A defender action deletes the attacker's workloads of an account as a   *)
(* whole or not at all.                                                    *)
LEMMA ApplyLodged ==
    ASSUME NEW h, Apart(h), NEW e, Formed(e), Lodged(h, e), NEW a, a.kind \in ActionKinds, PlanApart(a),
           NEW r, r = ApplyDefenderAction(e, a)
    PROVE  /\ Lodged(h, r)
           /\ \A x : HasPod(r, x) <=> HasPod(e, x) /\ SparesPods(a, x)
           /\ \A x : HasDeploy(r, x) <=> HasDeploy(e, x) /\ SparesDeploys(a, x)
<1>0. DOMAIN e = EnvFields
  BY DEF Formed
<1>1. CASE a.kind \in {"remove_binding", "delete_service_account", "rotate_downstream_credential", "wait"}
  <2>1. r.pods = e.pods /\ r.controllers = e.controllers /\ r.accounts \subseteq e.accounts
    <3>1. CASE a.kind = "remove_binding"
      <4>1. r = RemoveBinding(e, a)
        BY <3>1, ApplyCases
      <4> QED
        BY <1>0, <4>1 DEF RemoveBinding, EnvFields
    <3>2. CASE a.kind = "delete_service_account"
      <4>1. r = DeleteServiceAccount(e, a)
        BY <3>2, ApplyCases
      <4> QED
        BY <1>0, <4>1 DEF DeleteServiceAccount, EnvFields
    <3>3. CASE a.kind = "rotate_downstream_credential"
      <4>1. r = Rotate(e, a)
        BY <3>3, ApplyCases
      <4> QED
        BY <1>0, <4>1 DEF Rotate, EnvFields
    <3>4. CASE a.kind = "wait"
      <4>1. r = [e EXCEPT !.time = @ + a.seconds]
        BY <3>4, ApplyCases
      <4> QED
        BY <1>0, <4>1 DEF EnvFields
    <3> QED
      BY <1>1, <3>1, <3>2, <3>3, <3>4
  <2> QED
    BY <1>1, <2>1, WorkloadsLodged DEF SparesPods, SparesDeploys
<1>2. CASE a.kind = "delete_pod"
  <2>1. r = DeletePods(e, {a.uid}) /\ ~MadePod(a.uid)
    BY <1>2, ApplyCases DEF PlanApart
  <2>2. \A x : HasPod(e, x) <=> \E p \in e.pods : BareUid(x, p.uid) /\ p.uid \notin {a.uid}
    BY <2>1, UidTells DEF HasPod
  <2> QED
    BY <1>0, <1>2, <2>1, <2>2, DeletePodsLodged DEF SparesPods, SparesDeploys
<1>3. CASE a.kind = "delete_controller"
  <2>1. r = DeleteControllers(e, {a.uid}) /\ ~MadeController(a.uid) /\ a.uid # None
    BY <1>3, ApplyCases DEF PlanApart
  <2>2. \A x : HasDeploy(e, x) <=> \E c \in e.controllers : DeployUid(x, c.uid) /\ c.uid \notin {a.uid}
    BY <2>1, UidTells DEF HasDeploy
  <2>3. None \notin {a.uid}
    BY <2>1
  <2> QED
    BY <1>3, <2>1, <2>2, <2>3, DeleteControllersLodged DEF SparesPods, SparesDeploys
<1>4. CASE a.kind = "delete_pods_except"
  <2> DEFINE U == Selected(e.pods, a)
  <2>1. r = DeletePods(e, U) /\ \A u \in a.keep_uids : ~MadePod(u)
    BY <1>4, ApplyCases DEF PlanApart
  <2>2. ASSUME NEW x, NEW p \in e.pods, BareUid(x, p.uid)
        PROVE  p.uid \in U <=> a.account = x
    <3>1. p.account = x /\ \A q \in e.pods : q.uid = p.uid => q.account = x
      BY <2>2, BareFrom
    <3>2. p.uid \notin a.keep_uids
      BY <2>1, <2>2, UidTells
    <3> QED
      BY <3>1, <3>2 DEF Selected, UidsOf
  <2> HIDE DEF U
  <2>3. \A x : HasPod(e, x) /\ SparesPods(a, x) <=> \E p \in e.pods : BareUid(x, p.uid) /\ p.uid \notin U
    BY <1>4, <2>2 DEF HasPod, SparesPods
  <2> QED
    BY <1>0, <1>4, <2>1, <2>3, DeletePodsLodged DEF SparesDeploys
<1>5. CASE a.kind = "delete_controllers_except"
  <2> DEFINE U == Selected(e.controllers, a)
  <2>1. r = DeleteControllers(e, U) /\ \A u \in a.keep_uids : ~MadeController(u)
    BY <1>5, ApplyCases DEF PlanApart
  <2>2. ASSUME NEW x, NEW c \in e.controllers, DeployUid(x, c.uid)
        PROVE  c.uid \in U <=> a.account = x
    <3>1. c.account = x /\ \A q \in e.controllers : q.uid = c.uid => q.account = x
      BY <2>2, DeployFrom
    <3>2. c.uid \notin a.keep_uids
      BY <2>1, <2>2, UidTells
    <3> QED
      BY <3>1, <3>2 DEF Selected, UidsOf
  <2>3. None \notin U
    BY DEF Selected, UidsOf, Formed
  <2> HIDE DEF U
  <2>4. \A x : HasDeploy(e, x) /\ SparesDeploys(a, x) <=>
                  \E c \in e.controllers : DeployUid(x, c.uid) /\ c.uid \notin U
    BY <1>5, <2>2 DEF HasDeploy, SparesDeploys
  <2> QED
    BY <1>5, <2>1, <2>3, <2>4, DeleteControllersLodged DEF SparesPods
<1> QED
  BY <1>1, <1>2, <1>3, <1>4, <1>5 DEF ActionKinds

LEMMA RemediationLodged ==
    ASSUME NEW h, Apart(h), NEW e, Formed(e), Lodged(h, e), NEW a, a.kind \in ActionKinds, PlanApart(a),
           NEW r, r = Reconcile(ApplyDefenderAction(e, a))
    PROVE  /\ Lodged(h, r)
           /\ \A x : HasPod(r, x) <=> HasPod(e, x) /\ SparesPods(a, x)
           /\ \A x : HasDeploy(r, x) <=> HasDeploy(e, x) /\ SparesDeploys(a, x)
<1>1. PICK q : q = ApplyDefenderAction(e, a)
  OBVIOUS
<1>2. Formed(q)
  BY <1>1, ApplyNarrows, NarrowsForms DEF Formed
<1>3. /\ Lodged(h, q)
      /\ \A x : HasPod(q, x) <=> HasPod(e, x) /\ SparesPods(a, x)
      /\ \A x : HasDeploy(q, x) <=> HasDeploy(e, x) /\ SparesDeploys(a, x)
  BY <1>1, ApplyLodged
<1> QED
  BY <1>1, <1>2, <1>3, ReconcileLodged

-----------------------------------------------------------------------------
(* A run, interval by interval.                                            *)

(* A credential is one of the input's, or what the volume of a pod held.   *)
TokenShape(h, c) ==
    /\ c.expires_at = None \/ c.expires_at \in Int
    /\ \A p, aud : PodFrom(h, p) /\ c.id = <<"projected", p.uid, aud>> =>
          /\ c.kind = "sa_token" /\ c.account = p.account /\ c.bound_pod = p.uid
          /\ c.audience = aud /\ c.expires_at \in Int
          /\ \E s \in h.accounts : s.account = p.account /\ c.sa_uid = s.uid

(* The attacker controls the workloads that it made.                       *)
Owns(e, a) ==
    /\ \A p \in e.pods : (\E x : BareUid(x, p.uid)) => p.uid \in a.pods
    /\ \A c \in e.controllers : (\E x : DeployUid(x, c.uid)) => c.uid \in a.controllers

(* The environment e and the attacker a of interval n.                     *)
Site(i, h, n, e, a) ==
    /\ e.time \in Int
    /\ Lodged(h, e) /\ Frame(i, h, n, e) /\ Owns(e, a)
    /\ \A c \in a.credentials : TokenShape(h, c)

(* The environment of the possible past that an input has.                 *)
Ground(i, h) ==
    /\ i \in Inputs /\ Apart(h) /\ Formed(h)
    /\ h.time = i.inventory.time /\ h.accounts = i.inventory.accounts
    /\ i.inventory.pods \subseteq h.pods /\ i.inventory.controllers = h.controllers
    /\ \A k \in 1..Len(i.remediation) : PlanApart(i.remediation[k])

LEMMA AccountFixed ==
    ASSUME NEW h, Apart(h), NEW p, NEW q, PodFrom(h, p), PodFrom(h, q), p.uid = q.uid
    PROVE  p.account = q.account
<1>1. ASSUME NEW r, r \in h.pods PROVE ~EnginePod(r.uid)
  BY <1>1 DEF Apart
<1>2. ASSUME NEW r, BareUid(r.account, r.uid) PROVE EnginePod(r.uid)
  BY <1>2 DEF EnginePod
<1>3. ASSUME NEW r, NEW c, ReplicaOf(c, r) PROVE EnginePod(r.uid)
  BY <1>3 DEF EnginePod, ReplicaOf
<1>4. CASE p \in h.pods \/ q \in h.pods
  <2>1. p \in h.pods /\ q \in h.pods
    BY <1>1, <1>2, <1>3, <1>4 DEF PodFrom
  <2> QED
    BY <2>1 DEF Apart, UniqueUids
<1>5. CASE BareUid(p.account, p.uid) \/ BareUid(q.account, q.uid)
  <2>1. \A c : ~ReplicaOf(c, p) /\ ~ReplicaOf(c, q)
    BY <1>5, UidTells DEF ReplicaOf
  <2>2. p \notin h.pods /\ q \notin h.pods
    BY <1>1, <1>2, <1>5
  <2>3. BareUid(p.account, p.uid) /\ BareUid(q.account, q.uid)
    BY <2>1, <2>2 DEF PodFrom
  <2> QED
    BY <2>3, UidTells
<1>6. CASE (\E c : CtrlFrom(h, c) /\ ReplicaOf(c, p)) /\ (\E c : CtrlFrom(h, c) /\ ReplicaOf(c, q))
  <2>1. PICK c, d : CtrlFrom(h, c) /\ ReplicaOf(c, p) /\ CtrlFrom(h, d) /\ ReplicaOf(d, q)
    BY <1>6
  <2>2. c.uid = d.uid
    <3>1. PICK k : p.uid = ReplicaUid(c.uid, k)
      BY <2>1 DEF ReplicaOf
    <3>2. PICK j : q.uid = ReplicaUid(d.uid, j)
      BY <2>1 DEF ReplicaOf
    <3>3. ReplicaUid(c.uid, k) = ReplicaUid(d.uid, j)
      BY <3>1, <3>2
    <3> QED
      BY <3>3 DEF ReplicaUid
  <2>3. CASE MadeController(c.uid)
    <3>1. DeployUid(c.account, c.uid) /\ DeployUid(d.account, d.uid)
      BY <2>1, <2>2, <2>3, MadeControllerFrom
    <3>2. c.account = d.account
      BY <2>2, <3>1, UidTells
    <3> QED
      BY <2>1, <3>2 DEF ReplicaOf
  <2>4. CASE ~MadeController(c.uid)
    <3>1. c \in h.controllers /\ d \in h.controllers
      BY <2>1, <2>2, <2>4, UidTells DEF CtrlFrom
    <3>2. c = d
      BY <2>2, <3>1 DEF Apart, UniqueUids
    <3> QED
      BY <2>1, <3>2 DEF ReplicaOf
  <2> QED
    BY <2>3, <2>4
<1> QED
  BY <1>4, <1>5, <1>6 DEF PodFrom

(* What a token has in it.                                                 *)
LEMMA TokenFields ==
    ASSUME NEW e, NEW S, NEW t \in TokensFrom(e, S), e.time \in Int
    PROVE  \E p \in e.pods : \E aud \in AudiencesOf(p) : \E s \in e.accounts :
              /\ p.uid \in S /\ s.account = p.account
              /\ t.id = <<"projected", p.uid, aud>> /\ t.kind = "sa_token" /\ t.account = p.account
              /\ t.sa_uid = s.uid /\ t.bound_pod = p.uid /\ t.audience = aud
              /\ t.expires_at = e.time + TokenTTL /\ t.expires_at \in Int
<1>1. PICK p \in e.pods : /\ p.uid \in S /\ HasAccount(e, p.account)
                          /\ \E aud \in AudiencesOf(p) : t = ProjectedToken(e, p, aud)
  BY TokenOfPod
<1>2. PICK aud \in AudiencesOf(p) : t = ProjectedToken(e, p, aud)
  BY <1>1
<1>3. PICK s : s = CHOOSE y \in e.accounts : y.account = p.account
  OBVIOUS
<1>4. s \in e.accounts /\ s.account = p.account
  BY <1>1, <1>3 DEF HasAccount
<1>5. /\ t.id = <<"projected", p.uid, aud>> /\ t.kind = "sa_token" /\ t.account = p.account
      /\ t.sa_uid = s.uid /\ t.bound_pod = p.uid /\ t.audience = aud
      /\ t.expires_at = e.time + TokenTTL
  BY <1>2, <1>3 DEF ProjectedToken
<1>6. t.expires_at \in Int
  BY <1>5, SemanticsAssumption
<1> QED
  BY <1>1, <1>4, <1>5, <1>6

LEMMA TokensShaped ==
    ASSUME NEW h, Apart(h), NEW e, Lodged(h, e), e.time \in Int, NEW S, NEW t \in TokensFrom(e, S)
    PROVE  TokenShape(h, t)
<1>1. PICK p \in e.pods : \E aud \in AudiencesOf(p) : \E s \in e.accounts :
              /\ p.uid \in S /\ s.account = p.account
              /\ t.id = <<"projected", p.uid, aud>> /\ t.kind = "sa_token" /\ t.account = p.account
              /\ t.sa_uid = s.uid /\ t.bound_pod = p.uid /\ t.audience = aud
              /\ t.expires_at = e.time + TokenTTL /\ t.expires_at \in Int
  BY TokenFields
<1>2. PICK aud : \E s \in e.accounts :
              /\ p.uid \in S /\ s.account = p.account
              /\ t.id = <<"projected", p.uid, aud>> /\ t.kind = "sa_token" /\ t.account = p.account
              /\ t.sa_uid = s.uid /\ t.bound_pod = p.uid /\ t.audience = aud
              /\ t.expires_at = e.time + TokenTTL /\ t.expires_at \in Int
  BY <1>1
<1>3. PodFrom(h, p) /\ e.accounts \subseteq h.accounts
  BY DEF Lodged
<1>4. ASSUME NEW q, NEW b, PodFrom(h, q), t.id = <<"projected", q.uid, b>>
      PROVE  q.uid = p.uid /\ q.account = p.account /\ b = aud
  <2>1. q.uid = p.uid /\ b = aud
    BY <1>2, <1>4
  <2> QED
    BY <1>3, <1>4, <2>1, AccountFixed
<1> QED
  BY <1>2, <1>3, <1>4 DEF TokenShape

(* Two tokens of one volume differ in when they expire.                    *)
LEMMA SameToken ==
    ASSUME NEW h, Apart(h), NEW e, Lodged(h, e), e.time \in Int, NEW S, NEW t \in TokensFrom(e, S),
           NEW c, TokenShape(h, c), c.id = t.id
    PROVE  /\ c.kind = t.kind /\ c.account = t.account /\ c.sa_uid = t.sa_uid
           /\ c.bound_pod = t.bound_pod /\ c.audience = t.audience
           /\ c.expires_at \in Int /\ t.expires_at \in Int
<1>1. PICK p \in e.pods : \E aud \in AudiencesOf(p) : \E s \in e.accounts :
              /\ p.uid \in S /\ s.account = p.account
              /\ t.id = <<"projected", p.uid, aud>> /\ t.kind = "sa_token" /\ t.account = p.account
              /\ t.sa_uid = s.uid /\ t.bound_pod = p.uid /\ t.audience = aud
              /\ t.expires_at = e.time + TokenTTL /\ t.expires_at \in Int
  BY TokenFields
<1>2. PICK aud, s : /\ s \in e.accounts /\ s.account = p.account
                    /\ t.id = <<"projected", p.uid, aud>> /\ t.kind = "sa_token" /\ t.account = p.account
                    /\ t.sa_uid = s.uid /\ t.bound_pod = p.uid /\ t.audience = aud
                    /\ t.expires_at \in Int
  BY <1>1
<1>3. PodFrom(h, p) /\ s \in h.accounts
  BY <1>2 DEF Lodged
<1>4. /\ c.kind = "sa_token" /\ c.account = p.account /\ c.bound_pod = p.uid
      /\ c.audience = aud /\ c.expires_at \in Int
      /\ \E y \in h.accounts : y.account = p.account /\ c.sa_uid = y.uid
  BY <1>2, <1>3 DEF TokenShape
<1>5. c.sa_uid = s.uid
  BY <1>2, <1>3, <1>4 DEF Apart
<1> QED
  BY <1>2, <1>4, <1>5

(* R-OBTAIN-PROJECTED-TOKEN replaces a token by one as good.               *)
LEMMA Refreshed ==
    ASSUME NEW h, Apart(h), NEW e, Lodged(h, e), e.time \in Int, NEW a,
           \A c \in a.credentials : TokenShape(h, c), NEW T, T \subseteq StaleIn(a, e), NEW b, Obtains(b, a, T)
    PROVE  /\ Persists(a, b)
           /\ \A c \in b.credentials : c \in a.credentials \/ c \in TokensFrom(e, a.pods)
           /\ \A c \in b.credentials : TokenShape(h, c)
<1>1. T \subseteq TokensFrom(e, a.pods)
  BY DEF StaleIn
<1>2. b.credentials = T \cup {c \in a.credentials : \A t \in T : t.id # c.id}
  BY DEF Obtains
<1>3. ASSUME NEW c \in a.credentials PROVE \E x \in b.credentials : AsGood(c, x)
  <2>1. CASE \A t \in T : t.id # c.id
    BY <1>2, <2>1 DEF AsGood
  <2>2. CASE \E t \in T : t.id = c.id
    <3>1. PICK t \in T : t.id = c.id
      BY <2>2
    <3>2. /\ c.kind = t.kind /\ c.account = t.account /\ c.sa_uid = t.sa_uid
          /\ c.bound_pod = t.bound_pod /\ c.audience = t.audience
          /\ c.expires_at \in Int /\ t.expires_at \in Int
      BY <1>1, <3>1, SameToken
    <3>3. ~(c.expires_at >= t.expires_at)
      BY <3>1, <3>2, SemanticsAssumption DEF StaleIn
    <3>4. AsGood(c, t)
      BY <3>1, <3>2, <3>3 DEF AsGood
    <3> QED
      BY <1>2, <3>1, <3>4
  <2> QED
    BY <2>1, <2>2
<1>4. \A c \in b.credentials : c \in a.credentials \/ c \in TokensFrom(e, a.pods)
  BY <1>1, <1>2
<1>5. \A c \in b.credentials : TokenShape(h, c)
  BY <1>4, TokensShaped
<1> QED
  BY <1>3, <1>4, <1>5 DEF Persists, Obtains

(* What the attacker makes is lodged like the rest.                        *)
LEMMA DeploysLodged ==
    ASSUME NEW h, NEW e, Lodged(h, e), NEW new, NEW r,
           \A c \in new : DeployUid(c.account, c.uid) /\ c.audiences = {},
           r.pods = e.pods, r.controllers = e.controllers \cup new, r.accounts = e.accounts
    PROVE  /\ Lodged(h, r)
           /\ \A x : HasPod(r, x) <=> HasPod(e, x)
           /\ \A x : HasDeploy(r, x) <=> HasDeploy(e, x) \/ \E c \in new : c.account = x
<1>1. \A x : HasDeploy(r, x) <=> HasDeploy(e, x) \/ \E c \in new : c.account = x
  BY UidTells DEF HasDeploy
<1>2. \A x : HasPod(r, x) <=> HasPod(e, x)
  BY DEF HasPod
<1>3. Lodged(h, r)
  BY DEF Lodged, CtrlFrom, UidsOf
<1> QED
  BY <1>1, <1>2, <1>3

(* The frame stays the same.                                               *)
LEMMA FramePods ==
    ASSUME NEW i, NEW h, NEW n, NEW e, Frame(i, h, n, e), NEW r, Formed(r), Same(r, e),
           Orphaned(e) = {} => Orphaned(r) = {}, \A x : HasDeploy(r, x) <=> HasDeploy(e, x)
    PROVE  Frame(i, h, n, r)
<1>1. CASE n # HistoryInterval
  <2>1. FollowsReplay(i, r, n)
    BY <1>1, ReplaySame DEF Frame
  <2> QED
    BY <1>1, <2>1 DEF Frame
<1>2. CASE n = HistoryInterval
  <2>1. PastOf(h, e)
    BY <1>2 DEF Frame
  <2>2. ASSUME NEW f, Same(e, f) PROVE Same(r, f)
    BY <2>2, SameTransitive
  <2>3. PastOf(h, r)
    BY <2>1, <2>2 DEF PastOf
  <2> QED
    BY <1>2, <2>3 DEF Frame
<1> QED
  BY <1>1, <1>2

LEMMA FrameControllers ==
    ASSUME NEW i, NEW h, Formed(h), NEW n, NEW e, Frame(i, h, n, e), NEW r, Formed(r), Same(r, e),
           NEW new, \A c \in new : MadeController(c.uid), r.controllers = e.controllers \cup new,
           r.pods = e.pods, \E x : HasDeploy(r, x), NEW q, q = Reconcile(r), \A x : HasDeploy(q, x) <=> HasDeploy(r, x)
    PROVE  Frame(i, h, n, q)
<1>1. Formed(q) /\ Orphaned(q) = {}
  BY ReconcileForms
<1>2. Orphaned(e) = {} => Same(q, e)
  <2> SUFFICES ASSUME Orphaned(e) = {} PROVE Same(q, e)
    OBVIOUS
  <2>1. \A c \in Orphaned(r) : MadeController(c.uid)
    BY DEF Orphaned
  <2>2. Same(q, r)
    BY <2>1, ReconcileQuiet
  <2> QED
    BY <2>2, SameTransitive
<1>3. CASE n # HistoryInterval
  <2>1. Orphaned(e) = {} /\ FollowsReplay(i, e, n)
    BY <1>3 DEF Frame
  <2>2. FollowsReplay(i, q, n)
    BY <1>2, <2>1, ReplaySame
  <2> QED
    BY <1>1, <1>3, <2>2 DEF Frame
<1>4. CASE n = HistoryInterval
  <2>1. PastOf(h, e)
    BY <1>4 DEF Frame
  <2>2. Same(q, Reconcile(h))
    <3>1. CASE \E x : HasDeploy(e, x)
      <4>1. Same(e, Reconcile(h)) /\ Orphaned(e) = {}
        BY <2>1, <3>1 DEF PastOf
      <4> QED
        BY <1>2, <4>1, SameTransitive
    <3>2. CASE ~\E x : HasDeploy(e, x)
      <4>1. Same(e, h)
        BY <2>1, <3>2 DEF PastOf
      <4>2. Same(r, h)
        BY <4>1, SameTransitive
      <4> QED
        BY <4>2, ReconcileSame
    <3> QED
      BY <3>1, <3>2
  <2>3. PastOf(h, q)
    BY <1>1, <2>2 DEF PastOf
  <2> QED
    BY <1>1, <1>4, <2>3 DEF Frame
<1> QED
  BY <1>3, <1>4

(* The steps of a run.                                                     *)
LEMMA SiteTakes ==
    ASSUME NEW i, NEW h, NEW n, NEW e, NEW a, Site(i, h, n, e, a), NEW b,
           a.pods \subseteq b.pods, a.controllers \subseteq b.controllers,
           \A c \in b.credentials : c \in a.credentials \/ TokenShape(h, c)
    PROVE  Site(i, h, n, e, b)
BY DEF Site, Owns

LEMMA SitePods ==
    ASSUME NEW i, NEW h, Ground(i, h), NEW n, NEW e, NEW a, Site(i, h, n, e, a), NEW new,
           \A p \in new : BareUid(p.account, p.uid) /\ p.controller = None /\ p.audiences = {},
           NEW r, r.pods = e.pods \cup new, r.controllers = e.controllers,
           Formed(r), Same(r, e),
           NEW b, b.pods = a.pods \cup UidsOf(new), b.controllers = a.controllers,
           b.credentials = a.credentials
    PROVE  /\ Site(i, h, n, r, b)
           /\ \A x : HasPod(r, x) <=> HasPod(e, x) \/ \E p \in new : p.account = x
           /\ \A x : HasDeploy(r, x) <=> HasDeploy(e, x)
<1>1. r.accounts = e.accounts /\ r.time = e.time
  BY DEF Same
<1>2. /\ Lodged(h, r)
      /\ \A x : HasPod(r, x) <=> HasPod(e, x) \/ \E p \in new : p.account = x
      /\ \A x : HasDeploy(r, x) <=> HasDeploy(e, x)
  <2>1. Lodged(h, e) /\ ~MadeController(None)
    BY DEF Site, Ground, Apart
  <2>2. \A x : HasPod(r, x) <=> HasPod(e, x) \/ \E p \in new : p.account = x
    BY UidTells DEF HasPod
  <2>3. \A x : HasDeploy(r, x) <=> HasDeploy(e, x)
    BY DEF HasDeploy
  <2>4. Lodged(h, r)
    BY <1>1, <2>1 DEF Lodged, PodFrom
  <2> QED
    BY <2>2, <2>3, <2>4
<1>3. Orphaned(e) = {} => Orphaned(r) = {}
  BY DEF Orphaned
<1>4. Frame(i, h, n, r)
  BY <1>2, <1>3, FramePods DEF Site
<1>5. Owns(r, b)
  BY DEF Owns, Site, UidsOf
<1> QED
  BY <1>1, <1>2, <1>4, <1>5 DEF Site

LEMMA SiteControllers ==
    ASSUME NEW i, NEW h, Ground(i, h), NEW n, NEW e, NEW a, Site(i, h, n, e, a), NEW new, new # {},
           \A c \in new : DeployUid(c.account, c.uid) /\ c.audiences = {},
           NEW r, r.pods = e.pods, r.controllers = e.controllers \cup new,
           Formed(r), Same(r, e), NEW q, q = Reconcile(r),
           NEW b, b.controllers = a.controllers \cup UidsOf(new), b.pods = a.pods,
           b.credentials = a.credentials
    PROVE  /\ Site(i, h, n, q, b) /\ Orphaned(q) = {}
           /\ \A x : HasPod(q, x) <=> HasPod(e, x)
           /\ \A x : HasDeploy(q, x) <=> HasDeploy(e, x) \/ \E c \in new : c.account = x
<1>1. r.accounts = e.accounts /\ r.time = e.time
  BY DEF Same
<1>2. /\ Lodged(h, r)
      /\ \A x : HasPod(r, x) <=> HasPod(e, x)
      /\ \A x : HasDeploy(r, x) <=> HasDeploy(e, x) \/ \E c \in new : c.account = x
  BY <1>1, DeploysLodged DEF Site
<1>3. /\ Lodged(h, q)
      /\ \A x : HasPod(q, x) <=> HasPod(r, x)
      /\ \A x : HasDeploy(q, x) <=> HasDeploy(r, x)
  BY <1>2, ReconcileLodged
<1>4. \A c \in new : MadeController(c.uid)
  BY UidTells
<1>5. \E x : HasDeploy(r, x)
  BY <1>2
<1>6. Frame(i, h, n, q)
  BY <1>3, <1>4, <1>5, FrameControllers DEF Site, Ground
<1>7. /\ q.controllers = r.controllers /\ q.time = r.time
      /\ q.pods = r.pods \cup {PodOf(c, NextReplica(r, c)) : c \in Orphaned(r)}
  BY ReconcileFacts DEF Formed
<1>8. \A p \in q.pods : (\E x : BareUid(x, p.uid)) => p \in r.pods
  BY <1>7, PodOfFacts, UidTells
<1>9. Owns(q, b)
  <2>1. \A c \in q.controllers : (\E x : DeployUid(x, c.uid)) => c.uid \in b.controllers
    BY <1>7 DEF Owns, Site, UidsOf
  <2>2. \A p \in q.pods : (\E x : BareUid(x, p.uid)) => p.uid \in b.pods
    BY <1>8 DEF Owns, Site
  <2> QED
    BY <2>1, <2>2 DEF Owns
<1>10. Orphaned(q) = {}
  BY ReconcileForms
<1> QED
  BY <1>1, <1>2, <1>3, <1>6, <1>7, <1>9, <1>10 DEF Site

(* Nothing in a remediation names an attacker workload, and no credential  *)
(* of the input has the identifier of a projected token.                   *)
PlansApart ==
    \A i \in Inputs : \A k \in 1..Len(i.remediation) : PlanApart(i.remediation[k])
IdsApart ==
    \A i \in Inputs : \A f \in i.initial_facts :
        f.kind = "possesses_credential" => \A uid, aud : f.arg.id # <<"projected", uid, aud>>

LEMMA GroundHolds ==
    ASSUME UidsApart, PodsApart, PlansApart, input \in Inputs, NEW v
    PROVE  Ground(input, HistoryEnv(v))
<1>1. PICK i, e, old : i = input.inventory /\ e = HistoryEnv(v) /\ old = HistoricalPods(v)
  OBVIOUS
<1>2. Formed(i) /\ DOMAIN i = EnvFields
  BY <1>1, InventoryFormed DEF Formed
<1>3. PICK added : added = {CHOOSE p \in old : p.uid = uid : uid \in UidsOf(old) \ UidsOf(i.pods)}
  OBVIOUS
<1>4. added \subseteq old
  BY <1>3 DEF UidsOf
<1>5. /\ e.time = i.time /\ e.accounts = i.accounts /\ e.controllers = i.controllers
      /\ e.pods = i.pods \cup added
  BY <1>1, <1>2, <1>3 DEF HistoryEnv, Inventory, EnvFields
<1>6. Formed(e) /\ \A p \in e.pods : ~EnginePod(p.uid)
  BY <1>1, HistoryFacts
<1>7. UniqueUids(e.pods) /\ UniqueUids(e.controllers)
  BY <1>1, HistoryKeyed DEF Keyed
<1>8. \A p \in old : p.controller = None
  BY <1>1 DEF HistoricalPods
<1>9. \A p \in e.pods : ~MadeController(p.controller)
  BY <1>1, <1>4, <1>5, <1>8 DEF UidsApart
<1>10. \A c \in e.controllers : ~MadeController(c.uid)
  BY <1>1, <1>5 DEF UidsApart
<1>11. /\ \A s, t \in e.accounts : s.account = t.account => s = t
       /\ \A s \in e.accounts : s.account # None
  <2>1. PICK j \in Inputs : j = input
    OBVIOUS
  <2>2. i = j.inventory
    BY <1>1, <2>1
  <2>3. /\ \A s, t \in j.inventory.accounts : s.account = t.account => s = t
        /\ \A s \in j.inventory.accounts : s.account # None
    BY KeysAssumption
  <2> QED
    BY <1>5, <2>2, <2>3
<1>12. Apart(e)
  BY <1>6, <1>7, <1>9, <1>10, <1>11 DEF Apart, UidsApart
<1> QED
  BY <1>1, <1>5, <1>6, <1>12 DEF Ground, PlansApart

(* The objects of the input are lodged, and none of them is the attacker's.*)
LEMMA GroundLodged ==
    ASSUME NEW i, NEW h, Ground(i, h), NEW e, e.pods \subseteq h.pods, e.controllers = h.controllers,
           e.accounts = h.accounts
    PROVE  Lodged(h, e) /\ \A x : ~HasPod(e, x) /\ ~HasDeploy(e, x)
<1>1. \A p \in e.pods : ~MadePod(p.uid) /\ ~MadeController(p.controller)
  BY MadeIsEngine DEF Ground, Apart
<1>2. \A c \in e.controllers : ~MadeController(c.uid)
  BY DEF Ground, Apart
<1>3. \A x : ~HasPod(e, x) /\ ~HasDeploy(e, x)
  BY <1>1, <1>2, UidTells DEF HasPod, HasDeploy
<1> QED
  BY <1>1, <1>3 DEF Lodged, PodFrom, CtrlFrom

LEMMA NothingOwned ==
    ASSUME NEW e, NEW a, \A x : ~HasPod(e, x) /\ ~HasDeploy(e, x)
    PROVE  Owns(e, a)
BY DEF Owns, HasPod, HasDeploy

LEMMA SiteInPast ==
    ASSUME NEW i, NEW h, Ground(i, h), NEW a, \A c \in a.credentials : TokenShape(h, c)
    PROVE  /\ Site(i, h, HistoryInterval, h, a)
           /\ \A x : ~HasPod(h, x) /\ ~HasDeploy(h, x)
<1>1. Lodged(h, h) /\ \A x : ~HasPod(h, x) /\ ~HasDeploy(h, x)
  BY GroundLodged
<1>2. Same(h, h)
  BY DEF Same, SameCounter
<1>3. Frame(i, h, HistoryInterval, h)
  BY <1>1, <1>2 DEF Frame, PastOf, Ground
<1>4. h.time \in Int
  BY CaseAssumption DEF Ground
<1> QED
  BY <1>1, <1>3, <1>4, NothingOwned DEF Site

LEMMA SiteInMain ==
    ASSUME UidsApart, NEW i, NEW h, Ground(i, h), NEW a, \A c \in a.credentials : TokenShape(h, c),
           NEW r, r = Reconcile(i.inventory)
    PROVE  /\ Site(i, h, 0, r, a)
           /\ \A x : ~HasPod(r, x) /\ ~HasDeploy(r, x)
<1>0. i \in Inputs /\ DOMAIN i.inventory = EnvFields /\ i.inventory.time \in Int
  BY CaseAssumption DEF Ground
<1>1. Lodged(h, i.inventory) /\ \A x : ~HasPod(i.inventory, x) /\ ~HasDeploy(i.inventory, x)
  BY GroundLodged DEF Ground
<1>2. Formed(i.inventory)
  BY <1>0, InventoryFormed
<1>3. /\ Lodged(h, r)
      /\ \A x : ~HasPod(r, x) /\ ~HasDeploy(r, x)
  BY <1>1, <1>2, ReconcileLodged
<1>4. Formed(r) /\ Orphaned(r) = {} /\ FollowsReplay(i, r, 0)
  BY <1>0, ReplayStarts
<1>5. Frame(i, h, 0, r)
  BY <1>4 DEF Frame, HistoryInterval
<1>6. r.time \in Int
  BY <1>0, ReconcileFacts
<1> QED
  BY <1>3, <1>5, <1>6, NothingOwned DEF Site

(* Time goes on by what a wait takes.                                      *)
LEMMA ApplyTime ==
    ASSUME NEW e, DOMAIN e = EnvFields, e.time \in Int, NEW a, a.kind \in ActionKinds,
           a.kind = "wait" => a.seconds \in Nat, NEW r, r = ApplyDefenderAction(e, a)
    PROVE  r.time \in Int
<1>1. CASE a.kind = "remove_binding"
  <2>1. r = RemoveBinding(e, a)
    BY <1>1, ApplyCases
  <2> QED
    BY <2>1 DEF RemoveBinding, EnvFields
<1>2. CASE a.kind \in {"delete_pod", "delete_pods_except"}
  <2>1. r = DeletePods(e, {a.uid}) \/ r = DeletePods(e, Selected(e.pods, a))
    BY <1>2, ApplyCases
  <2>2. ASSUME NEW U, r = DeletePods(e, U) PROVE r.time = e.time
    BY <2>2 DEF DeletePods, EnvFields
  <2> QED
    BY <2>1, <2>2
<1>3. CASE a.kind \in {"delete_controller", "delete_controllers_except"}
  <2>1. r = DeleteControllers(e, {a.uid}) \/ r = DeleteControllers(e, Selected(e.controllers, a))
    BY <1>3, ApplyCases
  <2>2. ASSUME NEW U, r = DeleteControllers(e, U) PROVE r.time = e.time
    BY <2>2 DEF DeleteControllers, EnvFields
  <2> QED
    BY <2>1, <2>2
<1>4. CASE a.kind = "delete_service_account"
  <2>1. r = DeleteServiceAccount(e, a)
    BY <1>4, ApplyCases
  <2> QED
    BY <2>1 DEF DeleteServiceAccount, EnvFields
<1>5. CASE a.kind = "rotate_downstream_credential"
  <2>1. r = Rotate(e, a)
    BY <1>5, ApplyCases
  <2> QED
    BY <2>1 DEF Rotate, EnvFields
<1>6. CASE a.kind = "wait"
  <2>1. r = [e EXCEPT !.time = @ + a.seconds]
    BY <1>6, ApplyCases
  <2>2. r.time = e.time + a.seconds
    BY <2>1 DEF EnvFields
  <2> QED
    BY <1>6, <2>2
<1> QED
  BY <1>1, <1>2, <1>3, <1>4, <1>5, <1>6 DEF ActionKinds

LEMMA ReconcileParts ==
    ASSUME NEW e, DOMAIN e = EnvFields, NEW r, r = Reconcile(e)
    PROVE  /\ r.time = e.time /\ r.controllers = e.controllers
           /\ r.pods = e.pods \cup {PodOf(c, NextReplica(e, c)) : c \in Orphaned(e)}
BY ReconcileFacts

LEMMA SiteRemediated ==
    ASSUME NEW i, NEW h, Ground(i, h), NEW n \in Nat, n < Len(i.remediation), NEW e, NEW a,
           Site(i, h, n, e, a), NEW act, act = i.remediation[n + 1],
           NEW r, r = Reconcile(ApplyDefenderAction(e, act))
    PROVE  /\ Site(i, h, n + 1, r, a)
           /\ \A x : HasPod(r, x) <=> HasPod(e, x) /\ SparesPods(act, x)
           /\ \A x : HasDeploy(r, x) <=> HasDeploy(e, x) /\ SparesDeploys(act, x)
<1>1. i \in Inputs /\ Len(i.remediation) \in Nat /\ n + 1 \in 1..Len(i.remediation)
  BY CaseAssumption DEF Ground
<1>2. act.kind \in ActionKinds /\ (act.kind = "wait" => act.seconds \in Nat) /\ PlanApart(act)
  BY <1>1, CaseAssumption DEF Ground
<1>3. /\ Formed(e) /\ DOMAIN e = EnvFields /\ FollowsReplay(i, e, n) /\ Lodged(h, e)
      /\ e.time \in Int /\ Apart(h)
  BY DEF Site, Frame, Ground, HistoryInterval, Formed
<1>4. /\ Lodged(h, r)
      /\ \A x : HasPod(r, x) <=> HasPod(e, x) /\ SparesPods(act, x)
      /\ \A x : HasDeploy(r, x) <=> HasDeploy(e, x) /\ SparesDeploys(act, x)
  BY <1>2, <1>3, RemediationLodged
<1>5. Formed(r) /\ Orphaned(r) = {} /\ FollowsReplay(i, r, n + 1)
  BY <1>1, <1>3, ReplayGoesOn
<1>6. Frame(i, h, n + 1, r)
  BY <1>5 DEF Frame, HistoryInterval
<1>7. PICK q : q = ApplyDefenderAction(e, act)
  OBVIOUS
<1>8. q.time \in Int
  BY <1>2, <1>3, <1>7, ApplyTime
<1>9. Narrows(q, e)
  BY <1>2, <1>3, <1>7, ApplyNarrows
<1>a. r = Reconcile(q) /\ DOMAIN q = EnvFields
  BY <1>7, <1>9 DEF Narrows
<1>10. /\ r.time = q.time /\ r.controllers = q.controllers
       /\ r.pods = q.pods \cup {PodOf(c, NextReplica(q, c)) : c \in Orphaned(q)}
  BY <1>a, ReconcileParts
<1>11. Owns(r, a)
  <2>1. \A p \in r.pods : (\E x : BareUid(x, p.uid)) => p \in e.pods
    BY <1>9, <1>10, PodOfFacts, UidTells DEF Narrows
  <2>2. r.controllers \subseteq e.controllers
    BY <1>9, <1>10 DEF Narrows
  <2> QED
    BY <2>1, <2>2 DEF Site, Owns
<1> QED
  BY <1>4, <1>6, <1>8, <1>10, <1>11 DEF Site

(* A run against every chain: what the attacker a in e of interval n has   *)
(* and has reached, the chain's attacker has.                              *)
Last(i) == Len(i.remediation)
Left(i, h, F, from, n, e, a, g) ==
    \A D : Chain(i, h, F, from, D, Last(i)) => Covered(e, a, g, D[n])

LEMMA ChainFollows ==
    ASSUME NEW i, NEW h, Ground(i, h), NEW F, NEW from \in Int, NEW n \in from..Last(i), NEW e, NEW a, NEW g,
           Site(i, h, n, e, a), NEW D, Chain(i, h, F, from, D, Last(i)), Covered(e, a, g, D[n])
    PROVE  Follows(h, i, n, e, a, g, D[n])
<1>1. Frame(i, h, n, D[n].env) /\ Saturated(i, n, D[n].env, D[n].att, D[n].eph)
  BY DEF Chain
<1>2. \A x : HasDeploy(e, x) => HasDeploy(D[n].env, x)
  BY DEF Covered
<1>3. Under(e, D[n].env)
  BY <1>1, <1>2, FrameUnder DEF Ground, Site
<1>4. i.history_start # None => i.history_start \in Int
  BY KeysAssumption DEF Ground
<1> QED
  BY <1>1, <1>3, <1>4 DEF Follows, Ground, Site

LEMMA CoveredGrows ==
    ASSUME NEW e, NEW a, NEW g, NEW d, Covered(e, a, g, d), NEW f, NEW b, NEW q,
           \A u \in b.pods : u \in a.pods \/ MadePod(u) \/ u \in d.att.pods,
           \A u \in b.controllers : u \in a.controllers \/ MadeController(u),
           \A k \in b.secrets : k \in a.secrets \/ k \in d.att.secrets,
           \A k \in b.downstream : k \in a.downstream \/ k \in d.att.downstream,
           \A c \in b.credentials : \/ c \in a.credentials \/ MadePod(c.bound_pod)
                                    \/ \E x \in d.att.credentials : AsGood(c, x),
           \A x : HasPod(f, x) => HasPod(e, x) \/ HasPod(d.env, x),
           \A x : HasDeploy(f, x) => HasDeploy(e, x) \/ HasDeploy(d.env, x),
           \A k \in q.reads : k \in g.reads \/ k \in d.eph.reads,
           \A k \in q.uses : k \in g.uses \/ k \in d.eph.uses
    PROVE  Covered(f, b, q, d)
BY DEF Covered

(* It starts with no workloads.                                            *)
LEMMA LeftStarts ==
    ASSUME NEW i, NEW h, NEW F, NEW from \in Int, from <= Last(i), Last(i) \in Int, NEW e,
           \A x : ~HasPod(e, x) /\ ~HasDeploy(e, x)
    PROVE  Left(i, h, F, from, from, e, F, NoGoals)
<1> SUFFICES ASSUME NEW D, Chain(i, h, F, from, D, Last(i))
             PROVE  Covered(e, F, NoGoals, D[from])
  BY DEF Left
<1>1. Persists(F, D[from].att)
  BY DEF Chain
<1>2. NoGoals.reads = {} /\ NoGoals.uses = {}
  BY DEF NoGoals
<1> QED
  BY <1>1, <1>2 DEF Covered, Persists

(* What the chain's attacker keeps is what the other does.                 *)
LEMMA CoveredCarries ==
    ASSUME NEW i, NEW n, NEW e, NEW a, NEW g, NEW d, Covered(e, a, g, d), NEW c, Carries(i, n, d, c.env, c.att),
           NEW f,
           \A x : HasPod(f, x) => /\ n # HistoryInterval /\ HasPod(e, x)
                                  /\ SparesPods(i.remediation[n + 1], x),
           \A x : HasDeploy(f, x) => /\ n # HistoryInterval /\ HasDeploy(e, x)
                                     /\ SparesDeploys(i.remediation[n + 1], x)
    PROVE  Covered(f, a, NoGoals, c)
<1>1. Persists(d.att, c.att)
  BY DEF Carries
<1>2. \A x \in a.credentials : MadePod(x.bound_pod) \/ \E y \in c.att.credentials : AsGood(x, y)
  <2> SUFFICES ASSUME NEW x \in a.credentials, ~MadePod(x.bound_pod)
               PROVE  \E y \in c.att.credentials : AsGood(x, y)
    OBVIOUS
  <2>1. PICK y \in d.att.credentials : AsGood(x, y)
    BY DEF Covered
  <2>2. PICK z \in c.att.credentials : AsGood(y, z)
    BY <1>1 DEF Persists
  <2> QED
    BY <2>1, <2>2, AsGoodTransitive
<1>3. /\ \A u \in a.pods : MadePod(u) \/ u \in c.att.pods
      /\ \A u \in a.controllers : MadeController(u) \/ u \in c.att.controllers
      /\ a.secrets \subseteq c.att.secrets /\ a.downstream \subseteq c.att.downstream
  BY <1>1 DEF Covered, Persists
<1>4. \A x : (HasPod(f, x) => HasPod(c.env, x)) /\ (HasDeploy(f, x) => HasDeploy(c.env, x))
  BY DEF Covered, Carries
<1>5. NoGoals.reads = {} /\ NoGoals.uses = {}
  BY DEF NoGoals
<1> QED
  BY <1>2, <1>3, <1>4, <1>5 DEF Covered

LEMMA LeftGoesOn ==
    ASSUME NEW i, NEW h, NEW F, NEW from \in Int, NEW n \in Int, from <= n, n < Last(i), Last(i) \in Int,
           NEW e, NEW a, NEW g, Left(i, h, F, from, n, e, a, g), NEW f,
           \A x : HasPod(f, x) => /\ n # HistoryInterval /\ HasPod(e, x)
                                  /\ SparesPods(i.remediation[n + 1], x),
           \A x : HasDeploy(f, x) => /\ n # HistoryInterval /\ HasDeploy(e, x)
                                     /\ SparesDeploys(i.remediation[n + 1], x)
    PROVE  Left(i, h, F, from, n + 1, f, a, NoGoals)
<1> SUFFICES ASSUME NEW D, Chain(i, h, F, from, D, Last(i))
             PROVE  Covered(f, a, NoGoals, D[n + 1])
  BY DEF Left
<1>1. Covered(e, a, g, D[n])
  BY DEF Left
<1>2. n \in from..(Last(i) - 1)
  OBVIOUS
<1>3. Carries(i, n, D[n], D[n + 1].env, D[n + 1].att)
  BY <1>2 DEF Chain
<1> QED
  BY <1>1, <1>3, CoveredCarries

(* A run as a chain: what the attacker had at the end of every interval    *)
(* before n.                                                               *)
Right(i, h, F, from, n, e, a) ==
    \E D : /\ Chain(i, h, F, from, D, n - 1)
           /\ IF n = from THEN Persists(F, a) ELSE Carries(i, n - 1, D[n - 1], e, a)

LEMMA RightStarts ==
    ASSUME NEW i, NEW h, NEW F, NEW from \in Int, NEW e, NEW a, Persists(F, a)
    PROVE  Right(i, h, F, from, from, e, a)
<1>1. from..(from - 1) = {} /\ ~(from <= from - 1) /\ from..(from - 1 - 1) = {}
  OBVIOUS
<1>2. \A D : Chain(i, h, F, from, D, from - 1)
  BY <1>1 DEF Chain
<1> QED
  BY <1>2 DEF Right

LEMMA RightGrows ==
    ASSUME NEW i, NEW h, NEW F, NEW from, NEW n, NEW e, NEW a, Right(i, h, F, from, n, e, a),
           NEW f, NEW b, Persists(a, b), \A x : HasPod(e, x) => HasPod(f, x),
           \A x : HasDeploy(e, x) => HasDeploy(f, x)
    PROVE  Right(i, h, F, from, n, f, b)
<1>1. PICK D : /\ Chain(i, h, F, from, D, n - 1)
               /\ IF n = from THEN Persists(F, a) ELSE Carries(i, n - 1, D[n - 1], e, a)
  BY DEF Right
<1>2. CASE n = from
  <2>1. Persists(F, b)
    BY <1>1, <1>2, PersistsTransitive
  <2> QED
    BY <1>1, <1>2, <2>1 DEF Right
<1>3. CASE n # from
  <2>1. Persists(D[n - 1].att, b)
    BY <1>1, <1>3, PersistsTransitive DEF Carries
  <2>2. Carries(i, n - 1, D[n - 1], f, b)
    BY <1>1, <1>3, <2>1 DEF Carries
  <2> QED
    BY <1>1, <1>3, <2>2 DEF Right
<1> QED
  BY <1>2, <1>3

LEMMA RightCloses ==
    ASSUME NEW i, NEW h, NEW F, NEW from \in Int, NEW n \in Int, from <= n, NEW e, NEW a, NEW g,
           Right(i, h, F, from, n, e, a), Frame(i, h, n, e), Saturated(i, n, e, a, g)
    PROVE  \E D : /\ Chain(i, h, F, from, D, n)
                  /\ D[n].env = e /\ D[n].att = a /\ D[n].eph = g
<1>1. PICK D : /\ Chain(i, h, F, from, D, n - 1)
               /\ IF n = from THEN Persists(F, a) ELSE Carries(i, n - 1, D[n - 1], e, a)
  BY DEF Right
<1> DEFINE C == [k \in from..n |-> IF k = n THEN [env |-> e, att |-> a, eph |-> g] ELSE D[k]]
<1>2. C[n].env = e /\ C[n].att = a /\ C[n].eph = g
  BY DEF C
<1>3. \A k \in from..(n - 1) : C[k] = D[k]
  BY DEF C
<1> HIDE DEF C
<1>4. ASSUME NEW k \in from..n
      PROVE  Frame(i, h, k, C[k].env) /\ Saturated(i, k, C[k].env, C[k].att, C[k].eph)
  <2>1. CASE k = n
    BY <1>2, <2>1
  <2>2. CASE k # n
    <3>1. k \in from..(n - 1)
      BY <2>2
    <3> QED
      BY <1>1, <1>3, <3>1 DEF Chain
  <2> QED
    BY <2>1, <2>2
<1>5. Persists(F, C[from].att)
  <2>1. CASE n = from
    BY <1>1, <1>2, <2>1
  <2>2. CASE n # from
    <3>1. from <= n - 1 /\ from \in from..(n - 1)
      BY <2>2
    <3>2. C[from] = D[from]
      BY <1>3, <3>1
    <3> QED
      BY <1>1, <3>1, <3>2 DEF Chain
  <2> QED
    BY <2>1, <2>2
<1>6. ASSUME NEW k \in from..(n - 1)
      PROVE  Carries(i, k, C[k], C[k + 1].env, C[k + 1].att)
  <2>1. C[k] = D[k]
    BY <1>3
  <2>2. CASE k = n - 1
    <3>1. n # from /\ k + 1 = n
      BY <2>2
    <3>2. Carries(i, n - 1, D[n - 1], e, a)
      BY <1>1, <3>1
    <3> QED
      BY <1>2, <2>1, <2>2, <3>1, <3>2
  <2>3. CASE k # n - 1
    <3>1. k \in from..(n - 1 - 1) /\ k + 1 \in from..(n - 1)
      BY <2>3
    <3>2. C[k + 1] = D[k + 1]
      BY <1>3, <3>1
    <3> QED
      BY <1>1, <2>1, <3>1, <3>2 DEF Chain
  <2> QED
    BY <2>2, <2>3
<1>7. Chain(i, h, F, from, C, n)
  BY <1>4, <1>5, <1>6 DEF Chain
<1> QED
  BY <1>2, <1>7

LEMMA RightGoesOn ==
    ASSUME NEW i, NEW h, NEW F, NEW from \in Int, NEW n \in Int, from <= n, NEW e, NEW a, NEW g,
           Right(i, h, F, from, n, e, a), Frame(i, h, n, e), Saturated(i, n, e, a, g),
           NEW f, n # HistoryInterval =>
                     /\ \A x : HasPod(e, x) /\ SparesPods(i.remediation[n + 1], x) => HasPod(f, x)
                     /\ \A x : HasDeploy(e, x) /\ SparesDeploys(i.remediation[n + 1], x) => HasDeploy(f, x)
    PROVE  Right(i, h, F, from, n + 1, f, a)
<1>1. PICK D : /\ Chain(i, h, F, from, D, n)
               /\ D[n].env = e /\ D[n].att = a /\ D[n].eph = g
  BY RightCloses
<1>2. Persists(a, a)
  BY DEF Persists, AsGood
<1>3. Carries(i, n, D[n], f, a)
  BY <1>1, <1>2 DEF Carries
<1>4. n + 1 # from /\ (n + 1) - 1 = n
  OBVIOUS
<1> QED
  BY <1>1, <1>3, <1>4 DEF Right

(* A step of the attacker in interval n, from the attacker a in e who has  *)
(* reached g to b in f who has reached q: nothing that it had is lost, and *)
(* an attacker that is done and has all that was there has all that was    *)
(* gained.                                                                 *)
Step(i, h, n, e, a, g, f, b, q) ==
    /\ Site(i, h, n, f, b) /\ Persists(a, b)
    /\ \A x : HasPod(e, x) => HasPod(f, x)
    /\ \A x : HasDeploy(e, x) => HasDeploy(f, x)
    /\ \A d : Follows(h, i, n, e, a, g, d) => Covered(f, b, q, d)

LEMMA LeftSteps ==
    ASSUME NEW i, NEW h, Ground(i, h), NEW F, NEW from \in Int, NEW n \in from..Last(i), NEW e, NEW a, NEW g,
           Site(i, h, n, e, a), Left(i, h, F, from, n, e, a, g), NEW f, NEW b, NEW q,
           Step(i, h, n, e, a, g, f, b, q)
    PROVE  Left(i, h, F, from, n, f, b, q)
<1> SUFFICES ASSUME NEW D, Chain(i, h, F, from, D, Last(i))
             PROVE  Covered(f, b, q, D[n])
  BY DEF Left
<1>1. Covered(e, a, g, D[n])
  BY DEF Left
<1>2. Follows(h, i, n, e, a, g, D[n])
  BY <1>1, ChainFollows
<1> QED
  BY <1>2 DEF Step

LEMMA RightSteps ==
    ASSUME NEW i, NEW h, NEW F, NEW from, NEW n, NEW e, NEW a, NEW g, Right(i, h, F, from, n, e, a),
           NEW f, NEW b, NEW q, Step(i, h, n, e, a, g, f, b, q)
    PROVE  Right(i, h, F, from, n, f, b)
<1>1. /\ Persists(a, b) /\ \A x : HasPod(e, x) => HasPod(f, x)
      /\ \A x : HasDeploy(e, x) => HasDeploy(f, x)
  BY DEF Step
<1> QED
  BY <1>1, RightGrows

LEMMA SamePersists ==
    ASSUME NEW a, NEW b, a.pods \subseteq b.pods, a.controllers \subseteq b.controllers,
           a.secrets \subseteq b.secrets, a.downstream \subseteq b.downstream,
           a.credentials \subseteq b.credentials
    PROVE  Persists(a, b)
BY DEF Persists, AsGood

(* Pods come under control.                                                *)
LEMMA StepTakes ==
    ASSUME NEW i, NEW h, NEW n, NEW e, NEW a, NEW g, Site(i, h, n, e, a), NEW T, NEW b, Takes(b, a, T),
           \A u \in T : \E p \in e.pods :
              /\ p.uid = u
              /\ \/ p.controller \in a.controllers
                 \/ \E x : Actor(i, n, e, a, x) /\ MayExec(e, x, p)
    PROVE  Step(i, h, n, e, a, g, e, b, g)
<1>1. /\ b.pods = a.pods \cup T /\ b.credentials = a.credentials
      /\ b.controllers = a.controllers /\ b.secrets = a.secrets /\ b.downstream = a.downstream
  BY DEF Takes
<1>2. Site(i, h, n, e, b)
  BY <1>1, SiteTakes
<1>3. Persists(a, b)
  BY <1>1, SamePersists
<1>4. ASSUME NEW d, Follows(h, i, n, e, a, g, d) PROVE Covered(e, b, g, d)
  <2>1. ASSUME NEW u \in T PROVE MadePod(u) \/ u \in d.att.pods
    <3>1. PICK p \in e.pods :
              /\ p.uid = u
              /\ \/ p.controller \in a.controllers
                 \/ \E x : Actor(i, n, e, a, x) /\ MayExec(e, x, p)
      OBVIOUS
    <3>2. CASE p.controller \in a.controllers
      BY <1>4, <3>1, <3>2, OwnedCovered
    <3>3. CASE \E x : Actor(i, n, e, a, x) /\ MayExec(e, x, p)
      BY <1>4, <3>1, <3>3, ExecCovered
    <3> QED
      BY <3>1, <3>2, <3>3
  <2>2. Covered(e, a, g, d)
    BY <1>4 DEF Follows
  <2> QED
    BY <1>1, <2>1, <2>2, CoveredGrows
<1> QED
  BY <1>2, <1>3, <1>4 DEF Step

(* Tokens are obtained, or refreshed.                                      *)
LEMMA StepObtains ==
    ASSUME NEW i, NEW h, Ground(i, h), NEW n, NEW e, NEW a, NEW g, Site(i, h, n, e, a),
           NEW b, NEW T, T \subseteq TokensFrom(e, a.pods),
           b.pods = a.pods, b.controllers = a.controllers, b.secrets = a.secrets,
           b.downstream = a.downstream, b.credentials \subseteq a.credentials \cup T, Persists(a, b)
    PROVE  Step(i, h, n, e, a, g, e, b, g)
<1>1. \A t \in T : TokenShape(h, t)
  BY TokensShaped DEF Site, Ground
<1>2. Site(i, h, n, e, b)
  BY <1>1, SiteTakes
<1>3. ASSUME NEW d, Follows(h, i, n, e, a, g, d) PROVE Covered(e, b, g, d)
  <2>1. ASSUME NEW t \in T PROVE MadePod(t.bound_pod) \/ \E c \in d.att.credentials : AsGood(t, c)
    BY <1>3, TokenCovered
  <2>2. Covered(e, a, g, d)
    BY <1>3 DEF Follows
  <2> QED
    BY <2>1, <2>2, CoveredGrows
<1> QED
  BY <1>2, <1>3 DEF Step

(* Workloads are created.                                                  *)
LEMMA StepPods ==
    ASSUME NEW i, NEW h, Ground(i, h), NEW n, NEW e, NEW a, NEW g, Site(i, h, n, e, a), NEW new,
           \A p \in new : /\ BareUid(p.account, p.uid) /\ p.controller = None /\ p.audiences = {}
                          /\ HasAccount(e, p.account)
                          /\ \E x : Actor(i, n, e, a, x) /\ MayCreate(e, x, "pods", p.account),
           NEW f, f.pods = e.pods \cup new, f.controllers = e.controllers, Formed(f), Same(f, e),
           NEW b, Takes(b, a, UidsOf(new))
    PROVE  Step(i, h, n, e, a, g, f, b, g)
<1>1. /\ b.pods = a.pods \cup UidsOf(new) /\ b.credentials = a.credentials
      /\ b.controllers = a.controllers /\ b.secrets = a.secrets /\ b.downstream = a.downstream
  BY DEF Takes
<1>2. /\ Site(i, h, n, f, b)
      /\ \A x : HasPod(f, x) <=> HasPod(e, x) \/ \E p \in new : p.account = x
      /\ \A x : HasDeploy(f, x) <=> HasDeploy(e, x)
  BY <1>1, SitePods
<1>3. Persists(a, b)
  BY <1>1, SamePersists
<1>4. \A u \in UidsOf(new) : MadePod(u)
  BY UidTells DEF UidsOf
<1>5. ASSUME NEW d, Follows(h, i, n, e, a, g, d) PROVE Covered(f, b, g, d)
  <2>1. ASSUME NEW p \in new PROVE HasPod(d.env, p.account)
    BY <1>5, CreateCovered
  <2>2. Covered(e, a, g, d)
    BY <1>5 DEF Follows
  <2> QED
    BY <1>1, <1>2, <1>4, <2>1, <2>2, CoveredGrows
<1> QED
  BY <1>2, <1>3, <1>5 DEF Step

LEMMA StepControllers ==
    ASSUME NEW i, NEW h, Ground(i, h), NEW n, NEW e, NEW a, NEW g, Site(i, h, n, e, a), NEW new, new # {},
           \A c \in new : /\ DeployUid(c.account, c.uid) /\ c.audiences = {}
                          /\ HasAccount(e, c.account)
                          /\ \E x : Actor(i, n, e, a, x) /\ MayCreate(e, x, "deployments", c.account),
           NEW r, r.pods = e.pods, r.controllers = e.controllers \cup new, Formed(r), Same(r, e),
           NEW f, f = Reconcile(r),
           NEW b, b.controllers = a.controllers \cup UidsOf(new), b.pods = a.pods,
           b.credentials = a.credentials, b.secrets = a.secrets, b.downstream = a.downstream
    PROVE  Step(i, h, n, e, a, g, f, b, g)
<1>2. /\ Site(i, h, n, f, b)
      /\ \A x : HasPod(f, x) <=> HasPod(e, x)
      /\ \A x : HasDeploy(f, x) <=> HasDeploy(e, x) \/ \E c \in new : c.account = x
  BY SiteControllers
<1>3. Persists(a, b)
  BY SamePersists
<1>4. \A u \in UidsOf(new) : MadeController(u)
  BY UidTells DEF UidsOf
<1>5. ASSUME NEW d, Follows(h, i, n, e, a, g, d) PROVE Covered(f, b, g, d)
  <2>1. ASSUME NEW c \in new PROVE HasDeploy(d.env, c.account)
    BY <1>5, CreateCovered
  <2>2. Covered(e, a, g, d)
    BY <1>5 DEF Follows
  <2> QED
    BY <1>2, <1>4, <2>1, <2>2, CoveredGrows
<1> QED
  BY <1>2, <1>3, <1>5 DEF Step

(* Secrets are read, downstream credentials found and used.                *)
Finds(i, n, e, a, S, K, R, U) ==
    /\ \A k \in S : \E s \in e.secrets :
          /\ k = <<s.secret, s.version>>
          /\ \E x : Actor(i, n, e, a, x) /\ CanReadSecret(e, x, s.secret)
    /\ \A k \in R : \E s \in e.secrets :
          /\ k = s.secret
          /\ \E x : Actor(i, n, e, a, x) /\ CanReadSecret(e, x, s.secret)
    /\ \A k \in K : \E s \in e.services : \E y \in a.secrets :
          y[1] = s.source /\ k = <<s.name, y[2]>>
    /\ \A k \in U : \E s \in e.services : \E y \in a.downstream :
          k = s.name /\ y[1] = s.name /\ Accepts(s, y[2], e.time)

LEMMA StepLearns ==
    ASSUME NEW i, NEW h, NEW n, NEW e, NEW a, NEW g, Site(i, h, n, e, a),
           NEW S, NEW K, NEW R, NEW U, NEW b, NEW q, Learns(b, a, S, K), Reaches(q, g, R, U),
           Finds(i, n, e, a, S, K, R, U)
    PROVE  Step(i, h, n, e, a, g, e, b, q)
<1>1. /\ b.pods = a.pods /\ b.credentials = a.credentials /\ b.controllers = a.controllers
      /\ b.secrets = a.secrets \cup S /\ b.downstream = a.downstream \cup K
      /\ q.reads = g.reads \cup R /\ q.uses = g.uses \cup U
  BY DEF Learns, Reaches
<1>2. Site(i, h, n, e, b)
  BY <1>1, SiteTakes
<1>3. Persists(a, b)
  BY <1>1, SamePersists
<1>4. ASSUME NEW d, Follows(h, i, n, e, a, g, d) PROVE Covered(e, b, q, d)
  <2>1. \A k \in S : k \in d.att.secrets
    BY <1>4, ReadCovered DEF Finds
  <2>2. ASSUME NEW k \in R PROVE k \in d.eph.reads
    <3>1. PICK s \in e.secrets : /\ k = s.secret
                                 /\ \E x : Actor(i, n, e, a, x) /\ CanReadSecret(e, x, s.secret)
      BY DEF Finds
    <3>2. PICK x : Actor(i, n, e, a, x) /\ CanReadSecret(e, x, s.secret)
      BY <3>1
    <3> QED
      BY <1>4, <3>1, <3>2, ReadCovered
  <2>3. \A k \in K : k \in d.att.downstream
    BY <1>4, ServicesCovered DEF Finds
  <2>4. \A k \in U : k \in d.eph.uses
    BY <1>4, ServicesCovered DEF Finds
  <2>5. Covered(e, a, g, d)
    BY <1>4 DEF Follows
  <2> QED
    BY <1>1, <2>1, <2>2, <2>3, <2>4, <2>5, CoveredGrows
<1> QED
  BY <1>2, <1>3, <1>4 DEF Step

-----------------------------------------------------------------------------
(* The engine.                                                             *)

(* What the attacker has when a view begins, and the first interval.       *)
First(v) == IF HasHistory(v) THEN HistoryInterval ELSE 0
Seeds(v) ==
    [credentials |-> Believed("possesses_credential", v),
     pods        |-> Believed("controls_pod", v)
                     \cup (IF HasHistory(v) THEN UidsOf(HistoricalPods(v)) ELSE {}),
     controllers |-> Believed("controls_controller", v),
     secrets     |-> Believed("knows_secret", v),
     downstream  |-> {}]

(* The engine keeps to every chain of its view, and its own states are one.*)
RunInv ==
    phase # "begin" => \A v : v = View =>
        /\ phase = "history" => HasHistory(v)
        /\ Site(input, HistoryEnv(v), interval, env, att)
        /\ Left(input, HistoryEnv(v), Seeds(v), First(v), interval, env, att, eph)
        /\ Right(input, HistoryEnv(v), Seeds(v), First(v), interval, env, att)

(* What a view that was run to its end has reached is what every chain     *)
(* reaches.                                                                *)
Decided(i, h, F, from, o) ==
    ~o.bounds_exceeded =>
        /\ \A D : Chain(i, h, F, from, D, Last(i)) =>
              /\ o.goals.reads \subseteq D[Last(i)].eph.reads
              /\ o.goals.uses \subseteq D[Last(i)].eph.uses
        /\ \E D : Chain(i, h, F, from, D, Last(i)) /\ D[Last(i)].eph = o.goals
OutcomesInv ==
    \A v, k : k \in 1..2 /\ k < view /\ v = Views[k] =>
        Decided(input, HistoryEnv(v), Seeds(v), First(v), outcome[k])

(* These depend on the input alone.                                        *)
LEMMA InputFixed ==
    ASSUME input' = input, NEW v
    PROVE  HistoryEnv(v)' = HistoryEnv(v) /\ First(v)' = First(v) /\ Seeds(v)' = Seeds(v)
           /\ HasHistory(v)' = HasHistory(v)
BY DEF HistoryEnv, First, Seeds, HasHistory, HistoricalPods, Believed, Inventory

(* Where the engine is.                                                    *)
At(i, h, n, e, a, g) ==
    /\ phase \in {"history", "main"} /\ view \in 1..2
    /\ i = input /\ h = HistoryEnv(View) /\ n = interval /\ e = env /\ a = att /\ g = eph
    /\ Ground(i, h) /\ Site(i, h, n, e, a)
    /\ n \in Int /\ First(View) \in Int /\ First(View) <= n /\ n <= Last(i) /\ Last(i) \in Nat
    /\ First(View) <= 0
    /\ n = HistoryInterval <=> phase = "history"
    /\ Known(i, a, e, g, n)

LEMMA Here ==
    ASSUME UidsApart, PodsApart, PlansApart, ResultsInv, TokenInv, CountInv, RunInv,
           phase \in {"history", "main"},
           NEW i, NEW h, NEW n, NEW e, NEW a, NEW g,
           i = input, h = HistoryEnv(View), n = interval, e = env, a = att, g = eph
    PROVE  At(i, h, n, e, a, g)
<1>1. input \in Inputs /\ Len(input.remediation) \in Nat /\ view \in 1..2
  BY CaseAssumption DEF ResultsInv
<1>2. Ground(i, h)
  BY <1>1, GroundHolds
<1>3. Site(i, h, n, e, a) /\ (phase = "history" => HasHistory(View))
  BY DEF RunInv
<1>4. Known(i, a, e, g, n)
  BY DEF CountInv
<1>5. /\ First(View) \in Int /\ First(View) <= 0
      /\ phase = "history" => First(View) = HistoryInterval
  BY <1>3 DEF First, HistoryInterval
<1>6. /\ n \in Int /\ First(View) <= n /\ n <= Last(i) /\ Last(i) \in Nat
      /\ n = HistoryInterval <=> phase = "history"
  <2>1. CASE phase = "history"
    BY <1>1, <1>5, <2>1 DEF TokenInv, HistoryInterval, Last
  <2>2. CASE phase = "main"
    <3>1. n \in 0..Len(input.remediation)
      BY <2>2 DEF ResultsInv, MainEnv
    <3> QED
      BY <1>1, <1>5, <2>2, <3>1 DEF HistoryInterval, Last
  <2> QED
    BY <2>1, <2>2
<1> QED
  BY <1>1, <1>2, <1>3, <1>4, <1>5, <1>6 DEF At

(* _use_time finds a time at which the credential was valid, if there is   *)
(* one.                                                                    *)
LEMMA UseTimeValid ==
    ASSUME NEW i, NEW h, NEW n, NEW e, NEW a, NEW g, At(i, h, n, e, a, g),
           NEW c, c.expires_at = None \/ c.expires_at \in Int
    PROVE  c.expires_at = None \/ UseTime(c) < c.expires_at <=> Valid(i, n, e, c)
<1>1. /\ e.time \in Int /\ i = input /\ e = env
      /\ n = HistoryInterval <=> phase = "history"
  BY DEF At, Site
<1>2. /\ i.history_start # None => i.history_start \in Int
      /\ i.history_start # None /\ n = HistoryInterval => i.history_start <= e.time
  <2>1. i \in Inputs /\ h.time = i.inventory.time /\ Frame(i, h, n, e) /\ Formed(h)
    BY DEF At, Ground, Site
  <2>2. i.history_start # None => i.history_start \in Int /\ i.history_start <= i.inventory.time
    BY <2>1, KeysAssumption
  <2>3. n = HistoryInterval => e.time = h.time
    <3> SUFFICES ASSUME n = HistoryInterval PROVE e.time = h.time
      OBVIOUS
    <3>1. PastOf(h, e)
      BY <2>1 DEF Frame
    <3>2. Reconcile(h).time = h.time
      BY <2>1, ReconcileFacts DEF Formed
    <3> QED
      BY <3>1, <3>2 DEF PastOf, Same
  <2> QED
    BY <2>1, <2>2, <2>3
<1>3. CASE c.expires_at = None
  BY <1>3 DEF Valid
<1>4. CASE c.expires_at # None /\ phase # "history"
  <2>1. UseTime(c) = e.time
    BY <1>1, <1>4 DEF UseTime
  <2> QED
    BY <1>1, <1>4, <2>1 DEF Valid
<1>5. CASE c.expires_at # None /\ phase = "history"
  <2>1. c.expires_at \in Int
    BY <1>5
  <2>2. Valid(i, n, e, c) <=> i.history_start = None \/ i.history_start < c.expires_at
    BY <1>1, <1>5 DEF Valid
  <2>3. CASE c.expires_at > e.time
    <3>1. UseTime(c) = e.time
      BY <1>1, <2>3 DEF UseTime
    <3> QED
      BY <1>1, <1>2, <1>5, <2>1, <2>2, <2>3, <3>1
  <2>4. CASE ~(c.expires_at > e.time)
    <3>1. UseTime(c) = IF i.history_start # None /\ c.expires_at - 1 < i.history_start
                       THEN i.history_start ELSE c.expires_at - 1
      BY <1>1, <1>5, <2>4 DEF UseTime
    <3> QED
      BY <1>2, <1>5, <2>1, <2>2, <3>1
  <2> QED
    BY <2>3, <2>4
<1> QED
  BY <1>3, <1>4, <1>5

LEMMA IdentitiesAct ==
    ASSUME NEW i, NEW h, NEW n, NEW e, NEW a, NEW g, At(i, h, n, e, a, g), NEW x
    PROVE  x \in Identities <=> Actor(i, n, e, a, x)
<1>1. ASSUME NEW c \in a.credentials
      PROVE  Supported(c) /\ CredentialUsable(e, c, UseTime(c)) <=> Works(i, n, e, c)
  <2>1. c.expires_at = None \/ c.expires_at \in Int
    BY DEF At, Site, TokenShape
  <2>2. c.expires_at = None \/ UseTime(c) < c.expires_at <=> Valid(i, n, e, c)
    BY <2>1, UseTimeValid
  <2> QED
    BY <2>2 DEF CredentialUsable, Works
<1>2. x \in Identities <=>
         \E c \in a.credentials : Supported(c) /\ CredentialUsable(e, c, UseTime(c)) /\ c.account = x
  BY DEF Identities, At
<1> QED
  BY <1>1, <1>2 DEF Actor

(* Every rule is a step of the attacker.                                   *)
LEMMA TakeRules ==
    ASSUME NEW i, NEW h, NEW n, NEW e, NEW a, NEW g, At(i, h, n, e, a, g),
           ControllerPod \/ ExecPod, NEW b, b = att'
    PROVE  Step(i, h, n, e, a, g, e, b, g)
<1>1. e = env /\ a = att /\ Site(i, h, n, e, a) /\ DOMAIN a = AttFields
  BY DEF At, Known
<1>2. CASE ControllerPod
  <2>1. PICK T : T = OwnedPods
    OBVIOUS
  <2>2. b = [a EXCEPT !.pods = @ \cup T]
    BY <1>1, <1>2, <2>1 DEF ControllerPod
  <2>3. Takes(b, a, T)
    BY <1>1, <2>2 DEF Takes, AttFields
  <2>4. \A u \in T : \E p \in e.pods : p.uid = u /\ p.controller \in a.controllers
    BY <1>1, <2>1 DEF OwnedPods, UidsOf
  <2> QED
    BY <1>1, <2>3, <2>4, StepTakes
<1>3. CASE ExecPod
  <2>1. PICK T : T = ExecPods
    OBVIOUS
  <2>2. b = [a EXCEPT !.pods = @ \cup T]
    BY <1>1, <1>3, <2>1 DEF ExecPod
  <2>3. Takes(b, a, T)
    BY <1>1, <2>2 DEF Takes, AttFields
  <2>4. \A u \in T : \E p \in e.pods : p.uid = u /\ \E x : x \in Identities /\ MayExec(e, x, p)
    BY <1>1, <2>1 DEF ExecPods, UidsOf, MayExec
  <2>5. \A u \in T : \E p \in e.pods : p.uid = u /\ \E x : Actor(i, n, e, a, x) /\ MayExec(e, x, p)
    BY <2>4, IdentitiesAct
  <2> QED
    BY <1>1, <2>3, <2>5, StepTakes
<1> QED
  BY <1>2, <1>3

LEMMA ObtainRule ==
    ASSUME NEW i, NEW h, NEW n, NEW e, NEW a, NEW g, At(i, h, n, e, a, g), ObtainToken, NEW b, b = att'
    PROVE  Step(i, h, n, e, a, g, e, b, g)
<1>1. e = env /\ a = att /\ Site(i, h, n, e, a) /\ DOMAIN a = AttFields /\ Ground(i, h)
  BY DEF At, Known
<1>2. PICK T : T = StaleTokens
  OBVIOUS
<1>3. b = [a EXCEPT !.credentials = T \cup {c \in @ : \A t \in T : t.id # c.id}]
  BY <1>1, <1>2 DEF ObtainToken
<1>4. Obtains(b, a, T)
  BY <1>1, <1>3 DEF Obtains, AttFields
<1>5. T = StaleIn(a, e)
  BY <1>1, <1>2 DEF StaleTokens, StaleIn
<1>6. T \subseteq StaleIn(a, e) /\ T \subseteq TokensFrom(e, a.pods)
  BY <1>5 DEF StaleIn
<1>7. Persists(a, b)
  BY <1>1, <1>4, <1>6, Refreshed DEF Site, Ground
<1>8. /\ b.pods = a.pods /\ b.controllers = a.controllers /\ b.secrets = a.secrets
      /\ b.downstream = a.downstream /\ b.credentials \subseteq a.credentials \cup T
  BY <1>4 DEF Obtains
<1> QED
  BY <1>1, <1>6, <1>7, <1>8, StepObtains

(* What _create_workloads makes.                                           *)
LEMMA CreatableFacts ==
    ASSUME NEW i, NEW h, NEW n, NEW e, NEW a, NEW g, At(i, h, n, e, a, g), NEW kind, NEW y
    PROVE  y \in Creatable(kind, "allow") <=>
              /\ HasAccount(e, y) /\ ~ControlsLive(y, kind)
              /\ \E x : Actor(i, n, e, a, x) /\ MayCreate(e, x, kind, y)
<1>1. e = env
  BY DEF At
<1>2. y \in Creatable(kind, "allow") <=>
              /\ HasAccount(e, y) /\ ~ControlsLive(y, kind)
              /\ \E x : x \in Identities /\ MayCreate(e, x, kind, y)
  BY <1>1 DEF Creatable, HasAccount, MayCreate
<1> QED
  BY <1>2, IdentitiesAct

LEMMA PodRule ==
    ASSUME NEW i, NEW h, NEW n, NEW e, NEW a, NEW g, At(i, h, n, e, a, g), CreatePod,
           NEW b, b = att', NEW f, f = env'
    PROVE  Step(i, h, n, e, a, g, f, b, g)
<1>1. /\ e = env /\ a = att /\ n = interval /\ Site(i, h, n, e, a) /\ DOMAIN a = AttFields /\ Ground(i, h)
      /\ Formed(e)
  BY DEF At, Known, Site, Frame
<1>2. PICK new : new = NewPods
  OBVIOUS
<1>3. b = [a EXCEPT !.pods = @ \cup UidsOf(new)] /\ f = [e EXCEPT !.pods = @ \cup new]
  BY <1>1, <1>2 DEF CreatePod
<1>4. Takes(b, a, UidsOf(new))
  BY <1>1, <1>3 DEF Takes, AttFields
<1>5. IsFiniteSet(new) /\ \A p \in new : MadePod(p.uid) /\ p.controller = None
  BY <1>1, <1>2, NewPodsFacts DEF Formed
<1>6. /\ Formed(f) /\ Same(f, e) /\ f.pods = e.pods \cup new /\ f.controllers = e.controllers
  BY <1>1, <1>3, <1>5, PodsCreated
<1>7. ASSUME NEW p \in new
      PROVE  /\ BareUid(p.account, p.uid) /\ p.controller = None /\ p.audiences = {}
             /\ HasAccount(e, p.account)
             /\ \E x : Actor(i, n, e, a, x) /\ MayCreate(e, x, "pods", p.account)
  <2>1. PICK y \in Creatable("pods", "allow") :
           p = [uid |-> ModelPodUid(y, interval), name |-> ModelPodUid(y, interval), account |-> y,
                audiences |-> {}, controller |-> None]
    BY <1>2, <1>7 DEF NewPods
  <2>2. p.account = y /\ p.uid = ModelPodUid(y, interval) /\ p.controller = None /\ p.audiences = {}
    BY <2>1
  <2>3. HasAccount(e, y) /\ \E x : Actor(i, n, e, a, x) /\ MayCreate(e, x, "pods", y)
    BY <2>1, CreatableFacts
  <2>4. BareUid(y, p.uid)
    BY <2>2 DEF BareUid
  <2> QED
    BY <2>2, <2>3, <2>4
<1> QED
  BY <1>1, <1>4, <1>6, <1>7, StepPods

LEMMA StepStays ==
    ASSUME NEW i, NEW h, NEW n, NEW e, NEW a, NEW g, Site(i, h, n, e, a), NEW b, NEW q,
           b.pods = a.pods, b.controllers = a.controllers, b.credentials = a.credentials,
           b.secrets = a.secrets, b.downstream = a.downstream, q.reads = g.reads, q.uses = g.uses
    PROVE  Step(i, h, n, e, a, g, e, b, q)
<1>1. Site(i, h, n, e, b)
  BY SiteTakes
<1>2. Persists(a, b)
  BY SamePersists
<1>3. ASSUME NEW d, Follows(h, i, n, e, a, g, d) PROVE Covered(e, b, q, d)
  <2>1. Covered(e, a, g, d)
    BY <1>3 DEF Follows
  <2> QED
    BY <2>1, CoveredGrows
<1> QED
  BY <1>1, <1>2, <1>3 DEF Step

LEMMA ControllerRule ==
    ASSUME UidsApart, NEW i, NEW h, NEW n, NEW e, NEW a, NEW g, At(i, h, n, e, a, g), CreateController,
           NEW b, b = att', NEW f, f = env'
    PROVE  Step(i, h, n, e, a, g, f, b, g)
<1>1. /\ e = env /\ a = att /\ n = interval /\ Site(i, h, n, e, a) /\ DOMAIN a = AttFields /\ Ground(i, h)
      /\ Formed(e)
  BY DEF At, Known, Site, Frame
<1>2. PICK new : new = NewControllers
  OBVIOUS
<1>3. b = [a EXCEPT !.controllers = @ \cup UidsOf(new)]
  BY <1>1, <1>2 DEF CreateController
<1>4. /\ b.controllers = a.controllers \cup UidsOf(new) /\ b.pods = a.pods
      /\ b.credentials = a.credentials /\ b.secrets = a.secrets /\ b.downstream = a.downstream
  BY <1>1, <1>3 DEF AttFields
<1>5. CASE new = {}
  <2>1. f = e /\ b.controllers = a.controllers
    BY <1>1, <1>2, <1>4, <1>5 DEF CreateController, UidsOf
  <2> QED
    BY <1>1, <1>4, <2>1, StepStays
<1>6. CASE new # {}
  <2>1. PICK r : r = WithControllers(e, new)
    OBVIOUS
  <2>2. f = Reconcile(r)
    BY <1>1, <1>2, <1>6, <2>1 DEF CreateController, WithControllers
  <2>3. IsFiniteSet(new) /\ \A c \in new : MadeController(c.uid) /\ c.uid # None
    BY <1>1, <1>2, NewControllersFacts DEF Formed, UidsApart
  <2>4. Formed(r) /\ Same(r, e)
    BY <1>1, <2>1, <2>3, ControllersCreated
  <2>5. r.pods = e.pods /\ r.controllers = e.controllers \cup new
    BY <1>1, <2>1, WithControllersFacts DEF Formed
  <2>6. ASSUME NEW c \in new
        PROVE  /\ DeployUid(c.account, c.uid) /\ c.audiences = {}
               /\ HasAccount(e, c.account)
               /\ \E x : Actor(i, n, e, a, x) /\ MayCreate(e, x, "deployments", c.account)
    <3>1. PICK y \in Creatable("deployments", "allow") :
             c = [uid |-> ModelControllerUid(y, interval), name |-> ModelControllerUid(y, interval),
                  account |-> y, audiences |-> {}]
      BY <1>2, <2>6 DEF NewControllers
    <3>2. c.account = y /\ c.uid = ModelControllerUid(y, interval) /\ c.audiences = {}
      BY <3>1
    <3>3. HasAccount(e, y) /\ \E x : Actor(i, n, e, a, x) /\ MayCreate(e, x, "deployments", y)
      BY <3>1, CreatableFacts
    <3>4. DeployUid(y, c.uid)
      BY <3>2 DEF DeployUid
    <3> QED
      BY <3>2, <3>3, <3>4
  <2> QED
    BY <1>1, <1>4, <1>6, <2>2, <2>4, <2>5, <2>6, StepControllers
<1> QED
  BY <1>5, <1>6

LEMMA LearnRules ==
    ASSUME NEW i, NEW h, NEW n, NEW e, NEW a, NEW g, At(i, h, n, e, a, g),
           ReadSecret \/ DownstreamCredential \/ UseDownstream, NEW b, b = att', NEW q, q = eph'
    PROVE  Step(i, h, n, e, a, g, e, b, q)
<1>1. /\ e = env /\ a = att /\ g = eph /\ Site(i, h, n, e, a) /\ DOMAIN a = AttFields
      /\ DOMAIN g = {"reads", "uses"}
  BY DEF At, Known
<1>2. CASE ReadSecret
  <2>1. PICK S, R : S = ReadVersions /\ R = ReadNames
    OBVIOUS
  <2>2. b = [a EXCEPT !.secrets = @ \cup S] /\ q = [g EXCEPT !.reads = @ \cup R]
    BY <1>1, <1>2, <2>1 DEF ReadSecret
  <2>3. Learns(b, a, S, {}) /\ Reaches(q, g, R, {})
    BY <1>1, <2>2 DEF Learns, Reaches, AttFields
  <2>4. ASSUME NEW s \in Readable
        PROVE  s \in e.secrets /\ \E x : Actor(i, n, e, a, x) /\ CanReadSecret(e, x, s.secret)
    <3>1. s \in e.secrets /\ \E x : x \in Identities /\ CanReadSecret(e, x, s.secret)
      BY <1>1, <2>4 DEF Readable
    <3> QED
      BY <3>1, IdentitiesAct
  <2>5. \A k \in S : \E s \in e.secrets : /\ k = <<s.secret, s.version>>
                            /\ \E x : Actor(i, n, e, a, x) /\ CanReadSecret(e, x, s.secret)
    BY <2>1, <2>4 DEF ReadVersions
  <2>6. \A k \in R : \E s \in e.secrets : /\ k = s.secret
                            /\ \E x : Actor(i, n, e, a, x) /\ CanReadSecret(e, x, s.secret)
    BY <2>1, <2>4 DEF ReadNames
  <2> QED
    <3>1. Finds(i, n, e, a, S, {}, R, {})
      BY <2>5, <2>6 DEF Finds
    <3> QED
      BY <1>1, <2>3, <3>1, StepLearns
<1>3. CASE DownstreamCredential
  <2>1. PICK K : K = DownstreamKnown
    OBVIOUS
  <2>2. b = [a EXCEPT !.downstream = @ \cup K] /\ q = g
    BY <1>1, <1>3, <2>1 DEF DownstreamCredential
  <2>3. Learns(b, a, {}, K) /\ Reaches(q, g, {}, {})
    BY <1>1, <2>2 DEF Learns, Reaches, AttFields
  <2>4. \A k \in K : \E s \in e.services : \E y \in a.secrets : y[1] = s.source /\ k = <<s.name, y[2]>>
    BY <1>1, <2>1 DEF DownstreamKnown
  <2> QED
    <3>1. Finds(i, n, e, a, {}, K, {}, {})
      BY <2>4 DEF Finds
    <3> QED
      BY <1>1, <2>3, <3>1, StepLearns
<1>4. CASE UseDownstream
  <2>1. PICK U : U = Usable
    OBVIOUS
  <2>2. b = a /\ q = [g EXCEPT !.uses = @ \cup U]
    BY <1>1, <1>4, <2>1 DEF UseDownstream
  <2>3. Learns(b, a, {}, {}) /\ Reaches(q, g, {}, U)
    BY <1>1, <2>2 DEF Learns, Reaches, AttFields
  <2>4. \A k \in U : \E s \in e.services : \E y \in a.downstream :
              k = s.name /\ y[1] = s.name /\ Accepts(s, y[2], e.time)
    BY <1>1, <2>1 DEF Usable
  <2> QED
    <3>1. Finds(i, n, e, a, {}, {}, {}, U)
      BY <2>4 DEF Finds
    <3> QED
      BY <1>1, <2>3, <3>1, StepLearns
<1> QED
  BY <1>2, <1>3, <1>4

(* A rule of a sweep.                                                      *)
Rule ==
    \/ ControllerPod \/ ObtainToken \/ CreatePod \/ CreateController \/ ExecPod
    \/ ReadSecret \/ DownstreamCredential \/ UseDownstream

LEMMA RuleSteps ==
    ASSUME UidsApart, NEW i, NEW h, NEW n, NEW e, NEW a, NEW g, At(i, h, n, e, a, g), Rule,
           NEW f, NEW b, NEW q, f = env', b = att', q = eph'
    PROVE  Step(i, h, n, e, a, g, f, b, q)
<1>1. e = env /\ g = eph
  BY DEF At
<1>2. CASE ControllerPod \/ ExecPod
  <2>1. f = e /\ q = g
    BY <1>1, <1>2 DEF ControllerPod, ExecPod
  <2> QED
    BY <1>2, <2>1, TakeRules
<1>3. CASE ObtainToken
  <2>1. f = e /\ q = g
    BY <1>1, <1>3 DEF ObtainToken
  <2> QED
    BY <1>3, <2>1, ObtainRule
<1>4. CASE CreatePod
  <2>1. q = g
    BY <1>1, <1>4 DEF CreatePod
  <2> QED
    BY <1>4, <2>1, PodRule
<1>5. CASE CreateController
  <2>1. q = g
    BY <1>1, <1>5 DEF CreateController
  <2> QED
    BY <1>5, <2>1, ControllerRule
<1>6. CASE ReadSecret \/ DownstreamCredential \/ UseDownstream
  <2>1. f = e
    BY <1>1, <1>6 DEF ReadSecret, DownstreamCredential, UseDownstream
  <2> QED
    BY <1>6, <2>1, LearnRules
<1> QED
  BY <1>2, <1>3, <1>4, <1>5, <1>6 DEF Rule

(* A sweep that changes nothing finds every rule without anything to       *)
(* derive.                                                                 *)
Quiet(j) ==
    /\ j = 1 => OwnedPods \subseteq att.pods
    /\ j = 2 => StaleTokens = {}
    /\ j = 3 => NewPods = {}
    /\ j = 4 => NewControllers = {}
    /\ j = 5 => ExecPods \subseteq att.pods
    /\ j = 6 => ReadVersions \subseteq att.secrets /\ ReadNames \subseteq eph.reads
    /\ j = 7 => DownstreamKnown \subseteq att.downstream
    /\ j = 8 => Usable \subseteq eph.uses

(* A record is nothing but its fields.                                     *)
Recorded(r) == r = [x \in DOMAIN r |-> r[x]]

SweepInv ==
    /\ rule \in 1..9 /\ changed \in BOOLEAN
    /\ phase = "begin" => rule = 1 /\ ~changed
    /\ rule = 9 => ~changed
    /\ ~changed => \A j \in 1..8 : j < rule => Quiet(j)
    /\ Recorded(env) /\ Recorded(att) /\ Recorded(eph)

LEMMA QuietStays ==
    ASSUME input' = input, phase' = phase, interval' = interval, env' = env, att' = att, eph' = eph,
           NEW j, Quiet(j)
    PROVE  Quiet(j)'
<1>1. \A c : UseTime(c)' = UseTime(c)
  BY DEF UseTime
<1>2. Identities' = Identities
  BY <1>1 DEF Identities
<1>3. \A x, kind : ControlsLive(x, kind)' = ControlsLive(x, kind)
  BY DEF ControlsLive
<1>4. \A kind, decision : Creatable(kind, decision)' = Creatable(kind, decision)
  BY <1>2, <1>3 DEF Creatable
<1>5. OwnedPods' = OwnedPods /\ StaleTokens' = StaleTokens /\ ExecPods' = ExecPods
  BY <1>2 DEF OwnedPods, StaleTokens, ExecPods
<1>6. NewPods' = NewPods /\ NewControllers' = NewControllers
  BY <1>4 DEF NewPods, NewControllers
<1>7. ReadVersions' = ReadVersions /\ ReadNames' = ReadNames
  BY <1>2 DEF ReadVersions, ReadNames, Readable
<1>8. DownstreamKnown' = DownstreamKnown /\ Usable' = Usable
  BY DEF DownstreamKnown, Usable
<1> QED
  BY <1>5, <1>6, <1>7, <1>8 DEF Quiet

(* Which rule a sweep is at.                                               *)
LEMMA RuleNumbers ==
    ASSUME rule \in 1..8
    PROVE  /\ Rules[rule] = "controller_pod" <=> rule = 1
           /\ Rules[rule] = "projected_token" <=> rule = 2
           /\ Rules[rule] = "create_pod" <=> rule = 3
           /\ Rules[rule] = "create_controller" <=> rule = 4
           /\ Rules[rule] = "exec_pod" <=> rule = 5
           /\ Rules[rule] = "read_secret" <=> rule = 6
           /\ Rules[rule] = "downstream_credential" <=> rule = 7
           /\ Rules[rule] = "use_downstream" <=> rule = 8
<1>1. rule \in {1, 2, 3, 4, 5, 6, 7, 8}
  OBVIOUS
<1> QED
  BY <1>1 DEF Rules

LEMMA DerivedNumbers ==
    ASSUME rule \in 1..8
    PROVE  /\ rule = 1 => Derived = Cardinality(OwnedPods \ att.pods)
           /\ rule = 2 => Derived = Cardinality(StaleTokens)
           /\ rule = 3 => Derived = Cardinality(NewPods)
           /\ rule = 4 => Derived = Cardinality(NewControllers)
           /\ rule = 5 => Derived = Cardinality(ExecPods \ att.pods)
           /\ rule = 6 => Derived = Cardinality(ReadVersions \ att.secrets)
                                    + Cardinality(ReadNames \ eph.reads)
           /\ rule = 7 => Derived = Cardinality(DownstreamKnown \ att.downstream)
           /\ rule = 8 => Derived = Cardinality(Usable \ eph.uses)
<1>1. /\ Rules[rule] = "controller_pod" => Derived = Cardinality(OwnedPods \ att.pods)
      /\ Rules[rule] = "projected_token" => Derived = Cardinality(StaleTokens)
      /\ Rules[rule] = "create_pod" => Derived = Cardinality(NewPods)
      /\ Rules[rule] = "create_controller" => Derived = Cardinality(NewControllers)
      /\ Rules[rule] = "exec_pod" => Derived = Cardinality(ExecPods \ att.pods)
      /\ Rules[rule] = "read_secret" =>
            Derived = Cardinality(ReadVersions \ att.secrets) + Cardinality(ReadNames \ eph.reads)
      /\ Rules[rule] = "downstream_credential" => Derived = Cardinality(DownstreamKnown \ att.downstream)
      /\ Rules[rule] = "use_downstream" => Derived = Cardinality(Usable \ eph.uses)
  BY DEF Derived
<1> QED
  BY <1>1, RuleNumbers

(* What is counted as nothing is nothing.                                  *)
LEMMA NoneMissing ==
    ASSUME NEW S, NEW T, IsFiniteSet(S)
    PROVE  Cardinality(S \ T) \in Nat /\ (Cardinality(S \ T) = 0 => S \subseteq T)
<1>1. IsFiniteSet(S \ T)
  BY FS_Subset
<1>2. PICK X : X = S \ T
  OBVIOUS
<1>3. Cardinality(X) \in Nat /\ (Cardinality(X) = 0 <=> X = {})
  BY <1>1, <1>2, FS_CardinalityType, FS_EmptySet
<1> QED
  BY <1>2, <1>3

LEMMA NoneCounted ==
    ASSUME NEW S, IsFiniteSet(S)
    PROVE  Cardinality(S) \in Nat /\ (Cardinality(S) = 0 => S = {})
BY FS_CardinalityType, FS_EmptySet

(* A rule that derives nothing is quiet.                                   *)
LEMMA NothingDerived ==
    ASSUME NEW i, NEW h, NEW n, NEW e, NEW a, NEW g, At(i, h, n, e, a, g), rule \in 1..8
    PROVE  Derived \in Nat /\ (Derived = 0 => Quiet(rule))
<1>1. /\ e = env /\ a = att /\ Formed(env) /\ IsFiniteSet(env.pods) /\ IsFiniteSet(env.accounts)
      /\ Keyed(i, env) /\ IsFiniteSet(att.secrets)
  BY DEF At, Known, Site, Frame, Formed
<1>2. IsFiniteSet(env.secrets) /\ IsFiniteSet(env.services)
  BY <1>1 DEF Keyed
<1>3. /\ IsFiniteSet(ReadVersions) /\ IsFiniteSet(DownstreamKnown)
      /\ IsFiniteSet(ReadNames) /\ IsFiniteSet(Usable)
  <2>1. /\ IsFiniteSet(ReadVersions) /\ IsFiniteSet(DownstreamKnown)
        /\ ReadNames \subseteq SecretNames(env) /\ Usable \subseteq ServiceNames(env)
    BY <1>1, <1>2, RulesFinite
  <2>2. IsFiniteSet(SecretNames(env)) /\ IsFiniteSet(ServiceNames(env))
    BY <1>2, NamesCounted
  <2> QED
    BY <2>1, <2>2, FS_Subset
<1>4. IsFiniteSet(OwnedPods) /\ IsFiniteSet(ExecPods)
  <2>1. OwnedPods \subseteq UidsOf(env.pods) /\ ExecPods \subseteq UidsOf(env.pods)
    BY DEF OwnedPods, ExecPods, UidsOf
  <2>2. IsFiniteSet(UidsOf(env.pods))
    BY <1>1, UidsFinite
  <2> QED
    BY <2>1, <2>2, FS_Subset
<1>5. IsFiniteSet(StaleTokens)
  <2>1. StaleTokens \subseteq TokensFrom(env, att.pods)
    BY DEF StaleTokens
  <2>2. IsFiniteSet(TokensFrom(env, att.pods))
    BY <1>1, TokensCounted
  <2> QED
    BY <2>1, <2>2, FS_Subset
<1>6. IsFiniteSet(NewPods) /\ IsFiniteSet(NewControllers)
  BY <1>1, NewPodsFacts, NewControllersFacts
<1>7. CASE rule = 1
  BY <1>4, <1>7, NoneMissing, DerivedNumbers DEF Quiet
<1>8. CASE rule = 2
  BY <1>5, <1>8, NoneCounted, DerivedNumbers DEF Quiet
<1>9. CASE rule = 3
  BY <1>6, <1>9, NoneCounted, DerivedNumbers DEF Quiet
<1>10. CASE rule = 4
  BY <1>6, <1>10, NoneCounted, DerivedNumbers DEF Quiet
<1>11. CASE rule = 5
  BY <1>4, <1>11, NoneMissing, DerivedNumbers DEF Quiet
<1>12. CASE rule = 6
  <2>1. PICK x, y : x = Cardinality(ReadVersions \ att.secrets) /\ y = Cardinality(ReadNames \ eph.reads)
    OBVIOUS
  <2>2. /\ x \in Nat /\ (x = 0 => ReadVersions \subseteq att.secrets)
        /\ y \in Nat /\ (y = 0 => ReadNames \subseteq eph.reads)
    BY <1>3, <2>1, NoneMissing
  <2>3. Derived = x + y
    BY <1>12, <2>1, DerivedNumbers
  <2>4. Derived \in Nat /\ (Derived = 0 => x = 0 /\ y = 0)
    BY <2>2, <2>3
  <2> QED
    BY <1>12, <2>2, <2>4 DEF Quiet
<1>13. CASE rule = 7
  BY <1>3, <1>13, NoneMissing, DerivedNumbers DEF Quiet
<1>14. CASE rule = 8
  BY <1>3, <1>14, NoneMissing, DerivedNumbers DEF Quiet
<1> QED
  BY <1>7, <1>8, <1>9, <1>10, <1>11, <1>12, <1>13, <1>14

(* An update that changes no field changes nothing.                        *)
LEMMA UnchangedRecord ==
    ASSUME NEW r, Recorded(r), NEW f, NEW v, v = r[f], NEW s, s = [r EXCEPT ![f] = v]
    PROVE  s = r
BY DEF Recorded

LEMMA ExceptRecorded ==
    ASSUME NEW r, NEW f, NEW v, NEW s, s = [r EXCEPT ![f] = v]
    PROVE  Recorded(s)
BY DEF Recorded

(* A quiet rule leaves everything as it is.                                *)
LEMMA QuietRule ==
    ASSUME Rule, rule \in 1..8, Quiet(rule), Recorded(env), Recorded(att), Recorded(eph)
    PROVE  env' = env /\ att' = att /\ eph' = eph
<1>1. CASE ControllerPod
  <2>1. rule = 1
    BY <1>1, RuleNumbers DEF ControllerPod, Apply
  <2>2. att.pods \cup OwnedPods = att.pods
    BY <2>1 DEF Quiet
  <2>3. att' = [att EXCEPT !.pods = att.pods]
    BY <1>1, <2>2 DEF ControllerPod
  <2> QED
    BY <1>1, <2>3, UnchangedRecord DEF ControllerPod
<1>2. CASE ObtainToken
  <2>1. rule = 2
    BY <1>2, RuleNumbers DEF ObtainToken, Apply
  <2>2. StaleTokens = {}
    BY <2>1 DEF Quiet
  <2>3. att' = [att EXCEPT !.credentials = att.credentials]
    BY <1>2, <2>2 DEF ObtainToken
  <2> QED
    BY <1>2, <2>3, UnchangedRecord DEF ObtainToken
<1>3. CASE CreatePod
  <2>1. rule = 3
    BY <1>3, RuleNumbers DEF CreatePod, Apply
  <2>2. NewPods = {} /\ UidsOf(NewPods) = {}
    BY <2>1 DEF Quiet, UidsOf
  <2>3. att' = [att EXCEPT !.pods = att.pods] /\ env' = [env EXCEPT !.pods = env.pods]
    BY <1>3, <2>2 DEF CreatePod
  <2> QED
    BY <1>3, <2>3, UnchangedRecord DEF CreatePod
<1>4. CASE CreateController
  <2>1. rule = 4
    BY <1>4, RuleNumbers DEF CreateController, Apply
  <2>2. NewControllers = {} /\ UidsOf(NewControllers) = {}
    BY <2>1 DEF Quiet, UidsOf
  <2>3. att' = [att EXCEPT !.controllers = att.controllers] /\ env' = env
    BY <1>4, <2>2 DEF CreateController
  <2> QED
    BY <1>4, <2>3, UnchangedRecord DEF CreateController
<1>5. CASE ExecPod
  <2>1. rule = 5
    BY <1>5, RuleNumbers DEF ExecPod, Apply
  <2>2. att.pods \cup ExecPods = att.pods
    BY <2>1 DEF Quiet
  <2>3. att' = [att EXCEPT !.pods = att.pods]
    BY <1>5, <2>2 DEF ExecPod
  <2> QED
    BY <1>5, <2>3, UnchangedRecord DEF ExecPod
<1>6. CASE ReadSecret
  <2>1. rule = 6
    BY <1>6, RuleNumbers DEF ReadSecret, Apply
  <2>2. att.secrets \cup ReadVersions = att.secrets /\ eph.reads \cup ReadNames = eph.reads
    BY <2>1 DEF Quiet
  <2>3. att' = [att EXCEPT !.secrets = att.secrets] /\ eph' = [eph EXCEPT !.reads = eph.reads]
    BY <1>6, <2>2 DEF ReadSecret
  <2> QED
    BY <1>6, <2>3, UnchangedRecord DEF ReadSecret
<1>7. CASE DownstreamCredential
  <2>1. rule = 7
    BY <1>7, RuleNumbers DEF DownstreamCredential, Apply
  <2>2. att.downstream \cup DownstreamKnown = att.downstream
    BY <2>1 DEF Quiet
  <2>3. att' = [att EXCEPT !.downstream = att.downstream]
    BY <1>7, <2>2 DEF DownstreamCredential
  <2> QED
    BY <1>7, <2>3, UnchangedRecord DEF DownstreamCredential
<1>8. CASE UseDownstream
  <2>1. rule = 8
    BY <1>8, RuleNumbers DEF UseDownstream, Apply
  <2>2. eph.uses \cup Usable = eph.uses
    BY <2>1 DEF Quiet
  <2>3. eph' = [eph EXCEPT !.uses = eph.uses]
    BY <1>8, <2>2 DEF UseDownstream
  <2> QED
    BY <1>8, <2>3, UnchangedRecord DEF UseDownstream
<1> QED
  BY <1>1, <1>2, <1>3, <1>4, <1>5, <1>6, <1>7, <1>8 DEF Rule

LEMMA ReconcileRecorded ==
    ASSUME NEW e, NEW r, r = Reconcile(e)
    PROVE  Recorded(r)
BY DEF Recorded, Reconcile

LEMMA RuleRecorded ==
    ASSUME Rule, Recorded(env), Recorded(att), Recorded(eph)
    PROVE  Recorded(env)' /\ Recorded(att)' /\ Recorded(eph)'
<1>1. CASE ControllerPod
  <2>1. \E v : att' = [att EXCEPT !.pods = v]
    BY <1>1 DEF ControllerPod
  <2> QED
    BY <1>1, <2>1, ExceptRecorded DEF ControllerPod
<1>2. CASE ObtainToken
  <2>1. \E v : att' = [att EXCEPT !.credentials = v]
    BY <1>2 DEF ObtainToken
  <2> QED
    BY <1>2, <2>1, ExceptRecorded DEF ObtainToken
<1>3. CASE CreatePod
  <2>1. (\E v : att' = [att EXCEPT !.pods = v]) /\ \E v : env' = [env EXCEPT !.pods = v]
    BY <1>3 DEF CreatePod
  <2> QED
    BY <1>3, <2>1, ExceptRecorded DEF CreatePod
<1>4. CASE CreateController
  <2>1. \E v : att' = [att EXCEPT !.controllers = v]
    BY <1>4 DEF CreateController
  <2>2. env' = env \/ \E e : env' = Reconcile(e)
    BY <1>4 DEF CreateController
  <2> QED
    BY <1>4, <2>1, <2>2, ExceptRecorded, ReconcileRecorded DEF CreateController
<1>5. CASE ExecPod
  <2>1. \E v : att' = [att EXCEPT !.pods = v]
    BY <1>5 DEF ExecPod
  <2> QED
    BY <1>5, <2>1, ExceptRecorded DEF ExecPod
<1>6. CASE ReadSecret
  <2>1. (\E v : att' = [att EXCEPT !.secrets = v]) /\ \E v : eph' = [eph EXCEPT !.reads = v]
    BY <1>6 DEF ReadSecret
  <2> QED
    BY <1>6, <2>1, ExceptRecorded DEF ReadSecret
<1>7. CASE DownstreamCredential
  <2>1. \E v : att' = [att EXCEPT !.downstream = v]
    BY <1>7 DEF DownstreamCredential
  <2> QED
    BY <1>7, <2>1, ExceptRecorded DEF DownstreamCredential
<1>8. CASE UseDownstream
  <2>1. \E v : eph' = [eph EXCEPT !.uses = v]
    BY <1>8 DEF UseDownstream
  <2> QED
    BY <1>8, <2>1, ExceptRecorded DEF UseDownstream
<1> QED
  BY <1>1, <1>2, <1>3, <1>4, <1>5, <1>6, <1>7, <1>8 DEF Rule

LEMMA RuleApplied ==
    ASSUME Rule
    PROVE  /\ phase \in {"history", "main"} /\ rule # 9
           /\ rule' = IF rule = 8 /\ (changed \/ Derived > 0) THEN 1 ELSE rule + 1
           /\ changed' = ((changed \/ Derived > 0) /\ rule # 8)
           /\ input' = input /\ view' = view /\ phase' = phase /\ interval' = interval
           /\ goals' = goals /\ outcome' = outcome
<1>1. \E r : Apply(r)
  BY DEF Rule, ControllerPod, ObtainToken, CreatePod, CreateController, ExecPod, ReadSecret,
         DownstreamCredential, UseDownstream
<1>2. Len(Rules) = 8 /\ Closed = 9
  BY DEF Rules, Closed
<1> QED
  BY <1>1, <1>2 DEF Apply, Sweeping

LEMMA SweepRule ==
    ASSUME NEW i, NEW h, NEW n, NEW e, NEW a, NEW g, At(i, h, n, e, a, g), SweepInv, Rule
    PROVE  SweepInv'
<1>1. /\ rule \in 1..8 /\ changed \in BOOLEAN /\ Recorded(env) /\ Recorded(att) /\ Recorded(eph)
      /\ ~changed => \A j \in 1..8 : j < rule => Quiet(j)
  BY RuleApplied DEF SweepInv
<1>2. Recorded(env)' /\ Recorded(att)' /\ Recorded(eph)'
  BY <1>1, RuleRecorded
<1>3. Derived \in Nat /\ (Derived = 0 => Quiet(rule))
  BY <1>1, NothingDerived
<1>4. phase' # "begin"
  BY RuleApplied
<1>5. CASE changed \/ Derived > 0
  <2>1. CASE rule = 8
    <3>1. rule' = 1 /\ changed' = FALSE
      BY <1>5, <2>1, RuleApplied
    <3>2. rule' \in 1..9 /\ rule' # 9 /\ \A j \in 1..8 : ~(j < rule')
      BY <3>1
    <3> QED
      BY <1>2, <1>4, <3>1, <3>2 DEF SweepInv
  <2>2. CASE rule # 8
    <3>1. rule' = rule + 1 /\ changed' = TRUE
      BY <1>5, <2>2, RuleApplied
    <3>2. rule' \in 1..9 /\ rule' # 9
      BY <1>1, <2>2, <3>1
    <3> QED
      BY <1>2, <1>4, <3>1, <3>2 DEF SweepInv
  <2> QED
    BY <2>1, <2>2
<1>6. CASE ~(changed \/ Derived > 0)
  <2>1. ~changed /\ Derived = 0
    BY <1>3, <1>6
  <2>2. rule' = rule + 1 /\ changed' = FALSE
    BY <1>6, RuleApplied
  <2>3. Quiet(rule)
    BY <1>3, <2>1
  <2>4. env' = env /\ att' = att /\ eph' = eph
    BY <1>1, <2>3, QuietRule
  <2>5. \A j : Quiet(j) => Quiet(j)'
    BY <2>4, RuleApplied, QuietStays
  <2>6. ASSUME NEW j \in 1..8, j < rule' PROVE Quiet(j)'
    <3>1. j < rule \/ j = rule
      BY <1>1, <2>2, <2>6
    <3> QED
      BY <1>1, <2>1, <2>3, <2>5, <3>1
  <2>7. rule' \in 1..9
    BY <1>1, <2>2
  <2> QED
    BY <1>2, <1>4, <2>2, <2>6, <2>7 DEF SweepInv
<1> QED
  BY <1>5, <1>6

(* The attacker a has the pods of its controllers, and the tokens of its   *)
(* pods.                                                                   *)
Fresh(e, a) ==
    /\ \A p \in e.pods : p.controller \in a.controllers => p.uid \in a.pods
    /\ \A t \in TokensFrom(e, a.pods) : \E c \in a.credentials : AsGood(t, c)

(* It can then act as the accounts that it has workloads of.               *)
LEMMA PodActs ==
    ASSUME NEW i, NEW h, NEW n, NEW e, NEW a, Ground(i, h), Site(i, h, n, e, a), Fresh(e, a),
           NEW p \in e.pods, p.uid \in a.pods, p.audiences = {}, HasAccount(e, p.account)
    PROVE  Actor(i, n, e, a, p.account)
<1>1. /\ Lodged(h, e) /\ e.time \in Int /\ Frame(i, h, n, e) /\ Formed(h)
  BY DEF Site, Ground
<1>2. PICK t : t = ProjectedToken(e, p, DefaultAudience)
  OBVIOUS
<1>3. t \in TokensFrom(e, a.pods)
  BY <1>2, TokenOfPod DEF AudiencesOf
<1>4. PICK c \in a.credentials : AsGood(t, c)
  BY <1>3 DEF Fresh
<1>6. PICK s : s = CHOOSE y \in e.accounts : y.account = p.account
  OBVIOUS
<1>7. s \in e.accounts /\ s.account = p.account
  BY <1>6 DEF HasAccount
<1>8. /\ t.kind = "sa_token" /\ t.account = p.account /\ t.sa_uid = s.uid /\ t.bound_pod = p.uid
      /\ t.audience = DefaultAudience /\ t.expires_at = e.time + TokenTTL
  BY <1>2, <1>6 DEF ProjectedToken
<1>5. /\ c.kind = t.kind /\ c.account = t.account /\ c.sa_uid = t.sa_uid
      /\ c.bound_pod = t.bound_pod /\ c.audience = t.audience
      /\ c.expires_at \in Int /\ t.expires_at \in Int /\ c.expires_at >= t.expires_at
  BY <1>1, <1>4, <1>8, SemanticsAssumption DEF AsGood
<1>9. p.account # None
  BY <1>1, <1>7 DEF Lodged, Ground, Apart
<1>10. Supported(c)
  BY <1>5, <1>8, <1>9 DEF Supported
<1>11. c.audience \in ApiAudiences
  BY <1>5, <1>8, SemanticsAssumption
<1>12. c.expires_at > e.time
  BY <1>1, <1>5, <1>8, SemanticsAssumption
<1>13. Valid(i, n, e, c)
  <2>1. n = HistoryInterval => e.time = i.inventory.time
    <3> SUFFICES ASSUME n = HistoryInterval PROVE e.time = h.time
      BY DEF Ground
    <3>1. PastOf(h, e)
      BY <1>1 DEF Frame
    <3>2. Reconcile(h).time = h.time
      BY <1>1, ReconcileFacts DEF Formed
    <3> QED
      BY <3>1, <3>2 DEF PastOf, Same
  <2>2. i.history_start # None => i.history_start \in Int /\ i.history_start <= i.inventory.time
    BY KeysAssumption DEF Ground
  <2> QED
    BY <1>1, <1>5, <1>12, <2>1, <2>2 DEF Valid
<1>14. Works(i, n, e, c)
  BY <1>5, <1>7, <1>8, <1>10, <1>11, <1>13 DEF Works
<1> QED
  BY <1>5, <1>8, <1>14 DEF Actor

LEMMA FreshActs ==
    ASSUME NEW i, NEW h, NEW n, NEW e, NEW a, Ground(i, h), Site(i, h, n, e, a), Fresh(e, a),
           NEW x, Acts(i, n, e, a, x)
    PROVE  Actor(i, n, e, a, x)
<1>1. Apart(h) /\ Lodged(h, e) /\ Owns(e, a) /\ Frame(i, h, n, e)
  BY DEF Site, Ground
<1>2. CASE HasAccount(e, x) /\ HasPod(e, x)
  <2>1. PICK p \in e.pods : BareUid(x, p.uid)
    BY <1>2 DEF HasPod
  <2>2. p.account = x /\ p.audiences = {} /\ p.uid \in a.pods
    BY <1>1, <2>1, BareFrom DEF Owns
  <2> QED
    BY <1>2, <2>2, PodActs
<1>3. CASE HasAccount(e, x) /\ HasDeploy(e, x)
  <2>1. PICK c \in e.controllers : DeployUid(x, c.uid)
    BY <1>3 DEF HasDeploy
  <2>2. c.uid \in a.controllers /\ MadeController(c.uid)
    BY <1>1, <2>1, UidTells DEF Owns
  <2>3. Orphaned(e) = {}
    BY <1>1, <1>3 DEF Frame, PastOf
  <2>4. PICK p \in e.pods : p.controller = c.uid
    BY <2>3 DEF Orphaned
  <2>5. p.uid \in a.pods
    BY <2>2, <2>4 DEF Fresh
  <2>6. p.account = x /\ p.audiences = {}
    <3>1. p \notin h.pods /\ p.controller # None
      BY <1>1, <2>2, <2>4 DEF Apart
    <3>2. PICK b : CtrlFrom(h, b) /\ ReplicaOf(b, p)
      BY <1>1, <3>1 DEF Lodged, PodFrom
    <3>3. b.uid = c.uid /\ p.account = b.account /\ p.audiences = b.audiences
      BY <2>4, <3>2 DEF ReplicaOf
    <3>4. b \notin h.controllers
      BY <1>1, <2>2, <3>3 DEF Apart
    <3>5. DeployUid(b.account, b.uid) /\ b.audiences = {}
      BY <3>2, <3>4 DEF CtrlFrom
    <3>6. b.account = x
      BY <2>1, <3>3, <3>5, UidTells
    <3> QED
      BY <3>3, <3>5, <3>6
  <2> QED
    BY <1>3, <2>5, <2>6, PodActs
<1> QED
  BY <1>2, <1>3 DEF Acts

(* Where all rules are quiet, the attacker is done.                        *)
LEMMA ClosedSaturated ==
    ASSUME NEW i, NEW h, NEW n, NEW e, NEW a, NEW g, At(i, h, n, e, a, g), \A j \in 1..8 : Quiet(j)
    PROVE  Saturated(i, n, e, a, g)
<1>1. /\ e = env /\ a = att /\ g = eph /\ n = interval /\ Ground(i, h) /\ Lodged(h, e)
      /\ e.time \in Int /\ \A c \in a.credentials : TokenShape(h, c)
  BY DEF At, Site
<1>2. /\ Quiet(1) /\ Quiet(2) /\ Quiet(3) /\ Quiet(4) /\ Quiet(5) /\ Quiet(6) /\ Quiet(7) /\ Quiet(8)
  OBVIOUS
<1>4. \A p \in e.pods : p.controller \in a.controllers => p.uid \in a.pods
  BY <1>1, <1>2 DEF Quiet, OwnedPods, UidsOf
<1>6. ASSUME NEW t \in TokensFrom(e, a.pods) PROVE \E c \in a.credentials : AsGood(t, c)
  <2>1. PICK c \in a.credentials : c.id = t.id /\ c.expires_at # None /\ c.expires_at >= t.expires_at
    BY <1>1, <1>2, <1>6 DEF Quiet, StaleTokens
  <2>2. /\ c.kind = t.kind /\ c.account = t.account /\ c.sa_uid = t.sa_uid
        /\ c.bound_pod = t.bound_pod /\ c.audience = t.audience
        /\ c.expires_at \in Int /\ t.expires_at \in Int
    BY <1>1, <1>6, <2>1, SameToken DEF Ground
  <2> QED
    BY <2>1, <2>2 DEF AsGood
<1>3. ASSUME NEW x, Acts(i, n, e, a, x) PROVE Actor(i, n, e, a, x) /\ x \in Identities
  <2>1. Fresh(e, a)
    BY <1>4, <1>6 DEF Fresh
  <2>2. Site(i, h, n, e, a)
    BY DEF At
  <2> QED
    BY <1>1, <1>3, <2>1, <2>2, FreshActs, IdentitiesAct
<1>5. ASSUME NEW p \in e.pods, NEW x, Acts(i, n, e, a, x), MayExec(e, x, p) PROVE p.uid \in a.pods
  BY <1>1, <1>2, <1>3, <1>5 DEF Quiet, ExecPods, UidsOf, MayExec
<1>7. ASSUME NEW x, NEW y, Acts(i, n, e, a, x), HasAccount(e, y), MayCreate(e, x, "pods", y)
      PROVE  HasPod(e, y)
  <2>1. CASE ControlsLive(y, "pods")
    BY <1>1, <2>1 DEF ControlsLive, HasPod, BareUid, UidsOf
  <2>2. CASE ~ControlsLive(y, "pods")
    <3>1. y \in Creatable("pods", "allow")
      BY <1>3, <1>7, <2>2, CreatableFacts
    <3>2. PICK p : p = [uid |-> ModelPodUid(y, interval), name |-> ModelPodUid(y, interval), account |-> y,
                        audiences |-> {}, controller |-> None]
      OBVIOUS
    <3>3. p.uid \in UidsOf(env.pods)
      BY <1>2, <3>1, <3>2 DEF Quiet, NewPods
    <3>4. p.uid = ModelPodUid(y, interval)
      BY <3>2
    <3> QED
      BY <1>1, <3>3, <3>4 DEF HasPod, BareUid, UidsOf
  <2> QED
    BY <2>1, <2>2
<1>8. ASSUME NEW x, NEW y, Acts(i, n, e, a, x), HasAccount(e, y), MayCreate(e, x, "deployments", y)
      PROVE  HasDeploy(e, y)
  <2>1. CASE ControlsLive(y, "deployments")
    BY <1>1, <2>1 DEF ControlsLive, HasDeploy, DeployUid, UidsOf
  <2>2. CASE ~ControlsLive(y, "deployments")
    <3>1. y \in Creatable("deployments", "allow")
      BY <1>3, <1>8, <2>2, CreatableFacts
    <3>2. PICK c : c = [uid |-> ModelControllerUid(y, interval), name |-> ModelControllerUid(y, interval),
                        account |-> y, audiences |-> {}]
      OBVIOUS
    <3>3. c.uid \in UidsOf(env.controllers)
      BY <1>2, <3>1, <3>2 DEF Quiet, NewControllers
    <3>4. c.uid = ModelControllerUid(y, interval)
      BY <3>2
    <3> QED
      BY <1>1, <3>3, <3>4 DEF HasDeploy, DeployUid, UidsOf
  <2> QED
    BY <2>1, <2>2
<1>9. ASSUME NEW s \in e.secrets, NEW x, Acts(i, n, e, a, x), CanReadSecret(e, x, s.secret)
      PROVE  <<s.secret, s.version>> \in a.secrets /\ s.secret \in g.reads
  <2>1. s \in Readable
    BY <1>1, <1>3, <1>9 DEF Readable
  <2> QED
    BY <1>1, <1>2, <2>1 DEF Quiet, ReadVersions, ReadNames
<1>10. \A s \in e.services : \A k \in a.secrets : k[1] = s.source => <<s.name, k[2]>> \in a.downstream
  BY <1>1, <1>2 DEF Quiet, DownstreamKnown
<1>11. \A s \in e.services : \A k \in a.downstream :
          k[1] = s.name /\ Accepts(s, k[2], e.time) => s.name \in g.uses
  BY <1>1, <1>2 DEF Quiet, Usable
<1> QED
  BY <1>4, <1>5, <1>6, <1>7, <1>8, <1>9, <1>10, <1>11 DEF Saturated

(* The facts that a view begins with.                                      *)
LEMMA SeedsShaped ==
    ASSUME IdsApart, input \in Inputs, NEW v, NEW h, NEW c \in Seeds(v).credentials
    PROVE  TokenShape(h, c)
<1>1. PICK f \in input.initial_facts : f.kind = "possesses_credential" /\ c = f.arg
  BY DEF Seeds, Believed
<1>2. c.expires_at = None \/ c.expires_at \in Int
  BY <1>1, KeysAssumption
<1>3. \A uid, aud : c.id # <<"projected", uid, aud>>
  BY <1>1 DEF IdsApart
<1> QED
  BY <1>2, <1>3 DEF TokenShape

LEMMA RunGoesOn ==
    ASSUME view' = view, input' = input, NEW v, v = View,
           NEW i, NEW h, NEW F, NEW from, i = input, h = HistoryEnv(v), F = Seeds(v), from = First(v),
           NEW m, NEW f, NEW b, NEW q, m = interval', f = env', b = att', q = eph',
           phase' = "history" => HasHistory(v), Site(i, h, m, f, b),
           Left(i, h, F, from, m, f, b, q), Right(i, h, F, from, m, f, b)
    PROVE  RunInv'
<1>1. /\ HistoryEnv(v)' = HistoryEnv(v) /\ First(v)' = First(v) /\ Seeds(v)' = Seeds(v)
      /\ HasHistory(v)' = HasHistory(v)
  BY InputFixed
<1>2. View' = v
  BY DEF View
<1>3. ASSUME NEW w, w = View'
      PROVE  /\ phase' = "history" => HasHistory(w)'
             /\ Site(input', HistoryEnv(w)', interval', env', att')
             /\ Left(input', HistoryEnv(w)', Seeds(w)', First(w)', interval', env', att', eph')
             /\ Right(input', HistoryEnv(w)', Seeds(w)', First(w)', interval', env', att')
  <2>1. w = v
    BY <1>2, <1>3
  <2> QED
    BY <1>1, <2>1
<1> QED
  BY <1>3 DEF RunInv

LEMMA RunBegins ==
    ASSUME UidsApart, PodsApart, PlansApart, IdsApart, ResultsInv, CountInv, BeginHistory \/ BeginMain
    PROVE  RunInv'
<1>1. PICK v, i, h, F, from : /\ v = View /\ i = input /\ h = HistoryEnv(v) /\ F = Seeds(v)
                              /\ from = First(v)
  OBVIOUS
<1>2. PICK m, f, b, q : m = interval' /\ f = env' /\ b = att' /\ q = eph'
  OBVIOUS
<1>3. input \in Inputs /\ Last(i) \in Nat
  BY <1>1, CaseAssumption DEF ResultsInv, Last
<1>4. Ground(i, h) /\ \A c \in F.credentials : TokenShape(h, c)
  BY <1>1, <1>3, GroundHolds, SeedsShaped
<1>5. view' = view /\ input' = input /\ q = NoGoals
  BY <1>2 DEF BeginHistory, BeginMain, CountInv
<1>6. b = F
  <2>1. CASE BeginHistory
    <3>1. HasHistory(v)
      BY <1>1, <2>1 DEF BeginHistory
    <3>2. b = [InitialFacts EXCEPT !.pods = @ \cup UidsOf(HistoricalPods(v))]
      BY <1>1, <1>2, <2>1 DEF BeginHistory
    <3> QED
      BY <1>1, <3>1, <3>2 DEF Seeds, InitialFacts
  <2>2. CASE BeginMain
    <3>1. ~HasHistory(v)
      BY <1>1, <2>2 DEF BeginMain
    <3>2. b = InitialFacts
      BY <1>2, <2>2 DEF BeginMain
    <3> QED
      BY <1>1, <3>1, <3>2 DEF Seeds, InitialFacts
  <2> QED
    BY <2>1, <2>2
<1>7. /\ from \in Int /\ from <= Last(i) /\ m = from
      /\ Site(i, h, m, f, b) /\ \A x : ~HasPod(f, x) /\ ~HasDeploy(f, x)
      /\ phase' = "history" => HasHistory(v)
  <2>1. CASE BeginHistory
    <3>1. HasHistory(v) /\ m = HistoryInterval /\ f = h /\ from = HistoryInterval
      BY <1>1, <1>2, <2>1 DEF BeginHistory, First
    <3>2. Site(i, h, HistoryInterval, h, F) /\ \A x : ~HasPod(h, x) /\ ~HasDeploy(h, x)
      BY <1>4, SiteInPast
    <3> QED
      BY <1>3, <1>6, <3>1, <3>2 DEF HistoryInterval
  <2>2. CASE BeginMain
    <3>1. ~HasHistory(v) /\ m = 0 /\ f = Reconcile(i.inventory) /\ from = 0 /\ phase' = "main"
      BY <1>1, <1>2, <2>2 DEF BeginMain, First, Inventory
    <3>2. Site(i, h, 0, f, F) /\ \A x : ~HasPod(f, x) /\ ~HasDeploy(f, x)
      BY <1>4, <3>1, SiteInMain
    <3> QED
      BY <1>3, <1>6, <3>1, <3>2
  <2> QED
    BY <2>1, <2>2
<1>8. Left(i, h, F, from, m, f, b, q)
  BY <1>3, <1>5, <1>6, <1>7, LeftStarts
<1>9. Persists(F, b)
  BY <1>6, SamePersists
<1>10. Right(i, h, F, from, m, f, b)
  BY <1>7, <1>9, RightStarts
<1> QED
  BY <1>1, <1>2, <1>5, <1>7, <1>8, <1>10, RunGoesOn

(* A rule.                                                                 *)
LEMMA RunRule ==
    ASSUME UidsApart, PodsApart, PlansApart, ResultsInv, TokenInv, CountInv, RunInv, Rule
    PROVE  RunInv'
<1>1. PICK v, i, h, F, from : /\ v = View /\ i = input /\ h = HistoryEnv(v) /\ F = Seeds(v)
                              /\ from = First(v)
  OBVIOUS
<1>2. PICK n, e, a, g : n = interval /\ e = env /\ a = att /\ g = eph
  OBVIOUS
<1>3. PICK f, b, q : f = env' /\ b = att' /\ q = eph'
  OBVIOUS
<1>4. phase \in {"history", "main"} /\ n = interval' /\ view' = view /\ input' = input /\ phase' = phase
  BY <1>2, RuleApplied
<1>5. At(i, h, n, e, a, g)
  BY <1>1, <1>2, <1>4, Here
<1>6. Step(i, h, n, e, a, g, f, b, q)
  BY <1>3, <1>5, RuleSteps
<1>7. /\ phase = "history" => HasHistory(v)
      /\ Left(i, h, F, from, n, e, a, g) /\ Right(i, h, F, from, n, e, a)
  BY <1>1, <1>2, <1>4 DEF RunInv
<1>8. /\ Ground(i, h) /\ Site(i, h, n, e, a) /\ from \in Int /\ n \in from..Last(i)
  BY <1>1, <1>5 DEF At
<1>9. Left(i, h, F, from, n, f, b, q)
  BY <1>6, <1>7, <1>8, LeftSteps
<1>10. Right(i, h, F, from, n, f, b)
  BY <1>6, <1>7, RightSteps
<1>11. Site(i, h, n, f, b)
  BY <1>6 DEF Step
<1> QED
  BY <1>1, <1>3, <1>4, <1>7, <1>9, <1>10, <1>11, RunGoesOn

(* An interval ends.                                                       *)
LEMMA RunClosed ==
    ASSUME UidsApart, PodsApart, PlansApart, ResultsInv, TokenInv, CountInv, RunInv, SweepInv,
           phase \in {"history", "main"}, rule = Closed,
           NEW v, NEW i, NEW h, NEW F, NEW from, NEW n, NEW e, NEW a, NEW g,
           v = View, i = input, h = HistoryEnv(v), F = Seeds(v), from = First(v),
           n = interval, e = env, a = att, g = eph
    PROVE  /\ At(i, h, n, e, a, g) /\ Frame(i, h, n, e) /\ Saturated(i, n, e, a, g)
           /\ Left(i, h, F, from, n, e, a, g) /\ Right(i, h, F, from, n, e, a)
           /\ from \in Int /\ n \in Int /\ from <= n /\ n <= Last(i) /\ Last(i) \in Nat
<1>1. At(i, h, n, e, a, g)
  BY Here
<1>2. \A j \in 1..8 : Quiet(j)
  <2>1. Closed = 9
    BY DEF Closed, Rules
  <2>2. rule = 9 /\ ~changed /\ \A j \in 1..8 : j < rule
    BY <2>1 DEF SweepInv
  <2> QED
    BY <2>2 DEF SweepInv
<1>3. Saturated(i, n, e, a, g)
  BY <1>1, <1>2, ClosedSaturated
<1>4. Left(i, h, F, from, n, e, a, g) /\ Right(i, h, F, from, n, e, a)
  BY DEF RunInv
<1> QED
  BY <1>1, <1>3, <1>4 DEF At, Site

LEMMA RunIntervals ==
    ASSUME UidsApart, PodsApart, PlansApart, ResultsInv, TokenInv, CountInv, RunInv, SweepInv,
           EndHistory \/ Remediate
    PROVE  RunInv'
<1>1. PICK v, i, h, F, from : /\ v = View /\ i = input /\ h = HistoryEnv(v) /\ F = Seeds(v)
                              /\ from = First(v)
  OBVIOUS
<1>2. PICK n, e, a, g : n = interval /\ e = env /\ a = att /\ g = eph
  OBVIOUS
<1>3. PICK f, b, q : f = env' /\ b = att' /\ q = eph'
  OBVIOUS
<1>4. /\ phase \in {"history", "main"} /\ rule = Closed
      /\ b = a /\ q = NoGoals /\ view' = view /\ input' = input /\ phase' = "main"
  BY <1>2, <1>3 DEF EndHistory, Remediate, EnterInterval
<1>5. /\ At(i, h, n, e, a, g) /\ Frame(i, h, n, e) /\ Saturated(i, n, e, a, g)
      /\ Left(i, h, F, from, n, e, a, g) /\ Right(i, h, F, from, n, e, a)
      /\ from \in Int /\ n \in Int /\ from <= n /\ n <= Last(i) /\ Last(i) \in Nat
  BY <1>1, <1>2, <1>4, RunClosed
<1>6. Ground(i, h) /\ Site(i, h, n, e, a) /\ (n = HistoryInterval <=> phase = "history")
  BY <1>5 DEF At
<1>7. CASE EndHistory
  <2>1. n = HistoryInterval /\ interval' = 0 /\ f = Reconcile(i.inventory)
    BY <1>1, <1>2, <1>3, <1>6, <1>7 DEF EndHistory, Inventory
  <2>2. \A c \in a.credentials : TokenShape(h, c)
    BY <1>6 DEF Site
  <2>3. Site(i, h, 0, f, a) /\ \A x : ~HasPod(f, x) /\ ~HasDeploy(f, x)
    BY <1>6, <2>1, <2>2, SiteInMain
  <2>4. n < Last(i) /\ n + 1 = 0
    BY <1>5, <2>1 DEF HistoryInterval
  <2>5. Left(i, h, F, from, n + 1, f, a, NoGoals)
    BY <1>5, <2>3, <2>4, LeftGoesOn
  <2>6. Right(i, h, F, from, n + 1, f, a)
    BY <1>5, <2>1, RightGoesOn
  <2>7. /\ Left(i, h, F, from, 0, f, b, q) /\ Right(i, h, F, from, 0, f, b) /\ Site(i, h, 0, f, b)
    BY <1>4, <2>3, <2>4, <2>5, <2>6
  <2> QED
    BY <1>1, <1>3, <1>4, <2>1, <2>7, RunGoesOn
<1>8. CASE Remediate
  <2>1. PICK act : act = i.remediation[n + 1]
    OBVIOUS
  <2>2. /\ phase = "main" /\ n < Last(i) /\ interval' = n + 1 /\ f = Reconcile(ApplyDefenderAction(e, act))
    BY <1>1, <1>2, <1>3, <1>8, <2>1 DEF Remediate, Last
  <2>3. n \in Nat /\ n # HistoryInterval
    BY <1>1, <1>2, <1>6, <2>2 DEF ResultsInv, MainEnv
  <2>4. /\ Site(i, h, n + 1, f, a)
        /\ \A x : HasPod(f, x) <=> HasPod(e, x) /\ SparesPods(act, x)
        /\ \A x : HasDeploy(f, x) <=> HasDeploy(e, x) /\ SparesDeploys(act, x)
    BY <1>6, <2>1, <2>2, <2>3, SiteRemediated DEF Last
  <2>5. Left(i, h, F, from, n + 1, f, a, NoGoals)
    BY <1>5, <2>1, <2>2, <2>3, <2>4, LeftGoesOn
  <2>6. Right(i, h, F, from, n + 1, f, a)
    BY <1>5, <2>1, <2>4, RightGoesOn
  <2>7. Left(i, h, F, from, n + 1, f, b, q) /\ Right(i, h, F, from, n + 1, f, b) /\ Site(i, h, n + 1, f, b)
    BY <1>4, <2>4, <2>5, <2>6
  <2> QED
    BY <1>1, <1>3, <1>4, <2>2, <2>7, RunGoesOn
<1> QED
  BY <1>7, <1>8

(* The sweep, action by action.                                            *)
LEMMA SweepStarts ==
    ASSUME rule = 1, ~changed, changed \in BOOLEAN, Recorded(env), Recorded(att), Recorded(eph)
    PROVE  SweepInv
<1>1. rule \in 1..9 /\ rule # 9 /\ \A j \in 1..8 : ~(j < rule)
  OBVIOUS
<1> QED
  BY <1>1 DEF SweepInv

LEMMA SweepRestarts ==
    ASSUME rule' = 1, changed' = FALSE, Recorded(env'), Recorded(att'), Recorded(eph')
    PROVE  SweepInv'
<1>1. rule' \in 1..9 /\ rule' # 9 /\ \A j \in 1..8 : ~(j < rule')
  OBVIOUS
<1> QED
  BY <1>1 DEF SweepInv

LEMMA FactsRecorded == Recorded(NoFacts) /\ Recorded(NoGoals) /\ Recorded(InitialFacts)
BY DEF Recorded, NoFacts, NoGoals, InitialFacts

LEMMA InventoryRecorded ==
    ASSUME input \in Inputs
    PROVE  Recorded(Inventory)
<1>1. PICK i \in Inputs : i = input
  OBVIOUS
<1>2. i.inventory = [field \in EnvFields |-> i.inventory[field]]
  BY <1>1, KeysAssumption
<1>3. DOMAIN i.inventory = EnvFields
  BY <1>2
<1>4. Recorded(i.inventory)
  BY <1>2, <1>3 DEF Recorded
<1> QED
  BY <1>1, <1>4 DEF Inventory

LEMMA SweepInit == Init => SweepInv
<1> SUFFICES ASSUME Init PROVE SweepInv
  OBVIOUS
<1>1. /\ input \in Inputs /\ env = Inventory /\ att = NoFacts /\ eph = NoGoals
      /\ rule = 1 /\ changed = FALSE
  BY DEF Init
<1>2. Recorded(env) /\ Recorded(att) /\ Recorded(eph)
  BY <1>1, InventoryRecorded, FactsRecorded
<1> QED
  BY <1>1, <1>2, SweepStarts

LEMMA SweepNext ==
    ASSUME UidsApart, PodsApart, PlansApart, ResultsInv, TokenInv, CountInv, RunInv, SweepInv, [Next]_vars
    PROVE  SweepInv'
<1>0. /\ input \in Inputs /\ Recorded(env) /\ Recorded(att) /\ Recorded(eph)
      /\ phase = "begin" => rule = 1 /\ changed = FALSE
  BY DEF ResultsInv, SweepInv
<1>1. CASE BeginHistory
  <2>1. /\ rule' = 1 /\ changed' = FALSE /\ eph' = eph
        /\ \E x : env' = [Inventory EXCEPT !.pods = x]
        /\ \E x : att' = [InitialFacts EXCEPT !.pods = x]
    BY <1>0, <1>1 DEF BeginHistory, HistoryEnv
  <2>2. Recorded(env') /\ Recorded(att') /\ Recorded(eph')
    BY <1>0, <2>1, ExceptRecorded
  <2> QED
    BY <2>1, <2>2, SweepRestarts
<1>2. CASE BeginMain
  <2>1. /\ rule' = 1 /\ changed' = FALSE /\ eph' = eph
        /\ env' = Reconcile(Inventory) /\ att' = InitialFacts
    BY <1>0, <1>2 DEF BeginMain
  <2>2. Recorded(env') /\ Recorded(att') /\ Recorded(eph')
    BY <1>0, <2>1, ReconcileRecorded, FactsRecorded
  <2> QED
    BY <2>1, <2>2, SweepRestarts
<1>3. CASE Rule
  <2>1. PICK i, h, n, e, a, g :
           i = input /\ h = HistoryEnv(View) /\ n = interval /\ e = env /\ a = att /\ g = eph
    OBVIOUS
  <2>2. At(i, h, n, e, a, g)
    BY <1>3, <2>1, RuleApplied, Here
  <2> QED
    BY <1>3, <2>2, SweepRule
<1>4. CASE EndHistory \/ Remediate
  <2>1. /\ rule' = 1 /\ changed' = FALSE /\ eph' = NoGoals /\ att' = att
        /\ \E e : env' = Reconcile(e)
    BY <1>4 DEF EndHistory, Remediate, EnterInterval
  <2>2. Recorded(env') /\ Recorded(att') /\ Recorded(eph')
    BY <1>0, <2>1, ReconcileRecorded, FactsRecorded
  <2> QED
    BY <2>1, <2>2, SweepRestarts
<1>5. CASE FinishView \/ ExceedBounds
  <2>1. /\ rule' = 1 /\ changed' = FALSE /\ eph' = NoGoals /\ att' = NoFacts
        /\ env' = Inventory
    BY <1>5 DEF FinishView, ExceedBounds, EndView, EnterInterval
  <2>2. Recorded(env') /\ Recorded(att') /\ Recorded(eph')
    BY <1>0, <2>1, InventoryRecorded, FactsRecorded
  <2> QED
    BY <2>1, <2>2, SweepRestarts
<1>6. CASE UNCHANGED vars
  <2>1. /\ input' = input /\ phase' = phase /\ interval' = interval /\ env' = env /\ att' = att
        /\ eph' = eph /\ rule' = rule /\ changed' = changed
    BY <1>6 DEF vars
  <2>2. \A j : Quiet(j) => Quiet(j)'
    BY <2>1, QuietStays
  <2> QED
    BY <2>1, <2>2 DEF SweepInv
<1> QED
  BY <1>1, <1>2, <1>3, <1>4, <1>5, <1>6 DEF Next, Rule, Stop

(* The run of a view, action by action.                                    *)
LEMMA RunInit == Init => RunInv
BY DEF Init, RunInv

LEMMA RunNext ==
    ASSUME UidsApart, PodsApart, PlansApart, IdsApart, ResultsInv, TokenInv, CountInv, RunInv, SweepInv,
           [Next]_vars
    PROVE  RunInv'
<1>1. CASE BeginHistory \/ BeginMain
  BY <1>1, RunBegins
<1>2. CASE Rule
  BY <1>2, RunRule
<1>3. CASE EndHistory \/ Remediate
  BY <1>3, RunIntervals
<1>4. CASE FinishView \/ ExceedBounds
  <2>1. phase' = "begin"
    BY <1>4 DEF FinishView, ExceedBounds, EndView
  <2> QED
    BY <2>1 DEF RunInv
<1>5. CASE UNCHANGED vars
  <2>1. /\ input' = input /\ phase' = phase /\ interval' = interval /\ env' = env /\ att' = att
        /\ eph' = eph /\ view' = view
    BY <1>5 DEF vars
  <2>2. CASE phase = "begin"
    BY <2>1, <2>2 DEF RunInv
  <2>3. CASE phase # "begin"
    <3>1. PICK v, i, h, F, from : /\ v = View /\ i = input /\ h = HistoryEnv(v) /\ F = Seeds(v)
                                  /\ from = First(v)
      OBVIOUS
    <3>2. PICK m, f, b, q : m = interval' /\ f = env' /\ b = att' /\ q = eph'
      OBVIOUS
    <3>3. /\ phase' = "history" => HasHistory(v)
          /\ Site(i, h, m, f, b) /\ Left(i, h, F, from, m, f, b, q) /\ Right(i, h, F, from, m, f, b)
      BY <2>1, <2>3, <3>1, <3>2 DEF RunInv
    <3> QED
      BY <2>1, <3>1, <3>2, <3>3, RunGoesOn
  <2> QED
    BY <2>2, <2>3
<1> QED
  BY <1>1, <1>2, <1>3, <1>4, <1>5 DEF Next, Rule, Stop

(* What the views reached.                                                 *)
LEMMA OutcomesInit == Init => OutcomesInv
BY DEF Init, OutcomesInv

LEMMA OutcomesStay ==
    ASSUME OutcomesInv, input' = input, view' = view, outcome' = outcome
    PROVE  OutcomesInv'
<1>1. \A v : HistoryEnv(v)' = HistoryEnv(v) /\ First(v)' = First(v) /\ Seeds(v)' = Seeds(v)
  BY InputFixed
<1>2. ASSUME NEW v, NEW k, k \in 1..2 /\ k < view' /\ v = Views[k]
      PROVE  Decided(input', HistoryEnv(v)', Seeds(v)', First(v)', outcome'[k])
  BY <1>1, <1>2 DEF OutcomesInv
<1> QED
  BY <1>2 DEF OutcomesInv

LEMMA OutcomeAdded ==
    ASSUME OutcomesInv, ResultsInv, phase # "begin", NEW o,
           outcome' = Append(outcome, o), view' = view + 1, input' = input,
           \A v : v = View => Decided(input, HistoryEnv(v), Seeds(v), First(v), o)
    PROVE  OutcomesInv'
<1>1. \A v : HistoryEnv(v)' = HistoryEnv(v) /\ First(v)' = First(v) /\ Seeds(v)' = Seeds(v)
  BY InputFixed
<1>2. view \in 1..2 /\ (view = 1 => outcome = <<>>) /\ (view = 2 => \E a : outcome = <<a>>)
  BY DEF ResultsInv
<1>3. outcome'[view] = o /\ \A k \in 1..2 : k < view => outcome'[k] = outcome[k]
  <2>1. CASE view = 1
    <3>1. outcome' = <<o>>
      BY <1>2, <2>1
    <3> QED
      BY <2>1, <3>1
  <2>2. CASE view = 2
    <3>1. PICK a : outcome = <<a>>
      BY <1>2, <2>2
    <3>2. Append(<<a>>, o) = <<a, o>>
      BY AppendSecond
    <3>4. outcome' = <<a, o>>
      BY <3>1, <3>2
    <3>3. \A k \in 1..2 : k < view => k = 1
      BY <2>2
    <3> QED
      BY <2>2, <3>1, <3>3, <3>4
  <2> QED
    BY <1>2, <2>1, <2>2
<1>4. ASSUME NEW v, NEW k, k \in 1..2 /\ k < view' /\ v = Views[k]
      PROVE  Decided(input', HistoryEnv(v)', Seeds(v)', First(v)', outcome'[k])
  <2>1. k < view \/ k = view
    BY <1>2, <1>4
  <2>2. CASE k < view
    <3>1. Decided(input, HistoryEnv(v), Seeds(v), First(v), outcome[k])
      BY <1>4, <2>2 DEF OutcomesInv
    <3> QED
      BY <1>1, <1>3, <1>4, <2>2, <3>1
  <2>3. CASE k = view
    <3>1. Decided(input, HistoryEnv(v), Seeds(v), First(v), o)
      BY <1>4, <2>3 DEF View
    <3> QED
      BY <1>1, <1>3, <2>3, <3>1
  <2> QED
    BY <2>1, <2>2, <2>3
<1> QED
  BY <1>4 DEF OutcomesInv

LEMMA OutcomesNext ==
    ASSUME UidsApart, PodsApart, PlansApart, ResultsInv, TokenInv, CountInv, RunInv, SweepInv,
           OutcomesInv, [Next]_vars
    PROVE  OutcomesInv'
<1>1. CASE BeginHistory \/ BeginMain \/ Rule \/ EndHistory \/ Remediate \/ UNCHANGED vars
  <2>1. input' = input /\ view' = view /\ outcome' = outcome
    BY <1>1, RuleApplied DEF BeginHistory, BeginMain, EndHistory, Remediate, vars
  <2> QED
    BY <2>1, OutcomesStay
<1>2. CASE FinishView
  <2>1. PICK o : /\ outcome' = Append(outcome, o) /\ o.goals = eph
                 /\ view' = view + 1 /\ input' = input
    BY <1>2 DEF FinishView, EndView
  <2>2. /\ phase = "main" /\ rule = Closed /\ interval = Len(input.remediation)
    BY <1>2 DEF FinishView
  <2>3. ASSUME NEW v, v = View
        PROVE  Decided(input, HistoryEnv(v), Seeds(v), First(v), o)
    <3>1. PICK i, h, F, from : i = input /\ h = HistoryEnv(v) /\ F = Seeds(v) /\ from = First(v)
      OBVIOUS
    <3>2. PICK n, e, a, g : n = interval /\ e = env /\ a = att /\ g = eph
      OBVIOUS
    <3>3. /\ At(i, h, n, e, a, g) /\ Frame(i, h, n, e) /\ Saturated(i, n, e, a, g)
          /\ Left(i, h, F, from, n, e, a, g) /\ Right(i, h, F, from, n, e, a)
          /\ from \in Int /\ n \in Int /\ from <= n /\ n <= Last(i) /\ Last(i) \in Nat
      BY <2>2, <2>3, <3>1, <3>2, RunClosed
    <3>4. n = Last(i) /\ o.goals = g
      BY <2>1, <2>2, <3>1, <3>2 DEF Last
    <3>5. \A D : Chain(i, h, F, from, D, Last(i)) =>
             /\ g.reads \subseteq D[Last(i)].eph.reads /\ g.uses \subseteq D[Last(i)].eph.uses
      BY <3>3, <3>4 DEF Left, Covered
    <3>6. \E D : Chain(i, h, F, from, D, n) /\ D[n].env = e /\ D[n].att = a /\ D[n].eph = g
      BY <3>3, RightCloses
    <3>7. Decided(i, h, F, from, o)
      BY <3>4, <3>5, <3>6 DEF Decided
    <3> QED
      BY <3>1, <3>7
  <2> QED
    BY <2>1, <2>2, <2>3, OutcomeAdded
<1>3. CASE ExceedBounds
  <2>1. PICK o : /\ outcome' = Append(outcome, o) /\ o.bounds_exceeded = TRUE
                 /\ view' = view + 1 /\ input' = input
    BY <1>3 DEF ExceedBounds, EndView
  <2>2. phase # "begin"
    BY <1>3 DEF ExceedBounds, Sweeping
  <2>3. \A v : v = View => Decided(input, HistoryEnv(v), Seeds(v), First(v), o)
    BY <2>1 DEF Decided
  <2> QED
    BY <2>1, <2>2, <2>3, OutcomeAdded
<1> QED
  BY <1>1, <1>2, <1>3 DEF Next, Rule, Stop

(* What the evidence supports is possible, and the possible past only adds *)
(* to it.                                                                  *)
LEMMA ViewsNest ==
    ASSUME NEW v, NEW w, v = "evidence_supported", w = "conservative_possible"
    PROVE  First(v) = 0 /\ First(w) \in {HistoryInterval, 0} /\ Persists(Seeds(v), Seeds(w))
<1>1. \A kind : Believed(kind, v) \subseteq Believed(kind, w)
  BY DEF Believed
<1>2. ~HasHistory(v)
  BY DEF HasHistory
<1>3. PICK F, G : F = Seeds(v) /\ G = Seeds(w)
  OBVIOUS
<1>4. /\ F.pods \subseteq G.pods /\ F.controllers \subseteq G.controllers
      /\ F.secrets \subseteq G.secrets /\ F.downstream \subseteq G.downstream
      /\ F.credentials \subseteq G.credentials
  BY <1>1, <1>2, <1>3 DEF Seeds
<1>5. Persists(F, G)
  BY <1>4, SamePersists
<1> QED
  BY <1>2, <1>3, <1>5 DEF First

LEMMA ChainLater ==
    ASSUME NEW i, NEW h, NEW hh, NEW F, NEW G, Persists(F, G), NEW from \in {HistoryInterval, 0},
           NEW n \in Nat, NEW D, Chain(i, hh, G, from, D, n)
    PROVE  Chain(i, h, F, 0, D, n)
<1>1. from = -1 \/ from = 0
  BY DEF HistoryInterval
<1>2. \A k \in 0..n : k \in from..n /\ k # HistoryInterval
  BY <1>1 DEF HistoryInterval
<1>3. \A k \in 0..n : Frame(i, h, k, D[k].env) /\ Saturated(i, k, D[k].env, D[k].att, D[k].eph)
  BY <1>2 DEF Chain, Frame
<1>4. \A k \in 0..(n - 1) : k \in from..(n - 1)
  BY <1>1
<1>5. \A k \in 0..(n - 1) : Carries(i, k, D[k], D[k + 1].env, D[k + 1].att)
  BY <1>4 DEF Chain
<1>6. Persists(F, D[from].att)
  <2>1. from <= n
    BY <1>1
  <2>2. Persists(G, D[from].att)
    BY <2>1 DEF Chain
  <2> QED
    BY <2>2, PersistsTransitive
<1>7. Persists(F, D[0].att)
  <2>1. CASE from = 0
    BY <1>6, <2>1
  <2>2. CASE from = -1
    <3>1. -1 \in from..(n - 1) /\ (-1) + 1 = 0
      BY <2>2
    <3>2. Carries(i, -1, D[-1], D[0].env, D[0].att)
      BY <3>1 DEF Chain
    <3>3. Persists(D[-1].att, D[0].att)
      BY <3>2 DEF Carries
    <3> QED
      BY <1>6, <2>2, <3>3, PersistsTransitive
  <2> QED
    BY <1>1, <2>1, <2>2
<1> QED
  BY <1>3, <1>5, <1>7 DEF Chain

LEMMA OutcomesOrdered ==
    ASSUME ResultsInv, OutcomesInv
    PROVE  ViewsOrdered
<1> SUFFICES ASSUME view = 3, ~outcome[1].bounds_exceeded, ~outcome[2].bounds_exceeded
             PROVE  /\ outcome[1].goals.reads \subseteq outcome[2].goals.reads
                    /\ outcome[1].goals.uses \subseteq outcome[2].goals.uses
  BY DEF ViewsOrdered, Done
<1>1. PICK i, v, w : i = input /\ v = Views[1] /\ w = Views[2]
  OBVIOUS
<1>2. Last(i) \in Nat
  BY <1>1, CaseAssumption DEF ResultsInv, Last
<1>3. v = "evidence_supported" /\ w = "conservative_possible"
  BY <1>1 DEF Views
<1>4. 1 \in 1..2 /\ 1 < view /\ 2 \in 1..2 /\ 2 < view
  OBVIOUS
<1>5. /\ Decided(i, HistoryEnv(v), Seeds(v), First(v), outcome[1])
      /\ Decided(i, HistoryEnv(w), Seeds(w), First(w), outcome[2])
  BY <1>1, <1>4 DEF OutcomesInv
<1>6. PICK D : /\ Chain(i, HistoryEnv(w), Seeds(w), First(w), D, Last(i))
               /\ D[Last(i)].eph = outcome[2].goals
  BY <1>5 DEF Decided
<1>7. First(v) = 0 /\ First(w) \in {HistoryInterval, 0} /\ Persists(Seeds(v), Seeds(w))
  BY <1>3, ViewsNest
<1>8. Chain(i, HistoryEnv(v), Seeds(v), 0, D, Last(i))
  BY <1>2, <1>6, <1>7, ChainLater
<1>9. /\ outcome[1].goals.reads \subseteq D[Last(i)].eph.reads
      /\ outcome[1].goals.uses \subseteq D[Last(i)].eph.uses
  BY <1>5, <1>7, <1>8 DEF Decided
<1> QED
  BY <1>6, <1>9

(* run_view, all in all.                                                   *)
AnalysisInv ==
    ResultsInv /\ TokenInv /\ CountInv /\ SweepInv /\ RunInv /\ OutcomesInv

LEMMA AnalysisInit == Init => AnalysisInv
BY ResultsInit, TokenInit, CountInit, SweepInit, RunInit, OutcomesInit DEF AnalysisInv

LEMMA AnalysisNext ==
    ASSUME UidsApart, PodsApart, FactsApart, PlansApart, IdsApart, AnalysisInv, [Next]_vars
    PROVE  AnalysisInv'
<1>1. ResultsInv /\ TokenInv /\ CountInv /\ SweepInv /\ RunInv /\ OutcomesInv
  BY DEF AnalysisInv
<1>2. ResultsInv' /\ TokenInv' /\ CountInv'
  BY <1>1, ResultsNext, TokenNext, CountNext
<1>3. SweepInv' /\ RunInv' /\ OutcomesInv'
  BY <1>1, SweepNext, RunNext, OutcomesNext
<1> QED
  BY <1>2, <1>3 DEF AnalysisInv

(* The conservative view of analyze covers the evidence-supported one:     *)
(* whatever the input and its remediation, every read and every use that   *)
(* run_view reaches in the last interval of the first it reaches in the    *)
(* second, if both were run to their end.  An objective that the evidence  *)
(* shows violated is never one that the conservative view proves held.     *)
THEOREM ConservativeCovers ==
    ASSUME UidsApart, PodsApart, FactsApart, PlansApart, IdsApart
    PROVE  Spec => []ViewsOrdered
<1>1. AnalysisInv => ViewsOrdered
  BY OutcomesOrdered DEF AnalysisInv
<1> QED
  BY <1>1, AnalysisInit, AnalysisNext, PTL DEF Spec

-----------------------------------------------------------------------------
(* The reference checker.                                                  *)

(* Its attacker a as one of the engine's, with the downstream credentials  *)
(* K.                                                                      *)
RefFields == {"credentials", "pods", "controllers", "secrets"}
Seen(a, K) ==
    [credentials |-> a.credentials, pods |-> a.pods, controllers |-> a.controllers,
     secrets |-> a.secrets, downstream |-> K]

LEMMA SeenFields ==
    ASSUME NEW a, NEW K, NEW s, s = Seen(a, K)
    PROVE  /\ DOMAIN s = AttFields /\ s.credentials = a.credentials /\ s.pods = a.pods
           /\ s.controllers = a.controllers /\ s.secrets = a.secrets /\ s.downstream = K
BY DEF Seen, AttFields

RefNow == IF stage = "history" THEN HistoryInterval ELSE taken

(* Where a path of explore is.                                             *)
PathAt(i, h, n, e, a) ==
    /\ i = input /\ h = HistoryEnv(rview) /\ n = RefNow /\ e = renv /\ a = Seen(ratt, {})
    /\ Ground(i, h) /\ Site(i, h, n, e, a) /\ DOMAIN ratt = RefFields
    /\ stage \in {"history", "main"} /\ taken \in 0..Last(i) /\ Last(i) \in Nat

LEMMA PathFields ==
    ASSUME NEW i, NEW h, NEW n, NEW e, NEW a, PathAt(i, h, n, e, a)
    PROVE  /\ DOMAIN a = AttFields /\ a.credentials = ratt.credentials /\ a.pods = ratt.pods
           /\ a.controllers = ratt.controllers /\ a.secrets = ratt.secrets /\ a.downstream = {}
BY SeenFields DEF PathAt

(* _cred_ok looks at the earliest time of the window.                      *)
LEMMA EarliestValid ==
    ASSUME NEW i, NEW h, NEW n, NEW e, NEW a, PathAt(i, h, n, e, a),
           NEW c, c.expires_at = None \/ c.expires_at \in Int
    PROVE  c.expires_at = None \/ Earliest(c) < c.expires_at <=> Valid(i, n, e, c)
<1>1. /\ e = renv /\ i = input /\ e.time \in Int /\ stage \in {"history", "main"}
      /\ n = HistoryInterval <=> stage = "history"
  BY DEF PathAt, Site, RefNow, HistoryInterval
<1>2. CASE c.expires_at = None
  BY <1>2 DEF Valid
<1>3. CASE c.expires_at # None /\ stage # "history"
  <2>1. Earliest(c) = e.time
    BY <1>1, <1>3 DEF Earliest
  <2> QED
    BY <1>1, <1>3, <2>1 DEF Valid
<1>4. CASE c.expires_at # None /\ stage = "history"
  <2>1. Earliest(c) = IF i.history_start # None THEN i.history_start ELSE c.expires_at - 1
    BY <1>1, <1>4 DEF Earliest
  <2>2. c.expires_at - 1 < c.expires_at
    BY <1>4
  <2> QED
    BY <1>1, <1>4, <2>1, <2>2 DEF Valid
<1> QED
  BY <1>2, <1>3, <1>4

LEMMA RefActs ==
    ASSUME NEW i, NEW h, NEW n, NEW e, NEW a, PathAt(i, h, n, e, a), NEW x
    PROVE  x \in ActingAs <=> Actor(i, n, e, a, x)
<1>0. e = renv /\ Site(i, h, n, e, a) /\ a.credentials = ratt.credentials
  BY PathFields DEF PathAt
<1>1. ASSUME NEW c \in a.credentials
      PROVE  CredOk(c) <=> Works(i, n, e, c)
  <2>1. c.expires_at = None \/ c.expires_at \in Int
    BY <1>0 DEF Site, TokenShape
  <2>2. c.expires_at = None \/ Earliest(c) < c.expires_at <=> Valid(i, n, e, c)
    BY <2>1, EarliestValid
  <2> QED
    BY <1>0, <2>2 DEF CredOk, CredentialUsable, Works
<1>2. x \in ActingAs <=> \E c \in a.credentials : CredOk(c) /\ c.account = x
  BY <1>0 DEF ActingAs
<1> QED
  BY <1>1, <1>2 DEF Actor

(* The steps of the attacker.                                              *)
LEMMA RefObtains ==
    ASSUME NEW i, NEW h, NEW n, NEW e, NEW a, PathAt(i, h, n, e, a),
           NEW t \in RefObtain, Take("credentials", t), NEW b, b = Seen(ratt', {})
    PROVE  Step(i, h, n, e, a, NoGoals, e, b, NoGoals) /\ DOMAIN ratt' = RefFields
<1>1. /\ e = renv /\ Ground(i, h) /\ Site(i, h, n, e, a) /\ DOMAIN ratt = RefFields
      /\ DOMAIN a = AttFields /\ a.credentials = ratt.credentials /\ a.pods = ratt.pods
      /\ a.controllers = ratt.controllers /\ a.secrets = ratt.secrets /\ a.downstream = {}
  BY PathFields DEF PathAt
<1>2. ratt' = [ratt EXCEPT !.credentials = @ \cup {t}]
  BY DEF Take
<1>3. /\ DOMAIN ratt' = RefFields /\ ratt'.credentials = ratt.credentials \cup {t}
      /\ ratt'.pods = ratt.pods /\ ratt'.controllers = ratt.controllers /\ ratt'.secrets = ratt.secrets
  BY <1>1, <1>2 DEF RefFields
<1>4. /\ b.credentials = a.credentials \cup {t} /\ b.pods = a.pods /\ b.controllers = a.controllers
      /\ b.secrets = a.secrets /\ b.downstream = a.downstream
  BY <1>1, <1>3, SeenFields
<1>5. {t} \subseteq TokensFrom(e, a.pods)
  BY <1>1 DEF RefObtain
<1>6. Persists(a, b)
  BY <1>4, SamePersists
<1> QED
  BY <1>1, <1>3, <1>4, <1>5, <1>6, StepObtains

LEMMA RefTakes ==
    ASSUME NEW i, NEW h, NEW n, NEW e, NEW a, PathAt(i, h, n, e, a),
           NEW u \in RefControl, Take("pods", u), NEW b, b = Seen(ratt', {})
    PROVE  Step(i, h, n, e, a, NoGoals, e, b, NoGoals) /\ DOMAIN ratt' = RefFields
<1>1. /\ e = renv /\ Site(i, h, n, e, a) /\ DOMAIN ratt = RefFields
      /\ DOMAIN a = AttFields /\ a.credentials = ratt.credentials /\ a.pods = ratt.pods
      /\ a.controllers = ratt.controllers /\ a.secrets = ratt.secrets /\ a.downstream = {}
  BY PathFields DEF PathAt
<1>2. ratt' = [ratt EXCEPT !.pods = @ \cup {u}]
  BY DEF Take
<1>3. /\ DOMAIN ratt' = RefFields /\ ratt'.pods = ratt.pods \cup {u}
      /\ ratt'.credentials = ratt.credentials /\ ratt'.controllers = ratt.controllers
      /\ ratt'.secrets = ratt.secrets
  BY <1>1, <1>2 DEF RefFields
<1>4. Takes(b, a, {u})
  BY <1>1, <1>3, SeenFields DEF Takes
<1>5. PICK p \in e.pods :
         /\ p.uid = u
         /\ \/ p.controller \in a.controllers
            \/ \E x : x \in ActingAs /\ MayExec(e, x, p)
  BY <1>1 DEF RefControl, MayExec
<1>6. p.controller \in a.controllers \/ \E x : Actor(i, n, e, a, x) /\ MayExec(e, x, p)
  BY <1>5, RefActs
<1>7. PICK T : T = {u}
  OBVIOUS
<1>8. \A y \in T : \E q \in e.pods :
         /\ q.uid = y
         /\ \/ q.controller \in a.controllers
            \/ \E x : Actor(i, n, e, a, x) /\ MayExec(e, x, q)
  BY <1>5, <1>6, <1>7
<1>9. Takes(b, a, T)
  BY <1>4, <1>7
<1>10. Site(i, h, n, e, a)
  BY <1>1
<1>11. \A g : Step(i, h, n, e, a, g, e, b, g)
  BY <1>8, <1>9, <1>10, StepTakes, Zenon
<1> QED
  BY <1>3, <1>11

LEMMA RefReads ==
    ASSUME NEW i, NEW h, NEW n, NEW e, NEW a, PathAt(i, h, n, e, a),
           NEW k \in RefRead, Take("secrets", k), NEW b, b = Seen(ratt', {})
    PROVE  Step(i, h, n, e, a, NoGoals, e, b, NoGoals) /\ DOMAIN ratt' = RefFields
<1>1. /\ e = renv /\ Site(i, h, n, e, a) /\ DOMAIN ratt = RefFields
      /\ DOMAIN a = AttFields /\ a.credentials = ratt.credentials /\ a.pods = ratt.pods
      /\ a.controllers = ratt.controllers /\ a.secrets = ratt.secrets /\ a.downstream = {}
  BY PathFields DEF PathAt
<1>2. ratt' = [ratt EXCEPT !.secrets = @ \cup {k}]
  BY DEF Take
<1>3. /\ DOMAIN ratt' = RefFields /\ ratt'.secrets = ratt.secrets \cup {k}
      /\ ratt'.credentials = ratt.credentials /\ ratt'.controllers = ratt.controllers
      /\ ratt'.pods = ratt.pods
  BY <1>1, <1>2 DEF RefFields
<1>4. Learns(b, a, {k}, {}) /\ Reaches(NoGoals, NoGoals, {}, {})
  BY <1>1, <1>3, SeenFields DEF Learns, Reaches, NoGoals
<1>5. PICK s \in e.secrets : k = <<s.secret, s.version>> /\ \E x \in ActingAs : CanReadSecret(e, x, s.secret)
  BY <1>1 DEF RefRead
<1>6. \E x : Actor(i, n, e, a, x) /\ CanReadSecret(e, x, s.secret)
  BY <1>5, RefActs
<1>7. Finds(i, n, e, a, {k}, {}, {}, {})
  BY <1>5, <1>6 DEF Finds
<1> QED
  BY <1>1, <1>3, <1>4, <1>7, StepLearns

(* The counter of a name goes up.                                          *)
LEMMA CountedFacts ==
    ASSUME Formed(renv), NEW s, NEW m, m = Counted(s)
    PROVE  /\ \A u \in DOMAIN m : m[u] \in Int /\ m[u] >= -1
           /\ \A u : u # s => /\ u \in DOMAIN m <=> u \in DOMAIN renv.counter
                              /\ u \in DOMAIN m => m[u] = renv.counter[u]
<1>1. PICK c : c = renv.counter
  OBVIOUS
<1>2. PICK j : j = SeqOf(s)
  OBVIOUS
<1>3. \A u \in DOMAIN c : c[u] \in Int /\ c[u] >= -1
  BY <1>1 DEF Formed
<1>4. j \in Int /\ j >= -1
  BY <1>1, <1>2, <1>3 DEF SeqOf
<1>5. m = [k \in DOMAIN c \cup {s} |-> IF k = s THEN j + 1 ELSE c[k]]
  BY <1>1, <1>2 DEF Counted
<1>6. DOMAIN m = DOMAIN c \cup {s} /\ \A k \in DOMAIN m : m[k] = IF k = s THEN j + 1 ELSE c[k]
  BY <1>5
<1>7. ASSUME NEW u \in DOMAIN m PROVE m[u] \in Int /\ m[u] >= -1
  <2>1. CASE u = s
    BY <1>4, <1>6, <2>1
  <2>2. CASE u # s
    BY <1>3, <1>6, <2>2
  <2> QED
    BY <2>1, <2>2
<1> QED
  BY <1>1, <1>6, <1>7

LEMMA Numbered ==
    ASSUME NEW e, Formed(e), NEW s, MadeController(s), NEW m,
           \A u \in DOMAIN m : m[u] \in Int /\ m[u] >= -1,
           \A u : u # s => /\ u \in DOMAIN m <=> u \in DOMAIN e.counter
                           /\ u \in DOMAIN m => m[u] = e.counter[u],
           NEW r, DOMAIN r = EnvFields, r.counter = m,
           r.time = e.time, r.accounts = e.accounts, r.bindings = e.bindings,
           r.secrets = e.secrets, r.services = e.services,
           NEW P, NEW C, IsFiniteSet(P), IsFiniteSet(C), r.pods = e.pods \cup P, r.controllers = e.controllers \cup C,
           \A p \in P : MadePod(p.uid) /\ p.controller = None,
           \A c \in C : MadeController(c.uid) /\ c.uid # None
    PROVE  Formed(r) /\ Same(r, e)
<1>1. IsFiniteSet(e.pods \cup P) /\ IsFiniteSet(e.controllers \cup C)
  BY FS_Union DEF Formed
<1>2. \A u : ~MadeController(u) => SameCounter(r, e, u)
  BY DEF SameCounter
<1>3. Same(r, e)
  BY <1>2 DEF Same
<1>4. Formed(r)
  BY <1>1 DEF Formed
<1> QED
  BY <1>3, <1>4

LEMMA RefCreatable ==
    ASSUME NEW i, NEW h, NEW n, NEW e, NEW a, PathAt(i, h, n, e, a),
           NEW kind, NEW objects, NEW prefix, NEW y \in RefCreate(kind, objects, prefix)
    PROVE  HasAccount(e, y) /\ \E x : Actor(i, n, e, a, x) /\ MayCreate(e, x, kind, y)
<1>1. e = renv
  BY DEF PathAt
<1>2. HasAccount(e, y) /\ \E x : x \in ActingAs /\ MayCreate(e, x, kind, y)
  BY <1>1 DEF RefCreate, HasAccount, MayCreate
<1> QED
  BY <1>2, RefActs

LEMMA RefPodMade ==
    ASSUME NEW i, NEW h, NEW n, NEW e, NEW a, PathAt(i, h, n, e, a),
           NEW y \in RefPods, RefCreatePod(y), NEW f, f = renv', NEW b, b = Seen(ratt', {})
    PROVE  Step(i, h, n, e, a, NoGoals, f, b, NoGoals) /\ DOMAIN ratt' = RefFields
<1>1. /\ e = renv /\ Ground(i, h) /\ Site(i, h, n, e, a) /\ DOMAIN ratt = RefFields
      /\ DOMAIN a = AttFields /\ a.credentials = ratt.credentials /\ a.pods = ratt.pods
      /\ a.controllers = ratt.controllers /\ a.secrets = ratt.secrets /\ a.downstream = {}
      /\ Formed(e) /\ DOMAIN e = EnvFields
  BY PathFields DEF PathAt, Site, Frame, Formed
<1>2. PICK u, p, m : /\ u = <<"ref-pod", y, SeqOf(PodSeq)>>
                     /\ p = [uid |-> u, name |-> u, account |-> y, audiences |-> {}, controller |-> None]
                     /\ m = Counted(PodSeq)
  OBVIOUS
<1>3. /\ ratt' = [ratt EXCEPT !.pods = @ \cup {u}]
      /\ f = [e EXCEPT !.pods = @ \cup {p}, !.counter = m]
  BY <1>1, <1>2 DEF RefCreatePod
<1>4. /\ DOMAIN ratt' = RefFields /\ ratt'.pods = ratt.pods \cup {u}
      /\ ratt'.credentials = ratt.credentials /\ ratt'.controllers = ratt.controllers
      /\ ratt'.secrets = ratt.secrets
  BY <1>1, <1>3 DEF RefFields
<1>5. p.uid = u /\ p.account = y /\ p.audiences = {} /\ p.controller = None /\ UidsOf({p}) = {u}
  BY <1>2 DEF UidsOf
<1>6. Takes(b, a, UidsOf({p}))
  <2>1. /\ DOMAIN b = AttFields /\ b.credentials = a.credentials /\ b.controllers = a.controllers
        /\ b.secrets = a.secrets /\ b.downstream = a.downstream /\ b.pods = ratt'.pods
    BY <1>1, <1>4, SeenFields
  <2>2. b.pods = a.pods \cup UidsOf({p})
    BY <1>1, <1>4, <1>5, <2>1
  <2> QED
    BY <2>1, <2>2 DEF Takes
<1>7. /\ DOMAIN f = EnvFields /\ f.counter = m /\ f.time = e.time /\ f.accounts = e.accounts
      /\ f.bindings = e.bindings /\ f.secrets = e.secrets /\ f.services = e.services
      /\ f.pods = e.pods \cup {p} /\ f.controllers = e.controllers
  BY <1>1, <1>3 DEF EnvFields
<1>8. BareUid(y, u) /\ MadePod(u) /\ MadeController(PodSeq)
  BY <1>2, UidTells DEF BareUid, MadeController
<1>9. Formed(f) /\ Same(f, e)
  <2>1. /\ \A x \in DOMAIN m : m[x] \in Int /\ m[x] >= -1
        /\ \A x : x # PodSeq => /\ x \in DOMAIN m <=> x \in DOMAIN e.counter
                                /\ x \in DOMAIN m => m[x] = e.counter[x]
    BY <1>1, <1>2, CountedFacts
  <2>2. IsFiniteSet({p}) /\ IsFiniteSet({})
    BY FS_Singleton, FS_EmptySet
  <2>3. PICK P, C : P = {p} /\ C = {}
    OBVIOUS
  <2>4. /\ IsFiniteSet(P) /\ IsFiniteSet(C) /\ f.pods = e.pods \cup P /\ f.controllers = e.controllers \cup C
        /\ \A x \in P : MadePod(x.uid) /\ x.controller = None
        /\ \A x \in C : MadeController(x.uid) /\ x.uid # None
    BY <1>5, <1>7, <1>8, <2>2, <2>3
  <2>5. PICK s : s = PodSeq
    OBVIOUS
  <2> QED
    BY <1>1, <1>7, <1>8, <2>1, <2>4, <2>5, Numbered
<1>10. HasAccount(e, y) /\ \E x : Actor(i, n, e, a, x) /\ MayCreate(e, x, "pods", y)
  BY RefCreatable DEF RefPods
<1>11. PICK new : new = {p}
  OBVIOUS
<1>12. \A q \in new : /\ BareUid(q.account, q.uid) /\ q.controller = None /\ q.audiences = {}
                      /\ HasAccount(e, q.account)
                      /\ \E x : Actor(i, n, e, a, x) /\ MayCreate(e, x, "pods", q.account)
  BY <1>5, <1>8, <1>10, <1>11
<1> QED
  BY <1>1, <1>4, <1>6, <1>7, <1>9, <1>11, <1>12, StepPods

LEMMA RefControllerMade ==
    ASSUME UidsApart, NEW i, NEW h, NEW n, NEW e, NEW a, PathAt(i, h, n, e, a),
           NEW y \in RefControllers, RefCreateController(y), NEW f, f = renv', NEW b, b = Seen(ratt', {})
    PROVE  Step(i, h, n, e, a, NoGoals, f, b, NoGoals) /\ DOMAIN ratt' = RefFields
<1>1. /\ e = renv /\ Ground(i, h) /\ Site(i, h, n, e, a) /\ DOMAIN ratt = RefFields
      /\ DOMAIN a = AttFields /\ a.credentials = ratt.credentials /\ a.pods = ratt.pods
      /\ a.controllers = ratt.controllers /\ a.secrets = ratt.secrets /\ a.downstream = {}
      /\ Formed(e) /\ DOMAIN e = EnvFields
  BY PathFields DEF PathAt, Site, Frame, Formed
<1>2. PICK u, c, m : /\ u = <<"ref-deploy", y, SeqOf(DeploySeq)>>
                     /\ c = [uid |-> u, name |-> u, account |-> y, audiences |-> {}]
                     /\ m = Counted(DeploySeq)
  OBVIOUS
<1>r. PICK r : r = [e EXCEPT !.controllers = @ \cup {c}, !.counter = m]
  OBVIOUS
<1>3. ratt' = [ratt EXCEPT !.controllers = @ \cup {u}] /\ f = Reconcile(r)
  BY <1>1, <1>2, <1>r DEF RefCreateController
<1>4. /\ DOMAIN ratt' = RefFields /\ ratt'.controllers = ratt.controllers \cup {u}
      /\ ratt'.credentials = ratt.credentials /\ ratt'.pods = ratt.pods
      /\ ratt'.secrets = ratt.secrets
  BY <1>1, <1>3 DEF RefFields
<1>5. c.uid = u /\ c.account = y /\ c.audiences = {} /\ UidsOf({c}) = {u}
  BY <1>2 DEF UidsOf
<1>6. /\ b.controllers = a.controllers \cup UidsOf({c}) /\ b.pods = a.pods
      /\ b.credentials = a.credentials /\ b.secrets = a.secrets /\ b.downstream = a.downstream
  BY <1>1, <1>4, <1>5, SeenFields
<1>7. /\ DOMAIN r = EnvFields /\ r.counter = m /\ r.time = e.time /\ r.accounts = e.accounts
      /\ r.bindings = e.bindings /\ r.secrets = e.secrets /\ r.services = e.services
      /\ r.pods = e.pods /\ r.controllers = e.controllers \cup {c}
  BY <1>1, <1>r DEF EnvFields
<1>8. DeployUid(y, u) /\ MadeController(u) /\ MadeController(DeploySeq) /\ u # None
  BY <1>2, UidTells DEF DeployUid, MadeController, UidsApart
<1>9. Formed(r) /\ Same(r, e)
  <2>1. /\ \A x \in DOMAIN m : m[x] \in Int /\ m[x] >= -1
        /\ \A x : x # DeploySeq => /\ x \in DOMAIN m <=> x \in DOMAIN e.counter
                                   /\ x \in DOMAIN m => m[x] = e.counter[x]
    BY <1>1, <1>2, CountedFacts
  <2>2. IsFiniteSet({c}) /\ IsFiniteSet({})
    BY FS_Singleton, FS_EmptySet
  <2>3. PICK P, C : P = {} /\ C = {c}
    OBVIOUS
  <2>4. /\ IsFiniteSet(P) /\ IsFiniteSet(C) /\ r.pods = e.pods \cup P /\ r.controllers = e.controllers \cup C
        /\ \A x \in P : MadePod(x.uid) /\ x.controller = None
        /\ \A x \in C : MadeController(x.uid) /\ x.uid # None
    BY <1>5, <1>7, <1>8, <2>2, <2>3
  <2>5. PICK s : s = DeploySeq
    OBVIOUS
  <2> QED
    BY <1>1, <1>7, <1>8, <2>1, <2>4, <2>5, Numbered
<1>10. HasAccount(e, y) /\ \E x : Actor(i, n, e, a, x) /\ MayCreate(e, x, "deployments", y)
  BY RefCreatable DEF RefControllers
<1>11. PICK new : new = {c}
  OBVIOUS
<1>12. /\ new # {}
       /\ \A q \in new : /\ DeployUid(q.account, q.uid) /\ q.audiences = {}
                         /\ HasAccount(e, q.account)
                         /\ \E x : Actor(i, n, e, a, x) /\ MayCreate(e, x, "deployments", q.account)
  BY <1>5, <1>8, <1>10, <1>11
<1> QED
  BY <1>1, <1>3, <1>4, <1>6, <1>7, <1>9, <1>11, <1>12, StepControllers

LEMMA RefSteps ==
    ASSUME UidsApart, NEW i, NEW h, NEW n, NEW e, NEW a, PathAt(i, h, n, e, a), AttackerStep,
           NEW f, f = renv', NEW b, b = Seen(ratt', {})
    PROVE  /\ Step(i, h, n, e, a, NoGoals, f, b, NoGoals) /\ DOMAIN ratt' = RefFields
           /\ rview' = rview /\ stage' = stage /\ taken' = taken
<1>0. e = renv
  BY DEF PathAt
<1>1. CASE \E t \in RefObtain : Take("credentials", t)
  <2>1. f = e
    BY <1>0, <1>1 DEF Take
  <2> QED
    BY <1>1, <2>1, RefObtains DEF AttackerStep
<1>2. CASE \E p \in RefControl : Take("pods", p)
  <2>1. f = e
    BY <1>0, <1>2 DEF Take
  <2> QED
    BY <1>2, <2>1, RefTakes DEF AttackerStep
<1>3. CASE \E k \in RefRead : Take("secrets", k)
  <2>1. f = e
    BY <1>0, <1>3 DEF Take
  <2> QED
    BY <1>3, <2>1, RefReads DEF AttackerStep
<1>4. CASE \E y \in RefPods : RefCreatePod(y)
  BY <1>4, RefPodMade DEF AttackerStep
<1>5. CASE \E y \in RefControllers : RefCreateController(y)
  BY <1>5, RefControllerMade DEF AttackerStep
<1> QED
  BY <1>1, <1>2, <1>3, <1>4, <1>5 DEF AttackerStep

(* The secret that a service's credential comes from stays the same.       *)
Links(e) == {<<s.name, s.source>> : s \in e.services}
Linked(e) == \A s \in e.services : "name" \in DOMAIN s /\ "source" \in DOMAIN s

(* The credentials that the versions S of secrets lead to.                 *)
Leads(L, S) == UNION {{<<l[1], k[2]>> : k \in {x \in S : x[1] = l[2]}} : l \in L}

LEMMA InventoryLinked ==
    ASSUME NEW i \in Inputs
    PROVE  /\ Linked(i.inventory)
           /\ \A l, m \in Links(i.inventory) : l[1] = m[1] => l = m
<1>1. Linked(i.inventory)
  BY CaseAssumption, KeysAssumption DEF Linked
<1>2. ASSUME NEW l \in Links(i.inventory), NEW m \in Links(i.inventory), l[1] = m[1] PROVE l = m
  <2>1. PICK s \in i.inventory.services : l = <<s.name, s.source>>
    BY DEF Links
  <2>2. PICK t \in i.inventory.services : m = <<t.name, t.source>>
    BY DEF Links
  <2>3. s.name = t.name
    BY <1>2, <2>1, <2>2
  <2>4. s = t
    BY <2>3, KeysAssumption
  <2> QED
    BY <2>1, <2>2, <2>4
<1> QED
  BY <1>1, <1>2

LEMMA SameLinks ==
    ASSUME NEW e, NEW r, r.services = e.services
    PROVE  Links(r) = Links(e) /\ (Linked(e) => Linked(r))
BY DEF Links, Linked

LEMMA RotateLinks ==
    ASSUME NEW e, DOMAIN e = EnvFields, Linked(e), NEW a, NEW r, r = Rotate(e, a)
    PROVE  Links(r) = Links(e) /\ Linked(r)
<1> DEFINE Turned(s) == IF s \in {x \in e.services : x.name = a.service}
                        THEN RotateService(s, RotatedVersion(e, s), e.time) ELSE s
<1>1. r.services = {Turned(s) : s \in e.services}
  BY DEF Rotate, EnvFields
<1>2. ASSUME NEW s \in e.services
      PROVE  /\ Turned(s).name = s.name /\ Turned(s).source = s.source
             /\ "name" \in DOMAIN Turned(s) /\ "source" \in DOMAIN Turned(s)
  <2>1. "name" \in DOMAIN s /\ "source" \in DOMAIN s
    BY DEF Linked
  <2>2. ASSUME NEW v, NEW q, q = RotateService(s, v, e.time)
        PROVE  q.name = s.name /\ q.source = s.source /\ "name" \in DOMAIN q /\ "source" \in DOMAIN q
    BY <2>1, <2>2 DEF RotateService
  <2> QED
    BY <2>1, <2>2
<1> HIDE DEF Turned
<1>3. Linked(r)
  BY <1>1, <1>2 DEF Linked
<1>4. Links(r) = Links(e)
  <2>1. \A x \in Links(r) : x \in Links(e)
    BY <1>1, <1>2 DEF Links
  <2>2. \A x \in Links(e) : x \in Links(r)
    BY <1>1, <1>2 DEF Links
  <2> QED
    BY <2>1, <2>2
<1> QED
  BY <1>3, <1>4

LEMMA ApplyLinks ==
    ASSUME NEW e, DOMAIN e = EnvFields, Linked(e), NEW a, a.kind \in ActionKinds,
           NEW r, r = ApplyDefenderAction(e, a)
    PROVE  Links(r) = Links(e) /\ Linked(r)
<1>1. CASE a.kind = "remove_binding"
  <2>1. r = RemoveBinding(e, a)
    BY <1>1, ApplyCases
  <2>2. r.services = e.services
    BY <2>1 DEF RemoveBinding, EnvFields
  <2> QED
    BY <2>2, SameLinks
<1>2. CASE a.kind \in {"delete_pod", "delete_pods_except"}
  <2>1. r = DeletePods(e, {a.uid}) \/ r = DeletePods(e, Selected(e.pods, a))
    BY <1>2, ApplyCases
  <2>2. ASSUME NEW U, r = DeletePods(e, U) PROVE r.services = e.services
    BY <2>2 DEF DeletePods, EnvFields
  <2>3. r.services = e.services
    BY <2>1, <2>2
  <2> QED
    BY <2>3, SameLinks
<1>3. CASE a.kind \in {"delete_controller", "delete_controllers_except"}
  <2>1. r = DeleteControllers(e, {a.uid}) \/ r = DeleteControllers(e, Selected(e.controllers, a))
    BY <1>3, ApplyCases
  <2>2. ASSUME NEW U, r = DeleteControllers(e, U) PROVE r.services = e.services
    BY <2>2 DEF DeleteControllers, EnvFields
  <2>3. r.services = e.services
    BY <2>1, <2>2
  <2> QED
    BY <2>3, SameLinks
<1>4. CASE a.kind = "delete_service_account"
  <2>1. r = DeleteServiceAccount(e, a)
    BY <1>4, ApplyCases
  <2>2. r.services = e.services
    BY <2>1 DEF DeleteServiceAccount, EnvFields
  <2> QED
    BY <2>2, SameLinks
<1>5. CASE a.kind = "rotate_downstream_credential"
  <2>1. r = Rotate(e, a)
    BY <1>5, ApplyCases
  <2> QED
    BY <2>1, RotateLinks
<1>6. CASE a.kind = "wait"
  <2>1. r = [e EXCEPT !.time = @ + a.seconds]
    BY <1>6, ApplyCases
  <2>2. r.services = e.services
    BY <2>1 DEF EnvFields
  <2> QED
    BY <2>2, SameLinks
<1> QED
  BY <1>1, <1>2, <1>3, <1>4, <1>5, <1>6 DEF ActionKinds

LEMMA ReconcileLinks ==
    ASSUME NEW e, DOMAIN e = EnvFields, Linked(e), NEW r, r = Reconcile(e)
    PROVE  Links(r) = Links(e) /\ Linked(r)
<1>1. r.services = e.services
  BY ReconcileFacts
<1> QED
  BY <1>1, SameLinks

LEMMA RemediationLinks ==
    ASSUME NEW e, DOMAIN e = EnvFields, Linked(e), NEW a, a.kind \in ActionKinds,
           NEW r, r = Reconcile(ApplyDefenderAction(e, a))
    PROVE  Links(r) = Links(e) /\ Linked(r)
<1>1. PICK q : q = ApplyDefenderAction(e, a)
  OBVIOUS
<1>2. Links(q) = Links(e) /\ Linked(q)
  BY <1>1, ApplyLinks
<1>3. DOMAIN q = EnvFields
  BY <1>1, ApplyNarrows DEF Narrows
<1>4. Links(r) = Links(q) /\ Linked(r)
  BY <1>1, <1>2, <1>3, ReconcileLinks
<1> QED
  BY <1>2, <1>4

LEMMA RefLinks ==
    ASSUME DOMAIN renv = EnvFields, AttackerStep
    PROVE  Links(renv') = Links(renv) /\ (Linked(renv) => Linked(renv'))
<1>1. PICK e, f : e = renv /\ f = renv'
  OBVIOUS
<1>2. f.services = e.services
  <2>1. CASE (\E t \in RefObtain : Take("credentials", t)) \/ (\E p \in RefControl : Take("pods", p))
             \/ (\E k \in RefRead : Take("secrets", k))
    BY <1>1, <2>1 DEF Take
  <2>2. CASE \E a \in RefPods : RefCreatePod(a)
    <3>1. \E P, m : f = [e EXCEPT !.pods = P, !.counter = m]
      BY <1>1, <2>2 DEF RefCreatePod
    <3> QED
      BY <1>1, <3>1 DEF EnvFields
  <2>3. CASE \E a \in RefControllers : RefCreateController(a)
    <3>1. PICK C, m : f = Reconcile([e EXCEPT !.controllers = C, !.counter = m])
      BY <1>1, <2>3 DEF RefCreateController
    <3>2. PICK r : r = [e EXCEPT !.controllers = C, !.counter = m]
      OBVIOUS
    <3>3. DOMAIN r = EnvFields /\ r.services = e.services
      BY <1>1, <3>2 DEF EnvFields
    <3> QED
      BY <3>1, <3>2, <3>3, ReconcileFacts
  <2> QED
    BY <2>1, <2>2, <2>3 DEF AttackerStep
<1> QED
  BY <1>1, <1>2, SameLinks

(* The attacker of explore may have workloads of its own.                  *)
SomeLive == MaxLive \in Nat \ {0}

(* A path keeps to every chain of its view; one on which the attacker is   *)
(* done whenever the defender acts is one.                                 *)
PathInv ==
    /\ rview \in {"evidence_supported", "conservative_possible"}
    /\ stage \in {"history", "main"} /\ DOMAIN ratt = RefFields /\ taken \in 0..Last(input)
    /\ Links(renv) = Links(input.inventory) /\ Linked(renv)
    /\ \A v : v = rview =>
         /\ stage = "history" => HasHistory(v) /\ taken = 0
         /\ Site(input, HistoryEnv(v), RefNow, renv, Seen(ratt, {}))
         /\ Left(input, HistoryEnv(v), Seeds(v), First(v), RefNow, renv, Seen(ratt, {}), NoGoals)
         /\ eager /\ SomeLive => Right(input, HistoryEnv(v), Seeds(v), First(v), RefNow, renv,
                           Seen(ratt, Leads(Links(input.inventory), ratt.secrets)))

LEMMA PathGoesOn ==
    ASSUME PathInv, input' = input, rview' = rview, stage' \in {"history", "main"}, DOMAIN ratt' = RefFields,
           NEW v, v = rview, NEW i, NEW h, NEW F, NEW from, i = input, h = HistoryEnv(v), F = Seeds(v), from = First(v),
           taken' \in 0..Last(i), NEW n, n = RefNow', NEW f, f = renv', NEW b, b = Seen(ratt', {}),
           NEW k, k = Seen(ratt', Leads(Links(i.inventory), ratt'.secrets)),
           Links(f) = Links(i.inventory), Linked(f),
           stage' = "history" => HasHistory(v) /\ taken' = 0,
           Site(i, h, n, f, b), Left(i, h, F, from, n, f, b, NoGoals),
           eager' /\ SomeLive => Right(i, h, F, from, n, f, k)
    PROVE  PathInv'
<1>1. /\ HistoryEnv(v)' = HistoryEnv(v) /\ First(v)' = First(v) /\ Seeds(v)' = Seeds(v)
      /\ HasHistory(v)' = HasHistory(v)
  BY InputFixed
<1>2. ASSUME NEW w, w = rview'
      PROVE  /\ stage' = "history" => HasHistory(w)' /\ taken' = 0
             /\ Site(input', HistoryEnv(w)', RefNow', renv', Seen(ratt', {}))
             /\ Left(input', HistoryEnv(w)', Seeds(w)', First(w)', RefNow', renv', Seen(ratt', {}), NoGoals)
             /\ eager' /\ SomeLive => Right(input', HistoryEnv(w)', Seeds(w)', First(w)', RefNow', renv',
                                Seen(ratt', Leads(Links(input'.inventory), ratt'.secrets)))
  <2>1. w = v
    BY <1>2
  <2>2. Site(i, h, n, f, b) /\ Left(i, h, F, from, n, f, b, NoGoals) 
        /\ (eager' /\ SomeLive => Right(i, h, F, from, n, f, k))
    OBVIOUS
  <2> QED
    BY <1>1, <2>1, <2>2
<1>3. Links(renv') = Links(input'.inventory) /\ Linked(renv')
  OBVIOUS
<1>4. /\ rview' \in {"evidence_supported", "conservative_possible"}
      /\ stage' \in {"history", "main"} /\ DOMAIN ratt' = RefFields /\ taken' \in 0..Last(input')
  BY DEF PathInv
<1> QED
  BY <1>2, <1>3, <1>4 DEF PathInv

LEMMA PathHere ==
    ASSUME UidsApart, PodsApart, PlansApart, input \in Inputs, PathInv,
           NEW v, v = rview, NEW i, NEW h, NEW n, NEW e, NEW a, NEW from, from = First(v),
           i = input, h = HistoryEnv(v), n = RefNow, e = renv, a = Seen(ratt, {})
    PROVE  /\ PathAt(i, h, n, e, a)
           /\ from \in Int /\ n \in Int /\ from <= n /\ n <= Last(i) /\ n \in from..Last(i)
<1>1. Last(i) \in Nat
  BY CaseAssumption DEF Last
<1>2. Ground(i, h)
  BY GroundHolds
<1>3. Site(i, h, n, e, a) /\ (stage = "history" => HasHistory(v))
  BY DEF PathInv
<1>4. stage \in {"history", "main"} /\ DOMAIN ratt = RefFields /\ taken \in 0..Last(i)
  BY DEF PathInv
<1>5. from \in {-1, 0} /\ (stage = "history" => from = -1)
  BY <1>3 DEF First, HistoryInterval
<1>6. /\ from \in Int /\ n \in Int /\ from <= n /\ n <= Last(i) /\ n \in from..Last(i)
  <2>1. CASE stage = "history"
    <3>1. n = -1 /\ from = -1
      BY <1>5, <2>1 DEF RefNow, HistoryInterval
    <3> QED
      BY <1>1, <3>1
  <2>2. CASE stage # "history"
    <3>1. n = taken
      BY <2>2 DEF RefNow
    <3> QED
      BY <1>1, <1>4, <1>5, <3>1
  <2> QED
    BY <2>1, <2>2
<1> QED
  BY <1>1, <1>2, <1>3, <1>4, <1>6 DEF PathAt

(* A path begins.                                                          *)
LEMMA PathInit ==
    ASSUME UidsApart, PodsApart, PlansApart, IdsApart, DiffInit
    PROVE  PathInv
<1>1. PICK v : /\ v \in {"evidence_supported", "conservative_possible"} /\ RefInit(v)
  BY DEF DiffInit, Views
<1>2. input \in Inputs /\ eager = TRUE /\ rview = v /\ taken = 0
  BY <1>1 DEF DiffInit, Init, RefInit
<1>3. PICK i, h, F, from, n, e, a, L :
         /\ i = input /\ h = HistoryEnv(v) /\ F = Seeds(v) /\ from = First(v)
         /\ n = RefNow /\ e = renv /\ a = Seen(ratt, {}) /\ L = Links(i.inventory)
  OBVIOUS
<1>4. Last(i) \in Nat /\ DOMAIN i.inventory = EnvFields /\ i \in Inputs
  BY <1>2, <1>3, CaseAssumption DEF Last
<1>5. Ground(i, h) /\ \A c \in F.credentials : TokenShape(h, c)
  BY <1>2, <1>3, GroundHolds, SeedsShaped
<1>6. /\ DOMAIN ratt = RefFields /\ ratt.credentials = F.credentials /\ ratt.pods = F.pods
      /\ ratt.controllers = F.controllers /\ ratt.secrets = F.secrets /\ F.downstream = {}
  BY <1>1, <1>3 DEF RefInit, RefFields, Seeds
<1>7. a = F
  BY <1>3, <1>6 DEF Seen, Seeds
<1>8. Linked(i.inventory)
  BY <1>4, InventoryLinked
<1>9. /\ stage \in {"history", "main"} /\ (stage = "history" => HasHistory(v))
      /\ from \in Int /\ from <= Last(i) /\ n = from
      /\ Site(i, h, n, e, F) /\ \A x : ~HasPod(e, x) /\ ~HasDeploy(e, x)
      /\ Links(e) = L /\ Linked(e)
  <2>1. CASE HasHistory(v)
    <3>1. stage = "history" /\ e = h
      BY <1>1, <1>3, <2>1 DEF RefInit
    <3>2. n = HistoryInterval /\ from = HistoryInterval
      BY <1>3, <2>1, <3>1 DEF RefNow, First
    <3>3. Site(i, h, HistoryInterval, h, F) /\ \A x : ~HasPod(h, x) /\ ~HasDeploy(h, x)
      BY <1>5, SiteInPast
    <3>4. h.services = i.inventory.services
      BY <1>3, <1>4 DEF HistoryEnv, Inventory, EnvFields
    <3>5. Links(h) = L /\ Linked(h)
      BY <1>3, <1>8, <3>4, SameLinks
    <3> QED
      BY <1>4, <2>1, <3>1, <3>2, <3>3, <3>5 DEF HistoryInterval
  <2>2. CASE ~HasHistory(v)
    <3>1. stage = "main" /\ e = Reconcile(i.inventory)
      BY <1>1, <1>3, <2>2 DEF RefInit, Inventory
    <3>2. n = 0 /\ from = 0
      BY <1>2, <1>3, <2>2, <3>1 DEF RefNow, First
    <3>3. Site(i, h, 0, e, F) /\ \A x : ~HasPod(e, x) /\ ~HasDeploy(e, x)
      BY <1>5, <3>1, SiteInMain
    <3>4. Links(e) = L /\ Linked(e)
      BY <1>3, <1>4, <1>8, <3>1, ReconcileLinks
    <3> QED
      BY <1>4, <3>1, <3>2, <3>3, <3>4
  <2> QED
    BY <2>1, <2>2
<1>10. Left(i, h, F, from, n, e, a, NoGoals)
  BY <1>4, <1>7, <1>9, LeftStarts
<1>11. PICK k : k = Seen(ratt, Leads(L, ratt.secrets))
  OBVIOUS
<1>12. Persists(F, k)
  BY <1>6, <1>11, SeenFields, SamePersists
<1>13. Right(i, h, F, from, n, e, k)
  BY <1>9, <1>12, RightStarts
<1>14. taken \in 0..Last(i)
  BY <1>2, <1>4
<1>15. ASSUME NEW w, w = rview
       PROVE  /\ stage = "history" => HasHistory(w) /\ taken = 0
              /\ Site(input, HistoryEnv(w), RefNow, renv, Seen(ratt, {}))
              /\ Left(input, HistoryEnv(w), Seeds(w), First(w), RefNow, renv, Seen(ratt, {}), NoGoals)
              /\ Right(input, HistoryEnv(w), Seeds(w), First(w), RefNow, renv,
                       Seen(ratt, Leads(Links(input.inventory), ratt.secrets)))
  <2>1. w = v
    BY <1>2, <1>15
  <2>2. Site(i, h, n, e, a)
    BY <1>7, <1>9
  <2> QED
    BY <1>2, <1>3, <1>9, <1>10, <1>11, <1>13, <2>1, <2>2
<1> QED
  BY <1>1, <1>2, <1>3, <1>6, <1>9, <1>14, <1>15 DEF PathInv

(* A step of the attacker.                                                 *)
LEMMA LeadsGrow ==
    ASSUME NEW L, NEW S, NEW T, S \subseteq T
    PROVE  Leads(L, S) \subseteq Leads(L, T)
BY DEF Leads

LEMMA PathAttacker ==
    ASSUME UidsApart, PodsApart, PlansApart, input \in Inputs, PathInv, AttackerStep,
           input' = input, eager' = eager
    PROVE  PathInv'
<1>1. PICK v, i, h, F, from, n, e, a, L :
         /\ v = rview /\ i = input /\ h = HistoryEnv(v) /\ F = Seeds(v) /\ from = First(v)
         /\ n = RefNow /\ e = renv /\ a = Seen(ratt, {}) /\ L = Links(i.inventory)
  OBVIOUS
<1>2. PICK f, b, k, m : /\ f = renv' /\ b = Seen(ratt', {})
                        /\ k = Seen(ratt, Leads(L, ratt.secrets))
                        /\ m = Seen(ratt', Leads(L, ratt'.secrets))
  OBVIOUS
<1>3. /\ PathAt(i, h, n, e, a)
      /\ from \in Int /\ n \in Int /\ from <= n /\ n <= Last(i) /\ n \in from..Last(i)
  BY <1>1, PathHere
<1>4. /\ Step(i, h, n, e, a, NoGoals, f, b, NoGoals) /\ DOMAIN ratt' = RefFields
      /\ rview' = rview /\ stage' = stage /\ taken' = taken
  BY <1>2, <1>3, RefSteps
<1>5. /\ stage = "history" => HasHistory(v) /\ taken = 0
      /\ Left(i, h, F, from, n, e, a, NoGoals) /\ (eager /\ SomeLive => Right(i, h, F, from, n, e, k))
      /\ Links(e) = L /\ Linked(e) /\ taken \in 0..Last(i) /\ stage \in {"history", "main"}
  BY <1>1, <1>2 DEF PathInv
<1>6. Ground(i, h) /\ Site(i, h, n, e, a) /\ Formed(e)
  BY <1>3 DEF PathAt, Site, Frame
<1>7. Left(i, h, F, from, n, f, b, NoGoals)
  BY <1>3, <1>4, <1>5, <1>6, LeftSteps
<1>8. /\ Site(i, h, n, f, b) /\ Persists(a, b)
      /\ \A x : HasPod(e, x) => HasPod(f, x)
      /\ \A x : HasDeploy(e, x) => HasDeploy(f, x)
  BY <1>4 DEF Step
<1>9. Persists(k, m)
  <2>1. /\ a.credentials = k.credentials /\ a.pods = k.pods /\ a.controllers = k.controllers
        /\ a.secrets = k.secrets /\ k.downstream = Leads(L, k.secrets)
    BY <1>1, <1>2, SeenFields
  <2>2. /\ b.credentials = m.credentials /\ b.pods = m.pods /\ b.controllers = m.controllers
        /\ b.secrets = m.secrets /\ m.downstream = Leads(L, m.secrets)
    BY <1>2, SeenFields
  <2>3. k.downstream \subseteq m.downstream
    BY <1>8, <2>1, <2>2, LeadsGrow DEF Persists
  <2> QED
    BY <1>8, <2>1, <2>2, <2>3 DEF Persists
<1>10. eager' /\ SomeLive => Right(i, h, F, from, n, f, m)
  BY <1>5, <1>8, <1>9, RightGrows
<1>11. Links(f) = L /\ Linked(f)
  <2>1. DOMAIN renv = EnvFields
    BY <1>1, <1>6 DEF Formed
  <2>2. Links(renv') = Links(renv) /\ (Linked(renv) => Linked(renv'))
    BY <2>1, RefLinks
  <2> QED
    BY <1>1, <1>2, <1>5, <2>2
<1>12. n = RefNow'
  BY <1>1, <1>4 DEF RefNow
<1> QED
  BY <1>1, <1>2, <1>4, <1>5, <1>7, <1>8, <1>10, <1>11, <1>12, PathGoesOn

(* What an attacker that is done has reached.                              *)
RefGoals ==
    [reads |-> {s.secret : s \in {t \in renv.secrets : \E x \in ActingAs : CanReadSecret(renv, x, t.secret)}},
     uses  |-> {s.name : s \in {t \in renv.services :
                  \E k \in ratt.secrets : k[1] = t.source /\ Accepts(t, k[2], renv.time)}}]

LEMMA RefGoalsReached ==
    ASSUME NEW o
    PROVE  RefReached(o) <=> Reached(o, RefGoals)
<1>1. CASE o.kind = "no_secret_read"
  <2>1. RefReached(o) <=> /\ \E s \in renv.secrets : s.secret = o.target
                          /\ \E x \in ActingAs : CanReadSecret(renv, x, o.target)
    BY <1>1 DEF RefReached
  <2>2. Reached(o, RefGoals) <=> o.target \in RefGoals.reads
    BY <1>1 DEF Reached
  <2>3. o.target \in RefGoals.reads <=>
           \E s \in renv.secrets : s.secret = o.target /\ \E x \in ActingAs : CanReadSecret(renv, x, s.secret)
    BY DEF RefGoals
  <2> QED
    BY <2>1, <2>2, <2>3
<1>2. CASE o.kind # "no_secret_read"
  <2>1. RefReached(o) <=>
           \E s \in renv.services : /\ s.name = o.target
                                    /\ \E k \in ratt.secrets : k[1] = s.source /\ Accepts(s, k[2], renv.time)
    BY <1>2 DEF RefReached
  <2>2. Reached(o, RefGoals) <=> o.target \in RefGoals.uses
    BY <1>2 DEF Reached
  <2>3. o.target \in RefGoals.uses <=>
           \E s \in renv.services : /\ s.name = o.target
                                    /\ \E k \in ratt.secrets : k[1] = s.source /\ Accepts(s, k[2], renv.time)
    BY DEF RefGoals
  <2> QED
    BY <2>1, <2>2, <2>3
<1> QED
  BY <1>1, <1>2

(* An attacker that explore can take no step for is done.                  *)
LEMMA RefFresh ==
    ASSUME NEW i, NEW h, NEW n, NEW e, NEW a, PathAt(i, h, n, e, a), Exhausted
    PROVE  Fresh(e, a) /\ \A x : Acts(i, n, e, a, x) => x \in ActingAs
<1>1. /\ e = renv /\ Ground(i, h) /\ Site(i, h, n, e, a)
      /\ a.credentials = ratt.credentials /\ a.pods = ratt.pods /\ a.controllers = ratt.controllers
  BY PathFields DEF PathAt
<1>2. RefObtain = {} /\ RefControl = {}
  BY DEF Exhausted
<1>3. \A p \in e.pods : p.controller \in a.controllers => p.uid \in a.pods
  BY <1>1, <1>2 DEF RefControl
<1>4. \A t \in TokensFrom(e, a.pods) : t \in a.credentials
  BY <1>1, <1>2 DEF RefObtain
<1>5. Fresh(e, a)
  BY <1>3, <1>4 DEF Fresh, AsGood
<1>6. \A x : Acts(i, n, e, a, x) => Actor(i, n, e, a, x)
  BY <1>1, <1>5, FreshActs
<1> QED
  BY <1>5, <1>6, RefActs

LEMMA RefMine ==
    ASSUME SomeLive, NEW kind, NEW objects, NEW prefix, RefCreate(kind, objects, prefix) = {},
           NEW x \in ActingAs, NEW y, HasAccount(renv, y), MayCreate(renv, x, kind, y)
    PROVE  \E o \in objects : o.account = y /\ \E k : o.uid = <<prefix, y, k>>
<1>1. ~(Cardinality(Mine(objects, prefix, y)) < MaxLive)
  BY DEF RefCreate, HasAccount, MayCreate
<1>2. Cardinality({}) = 0 /\ 0 < MaxLive
  BY FS_EmptySet DEF SomeLive
<1>3. Mine(objects, prefix, y) # {}
  <2>1. PICK M : M = Mine(objects, prefix, y)
    OBVIOUS
  <2>2. M # {}
    BY <1>1, <1>2, <2>1
  <2> QED
    BY <2>1, <2>2
<1> QED
  BY <1>3 DEF Mine

LEMMA RefSaturated ==
    ASSUME SomeLive, NEW i, NEW h, NEW n, NEW e, NEW a, PathAt(i, h, n, e, a), Exhausted,
           NEW L, L = Links(i.inventory), L = Links(e),
           NEW k, k = Seen(ratt, Leads(L, ratt.secrets)), NEW g, g = RefGoals
    PROVE  Saturated(i, n, e, k, g)
<1>1. /\ e = renv /\ i \in Inputs
      /\ a.credentials = ratt.credentials /\ a.pods = ratt.pods /\ a.controllers = ratt.controllers
      /\ a.secrets = ratt.secrets
  BY PathFields DEF PathAt, Ground
<1>2. /\ k.credentials = a.credentials /\ k.pods = a.pods /\ k.controllers = a.controllers
      /\ k.secrets = ratt.secrets /\ k.downstream = Leads(L, ratt.secrets)
  BY <1>1, SeenFields
<1>3. /\ RefObtain = {} /\ RefControl = {} /\ RefRead = {}
      /\ RefCreate("pods", renv.pods, "ref-pod") = {}
      /\ RefCreate("deployments", renv.controllers, "ref-deploy") = {}
  BY DEF Exhausted, RefPods, RefControllers
<1>4. \A x : Acts(i, n, e, k, x) => x \in ActingAs
  <2>1. \A x : Acts(i, n, e, k, x) => Acts(i, n, e, a, x)
    BY <1>2 DEF Acts, Actor
  <2> QED
    BY <2>1, RefFresh
<1>5. /\ \A p \in e.pods : p.controller \in k.controllers => p.uid \in k.pods
      /\ \A t \in TokensFrom(e, k.pods) : \E c \in k.credentials : AsGood(t, c)
  BY <1>2, RefFresh DEF Fresh
<1>6. ASSUME NEW p \in e.pods, NEW x, Acts(i, n, e, k, x), MayExec(e, x, p) PROVE p.uid \in k.pods
  <2>1. x \in ActingAs
    BY <1>4, <1>6
  <2> QED
    BY <1>1, <1>2, <1>3, <1>6, <2>1 DEF RefControl, MayExec
<1>7. ASSUME NEW x, NEW y, Acts(i, n, e, k, x), HasAccount(e, y), MayCreate(e, x, "pods", y)
      PROVE  HasPod(e, y)
  <2>1. x \in ActingAs
    BY <1>4, <1>7
  <2>2. PICK P, kind, prefix : P = e.pods /\ kind = "pods" /\ prefix = "ref-pod"
    OBVIOUS
  <2>3. RefCreate(kind, P, prefix) = {} /\ HasAccount(renv, y) /\ MayCreate(renv, x, kind, y)
    BY <1>1, <1>3, <1>7, <2>2
  <2>4. \E o \in P : \E j : o.uid = <<prefix, y, j>>
    BY <2>1, <2>3, RefMine
  <2> QED
    BY <2>2, <2>4 DEF HasPod, BareUid
<1>8. ASSUME NEW x, NEW y, Acts(i, n, e, k, x), HasAccount(e, y), MayCreate(e, x, "deployments", y)
      PROVE  HasDeploy(e, y)
  <2>1. x \in ActingAs
    BY <1>4, <1>8
  <2>2. \E o \in e.controllers : \E j : o.uid = <<"ref-deploy", y, j>>
    BY <1>1, <1>3, <1>8, <2>1, RefMine
  <2> QED
    BY <2>2 DEF HasDeploy, DeployUid
<1>9. ASSUME NEW s \in e.secrets, NEW x, Acts(i, n, e, k, x), CanReadSecret(e, x, s.secret)
      PROVE  <<s.secret, s.version>> \in k.secrets /\ s.secret \in g.reads
  <2>1. x \in ActingAs
    BY <1>4, <1>9
  <2>2. <<s.secret, s.version>> \in k.secrets
    BY <1>1, <1>2, <1>3, <1>9, <2>1 DEF RefRead
  <2>3. s.secret \in g.reads
    BY <1>1, <1>9, <2>1 DEF RefGoals
  <2> QED
    BY <2>2, <2>3
<1>10. ASSUME NEW s \in e.services, NEW y \in k.secrets, y[1] = s.source
       PROVE  <<s.name, y[2]>> \in k.downstream
  <2>1. PICK l : l = <<s.name, s.source>>
    OBVIOUS
  <2>2. l \in L /\ l[1] = s.name /\ l[2] = s.source
    BY <2>1 DEF Links
  <2>3. <<l[1], y[2]>> \in Leads(L, ratt.secrets)
    BY <1>2, <1>10, <2>2 DEF Leads
  <2> QED
    BY <1>2, <2>2, <2>3
<1>11. ASSUME NEW s \in e.services, NEW d \in k.downstream, d[1] = s.name, Accepts(s, d[2], e.time)
       PROVE  s.name \in g.uses
  <2>1. PICK l \in L : \E y \in ratt.secrets : y[1] = l[2] /\ d = <<l[1], y[2]>>
    BY <1>2 DEF Leads
  <2>2. PICK y \in ratt.secrets : y[1] = l[2] /\ d = <<l[1], y[2]>>
    BY <2>1
  <2>3. d[1] = l[1] /\ d[2] = y[2]
    BY <2>2
  <2>4. PICK m : m = <<s.name, s.source>>
    OBVIOUS
  <2>5. m \in L /\ m[1] = s.name /\ m[2] = s.source
    BY <2>4 DEF Links
  <2>6. \A p, q \in L : p[1] = q[1] => p = q
    BY <1>1, InventoryLinked
  <2>7. m = l
    BY <1>11, <2>3, <2>5, <2>6
  <2>8. y[1] = s.source /\ Accepts(s, y[2], e.time)
    BY <1>11, <2>2, <2>3, <2>5, <2>7
  <2> QED
    BY <1>1, <2>8 DEF RefGoals
<1> QED
  BY <1>5, <1>6, <1>7, <1>8, <1>9, <1>10, <1>11 DEF Saturated

(* The possible past ends, or the defender acts.                           *)
LEMMA PathIntervals ==
    ASSUME UidsApart, PodsApart, PlansApart, input \in Inputs, PathInv, input' = input,
           \/ RefEndHistory /\ eager' = eager
           \/ DefenderStep /\ eager' = (eager /\ Exhausted)
    PROVE  PathInv'
<1>1. PICK v, i, h, F, from, n, e, a, L :
         /\ v = rview /\ i = input /\ h = HistoryEnv(v) /\ F = Seeds(v) /\ from = First(v)
         /\ n = RefNow /\ e = renv /\ a = Seen(ratt, {}) /\ L = Links(i.inventory)
  OBVIOUS
<1>2. PICK f, k, g : f = renv' /\ k = Seen(ratt, Leads(L, ratt.secrets)) /\ g = RefGoals
  OBVIOUS
<1>3. /\ PathAt(i, h, n, e, a)
      /\ from \in Int /\ n \in Int /\ from <= n /\ n <= Last(i) /\ n \in from..Last(i)
  BY <1>1, PathHere
<1>4. /\ stage = "history" => HasHistory(v) /\ taken = 0
      /\ Left(i, h, F, from, n, e, a, NoGoals) /\ (eager /\ SomeLive => Right(i, h, F, from, n, e, k))
      /\ Links(e) = L /\ Linked(e) /\ taken \in 0..Last(i) /\ DOMAIN ratt = RefFields
  BY <1>1, <1>2 DEF PathInv
<1>5. Ground(i, h) /\ Site(i, h, n, e, a) /\ Frame(i, h, n, e) /\ Formed(e) /\ DOMAIN e = EnvFields
      /\ Last(i) \in Nat
  BY <1>3 DEF PathAt, Site, Frame, Formed
<1>6. rview' = rview /\ ratt' = ratt /\ stage' = "main"
  BY DEF RefEndHistory, DefenderStep
<1>7. Exhausted /\ SomeLive => Saturated(i, n, e, k, g)
  BY <1>1, <1>2, <1>3, <1>4, RefSaturated
<1>8. CASE RefEndHistory /\ eager' = eager
  <2>1. /\ stage = "history" /\ Exhausted /\ f = Reconcile(i.inventory) /\ taken' = taken
    BY <1>1, <1>2, <1>8 DEF RefEndHistory, Inventory
  <2>2. n = HistoryInterval /\ n < Last(i) /\ n + 1 = 0
    BY <1>1, <1>5, <2>1 DEF RefNow, HistoryInterval
  <2>3. \A c \in a.credentials : TokenShape(h, c)
    BY <1>5 DEF Site
  <2>4. Site(i, h, 0, f, a) /\ \A x : ~HasPod(f, x) /\ ~HasDeploy(f, x)
    BY <1>5, <2>1, <2>3, SiteInMain
  <2>5. Left(i, h, F, from, n + 1, f, a, NoGoals)
    BY <1>3, <1>4, <1>5, <2>2, <2>4, LeftGoesOn
  <2>6. eager' /\ SomeLive => Right(i, h, F, from, n + 1, f, k)
    BY <1>3, <1>4, <1>5, <1>7, <1>8, <2>1, <2>2, RightGoesOn
  <2>7. RefNow' = n + 1
    BY <1>4, <1>6, <2>1, <2>2 DEF RefNow
  <2>8. Links(f) = L /\ Linked(f)
    <3>1. DOMAIN i.inventory = EnvFields /\ i \in Inputs
      BY <1>1, CaseAssumption
    <3> QED
      BY <1>1, <2>1, <3>1, InventoryLinked, ReconcileLinks
  <2> QED
    BY <1>1, <1>2, <1>4, <1>6, <2>1, <2>2, <2>4, <2>5, <2>6, <2>7, <2>8, PathGoesOn
<1>9. CASE DefenderStep /\ eager' = (eager /\ Exhausted)
  <2>1. PICK act : act = i.remediation[taken + 1]
    OBVIOUS
  <2>2. /\ stage = "main" /\ taken < Last(i) /\ taken' = taken + 1
        /\ f = Reconcile(ApplyDefenderAction(e, act))
    BY <1>1, <1>2, <1>9, <2>1 DEF DefenderStep, Last
  <2>3. n = taken /\ n \in Nat /\ n # HistoryInterval /\ n < Last(i) /\ n + 1 \in 1..Last(i)
        /\ n + 1 \in 0..Last(i)
    BY <1>1, <1>4, <1>5, <2>2 DEF RefNow, HistoryInterval
  <2>4. /\ Site(i, h, n + 1, f, a)
        /\ \A x : HasPod(f, x) <=> HasPod(e, x) /\ SparesPods(act, x)
        /\ \A x : HasDeploy(f, x) <=> HasDeploy(e, x) /\ SparesDeploys(act, x)
    BY <1>5, <2>1, <2>2, <2>3, SiteRemediated DEF Last
  <2>5. Left(i, h, F, from, n + 1, f, a, NoGoals)
    BY <1>3, <1>4, <1>5, <2>1, <2>3, <2>4, LeftGoesOn
  <2>6. eager' /\ SomeLive => Right(i, h, F, from, n + 1, f, k)
    BY <1>3, <1>4, <1>5, <1>7, <1>9, <2>1, <2>3, <2>4, RightGoesOn
  <2>7. RefNow' = n + 1
    BY <1>6, <2>2, <2>3 DEF RefNow
  <2>8. Links(f) = L /\ Linked(f)
    <3>1. act.kind \in ActionKinds
      BY <1>1, <2>1, <2>3, CaseAssumption DEF Last
    <3> QED
      BY <1>4, <1>5, <2>2, <3>1, RemediationLinks
  <2> QED
    BY <1>1, <1>2, <1>4, <1>6, <2>2, <2>3, <2>4, <2>5, <2>6, <2>7, <2>8, PathGoesOn
<1> QED
  BY <1>8, <1>9

(* explore looks at the engine's verdict and leaves it alone; the engine   *)
(* does not see explore.                                                   *)
LEMMA InputKept ==
    ASSUME [Next]_vars
    PROVE  input' = input
<1>1. CASE Rule
  BY <1>1, RuleApplied
<1>2. CASE BeginHistory \/ BeginMain \/ EndHistory \/ Remediate \/ UNCHANGED vars
  BY <1>2 DEF BeginHistory, BeginMain, EndHistory, Remediate, vars
<1>3. CASE FinishView \/ ExceedBounds
  BY <1>3 DEF FinishView, ExceedBounds, EndView
<1> QED
  BY <1>1, <1>2, <1>3 DEF Next, Rule, Stop

LEMMA PathStays ==
    ASSUME PathInv, UNCHANGED <<refVars, eager, input>>
    PROVE  PathInv'
<1>1. /\ rview' = rview /\ stage' = stage /\ taken' = taken /\ renv' = renv /\ ratt' = ratt
      /\ eager' = eager /\ input' = input
  BY DEF refVars
<1>2. PICK v, i, h, F, from, n, e, a, k :
         /\ v = rview /\ i = input /\ h = HistoryEnv(v) /\ F = Seeds(v) /\ from = First(v)
         /\ n = RefNow /\ e = renv /\ a = Seen(ratt, {})
         /\ k = Seen(ratt, Leads(Links(i.inventory), ratt.secrets))
  OBVIOUS
<1>3. /\ stage \in {"history", "main"} /\ DOMAIN ratt = RefFields /\ taken \in 0..Last(i)
      /\ Links(e) = Links(i.inventory) /\ Linked(e) /\ (stage = "history" => HasHistory(v) /\ taken = 0)
      /\ Site(i, h, n, e, a) /\ Left(i, h, F, from, n, e, a, NoGoals)
      /\ eager /\ SomeLive => Right(i, h, F, from, n, e, k)
  BY <1>2 DEF PathInv
<1>4. n = RefNow'
  BY <1>1, <1>2 DEF RefNow
<1>5. a = Seen(ratt', {}) /\ k = Seen(ratt', Leads(Links(i.inventory), ratt'.secrets))
  BY <1>1, <1>2
<1> QED
  BY <1>1, <1>2, <1>3, <1>4, <1>5, PathGoesOn

LEMMA DiffStarts ==
    ASSUME UidsApart, PodsApart, PlansApart, IdsApart, DiffInit
    PROVE  AnalysisInv /\ PathInv
BY PathInit, AnalysisInit DEF DiffInit

LEMMA DiffSteps ==
    ASSUME UidsApart, PodsApart, FactsApart, PlansApart, IdsApart, AnalysisInv, PathInv,
           [DiffNext]_diffVars
    PROVE  AnalysisInv' /\ PathInv'
<1>1. input \in Inputs
  BY DEF AnalysisInv, ResultsInv
<1>2. CASE Analyze \/ UNCHANGED diffVars
  <2>1. [Next]_vars /\ UNCHANGED <<refVars, eager>>
    BY <1>2 DEF Analyze, diffVars, vars, refVars
  <2>2. AnalysisInv' /\ input' = input
    BY <2>1, AnalysisNext, InputKept
  <2> QED
    BY <2>1, <2>2, PathStays
<1>3. CASE Explore
  <2>1. UNCHANGED vars
    BY <1>3 DEF Explore
  <2>2. AnalysisInv' /\ input' = input
    BY <2>1, AnalysisNext, InputKept
  <2>3. \/ AttackerStep /\ eager' = eager
        \/ RefEndHistory /\ eager' = eager
        \/ DefenderStep /\ eager' = (eager /\ Exhausted)
    BY <1>3 DEF Explore
  <2>4. PathInv'
    BY <1>1, <2>2, <2>3, PathAttacker, PathIntervals
  <2> QED
    BY <2>2, <2>4
<1> QED
  BY <1>2, <1>3 DEF DiffNext

(* The verdict that a path is held against.                                *)
LEMMA VerdictDecided ==
    ASSUME AnalysisInv, PathInv, Done, ~OutcomeOf(rview).bounds_exceeded,
           NEW v, v = rview, NEW i, i = input
    PROVE  Decided(i, HistoryEnv(v), Seeds(v), First(v), OutcomeOf(v))
<1>1. v \in {"evidence_supported", "conservative_possible"} /\ view = 3
  BY DEF PathInv, Done
<1>2. PICK k \in 1..2 : Views[k] = v
  BY <1>1 DEF Views
<1>3. PICK m : m = CHOOSE j \in 1..2 : Views[j] = v
  OBVIOUS
<1>4. m \in 1..2 /\ Views[m] = v
  BY <1>2, <1>3
<1>5. Decided(i, HistoryEnv(v), Seeds(v), First(v), outcome[m])
  BY <1>1, <1>4 DEF AnalysisInv, OutcomesInv
<1> QED
  BY <1>3, <1>5 DEF OutcomeOf

(* Where a path ends.                                                      *)
LEMMA PathEnd ==
    ASSUME UidsApart, PodsApart, PlansApart, AnalysisInv, PathInv, Final,
           NEW v, v = rview, NEW i, NEW h, NEW F, NEW from, NEW n, NEW e, NEW a,
           i = input, h = HistoryEnv(v), F = Seeds(v), from = First(v), n = Last(i), e = renv, a = Seen(ratt, {})
    PROVE  /\ PathAt(i, h, n, e, a) /\ from \in Int /\ n \in from..Last(i) /\ n \in Int /\ from <= n
           /\ Left(i, h, F, from, n, e, a, NoGoals)
<1>1. input \in Inputs
  BY DEF AnalysisInv, ResultsInv
<1>2. n = RefNow
  BY DEF Final, RefNow, Last
<1>3. Left(i, h, F, from, n, e, a, NoGoals)
  BY <1>2 DEF PathInv
<1> QED
  BY <1>1, <1>2, <1>3, PathHere

LEMMA PathCovered ==
    ASSUME UidsApart, PodsApart, PlansApart, AnalysisInv, PathInv
    PROVE  FixpointCovers
<1> SUFFICES ASSUME Done, Final, ~OutcomeOf(rview).bounds_exceeded,
                    NEW o \in Objectives, RefReached(o)
             PROVE  Reached(o, OutcomeOf(rview).goals)
  BY DEF FixpointCovers
<1>1. PICK v, i, h, F, from, n, e, a, q :
         /\ v = rview /\ i = input /\ h = HistoryEnv(v) /\ F = Seeds(v) /\ from = First(v)
         /\ n = Last(i) /\ e = renv /\ a = Seen(ratt, {}) /\ q = OutcomeOf(v)
  OBVIOUS
<1>2. /\ PathAt(i, h, n, e, a) /\ from \in Int /\ n \in from..Last(i)
      /\ Left(i, h, F, from, n, e, a, NoGoals)
  BY <1>1, PathEnd
<1>3. Decided(i, h, F, from, q) /\ ~q.bounds_exceeded
  BY <1>1, VerdictDecided
<1>4. PICK D : Chain(i, h, F, from, D, n) /\ D[n].eph = q.goals
  BY <1>1, <1>3 DEF Decided
<1>5. PICK d : d = D[n]
  OBVIOUS
<1>6. Covered(e, a, NoGoals, d)
  BY <1>1, <1>2, <1>4, <1>5 DEF Left
<1>7. Follows(h, i, n, e, a, NoGoals, d)
  BY <1>1, <1>2, <1>4, <1>5, <1>6, ChainFollows DEF PathAt
<1>8. a.secrets = ratt.secrets
  BY <1>2, PathFields
<1>9. ASSUME NEW s \in e.secrets, NEW x \in ActingAs, CanReadSecret(e, x, s.secret)
      PROVE  s.secret \in d.eph.reads
  <2>1. Actor(i, n, e, a, x)
    BY <1>2, RefActs
  <2> QED
    BY <1>7, <1>9, <2>1, ReadCovered
<1>10. ASSUME NEW s \in e.services, NEW y \in ratt.secrets, y[1] = s.source, Accepts(s, y[2], e.time)
       PROVE  s.name \in d.eph.uses
  <2>1. PICK l : l = <<s.name, y[2]>>
    OBVIOUS
  <2>2. l \in d.att.downstream
    BY <1>7, <1>8, <1>10, <2>1, ServicesCovered
  <2>3. s \in d.env.services /\ e.time = d.env.time
    BY <1>7 DEF Follows, Under
  <2>4. l[1] = s.name /\ Accepts(s, l[2], d.env.time)
    BY <1>10, <2>1, <2>3
  <2> QED
    BY <1>7, <2>2, <2>3, <2>4 DEF Follows, Saturated
<1>11. RefGoals.reads \subseteq q.goals.reads
  BY <1>1, <1>4, <1>5, <1>9 DEF RefGoals
<1>12. RefGoals.uses \subseteq q.goals.uses
  BY <1>1, <1>4, <1>5, <1>10 DEF RefGoals
<1>13. Reached(o, RefGoals)
  BY RefGoalsReached
<1> QED
  BY <1>1, <1>11, <1>12, <1>13 DEF Reached

LEMMA PathAttains ==
    ASSUME UidsApart, PodsApart, PlansApart, SomeLive, AnalysisInv, PathInv
    PROVE  FixpointAttained
<1> SUFFICES ASSUME Done, Final, eager, Exhausted, ~OutcomeOf(rview).bounds_exceeded,
                    NEW o \in Objectives, Reached(o, OutcomeOf(rview).goals)
             PROVE  RefReached(o)
  BY DEF FixpointAttained
<1>1. PICK v, i, h, F, from, n, e, a, q, L :
         /\ v = rview /\ i = input /\ h = HistoryEnv(v) /\ F = Seeds(v) /\ from = First(v)
         /\ n = Last(i) /\ e = renv /\ a = Seen(ratt, {}) /\ q = OutcomeOf(v) /\ L = Links(i.inventory)
  OBVIOUS
<1>2. PICK k, g : k = Seen(ratt, Leads(L, ratt.secrets)) /\ g = RefGoals
  OBVIOUS
<1>3. PathAt(i, h, n, e, a) /\ from \in Int /\ n \in Int /\ from <= n
  BY <1>1, PathEnd
<1>4. Decided(i, h, F, from, q) /\ ~q.bounds_exceeded
  BY <1>1, VerdictDecided
<1>5. Links(e) = L
  BY <1>1 DEF PathInv
<1>6. Saturated(i, n, e, k, g)
  BY <1>1, <1>2, <1>3, <1>5, RefSaturated
<1>7. n = RefNow
  BY <1>1 DEF Final, RefNow, Last
<1>8. Right(i, h, F, from, n, e, k)
  BY <1>1, <1>2, <1>7 DEF PathInv
<1>9. Frame(i, h, n, e)
  BY <1>3 DEF PathAt, Site
<1>10. PICK D : Chain(i, h, F, from, D, n) /\ D[n].eph = g
  BY <1>3, <1>6, <1>8, <1>9, RightCloses
<1>11. q.goals.reads \subseteq g.reads /\ q.goals.uses \subseteq g.uses
  BY <1>1, <1>4, <1>10 DEF Decided
<1>12. Reached(o, g)
  BY <1>1, <1>11 DEF Reached
<1> QED
  BY <1>2, <1>12, RefGoalsReached

(* run_view covers explore: at the end of every path of the reference      *)
(* checker, whatever the attacker did and whenever the defender acted,     *)
(* with any number of workloads per account, every secret it can read and  *)
(* every service it can use is a goal of the engine's view, if that was    *)
(* run to its end.  Making each account's workload once, and letting the   *)
(* attacker finish in every interval, loses nothing.                       *)
THEOREM EngineCoversReference ==
    ASSUME UidsApart, PodsApart, FactsApart, PlansApart, IdsApart
    PROVE  DiffSpec => []FixpointCovers
<1>1. AnalysisInv /\ PathInv => FixpointCovers
  BY PathCovered
<1> QED
  BY <1>1, DiffStarts, DiffSteps, PTL DEF DiffSpec

(* explore attains run_view: an attacker that does all it can before each  *)
(* defender action, with at least one workload per account, ends with      *)
(* every goal of the engine's view, if that was run to its end.  What the  *)
(* fixpoint of run_view calls reachable some path of single steps reaches. *)
THEOREM ReferenceAttainsEngine ==
    ASSUME UidsApart, PodsApart, FactsApart, PlansApart, IdsApart, SomeLive
    PROVE  DiffSpec => []FixpointAttained
<1>1. AnalysisInv /\ PathInv => FixpointAttained
  BY PathAttains
<1> QED
  BY <1>1, DiffStarts, DiffSteps, PTL DEF DiffSpec
=============================================================================
