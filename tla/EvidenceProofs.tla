--------------------------- MODULE EvidenceProofs ---------------------------
(***************************************************************************)
(* Proofs about Evidence, for every bundle and case: what attribution      *)
(* arrives at, and that no line of the bundle is lost.                     *)
(***************************************************************************)
EXTENDS Evidence, TLAPS

(* Deduplication: one record per key, and for every line read a record     *)
(* with its key; a line that is not the record itself is a conflict.       *)
Taken ==
    /\ \A e, f \in accepted : Key(e) = Key(f) => e = f
    /\ \A i \in 1..Len(lines) :
           IF lines[i] = Unusable THEN i \in rejected
           ELSE /\ \E f \in accepted : Key(f) = Key(lines[i])
                /\ lines[i] \in accepted \/ Key(lines[i]) \in conflicts

(* Attribution: as long as a sweep has changed nothing, the Pods are       *)
(* closed under the events it has come to; and they are never more than    *)
(* a closed set has.                                                       *)
Swept ==
    /\ pc = "read" => attackerPods = {}
    /\ pc = "attribute" /\ ~changed =>
           \A e \in accepted \ todo :
               ByAttacker(e, attackerPods) => PodsGained(e) \subseteq attackerPods
    /\ pc \in {"project", "done"} => ClosedUnder(attackerPods)

Minimal == \A P : ClosedUnder(P) => attackerPods \subseteq P

(* What Finish adds.                                                       *)
Reported ==
    pc = "done" =>
        /\ \A n \in rejected : CoverageGap("rejected_evidence", <<n>>) \in gaps
        /\ \A k \in conflicts : CoverageGap("conflicting_evidence", k) \in gaps

IInv == TypeOK /\ Taken /\ Swept /\ Minimal /\ Reported

-----------------------------------------------------------------------------
(* Init establishes the invariant.                                         *)
LEMMA InitInvariant == Init => IInv
<1> SUFFICES ASSUME Init PROVE IInv
  OBVIOUS
<1> USE DEF Init
<1>1. TypeOK
  <2>1. \A f \in facts : f.evidence \in Refs \cup {Seeded}
    BY DEF Fact
  <2>2. lines \in Seq(Envelopes \cup {Unusable}) /\ Len(lines) <= MaxLines /\ rejected \subseteq 1..Len(lines)
    BY EvidenceAssumption
  <2> QED
    BY <2>1, <2>2 DEF TypeOK
<1>2. Taken
  BY DEF Taken
<1>3. Swept /\ Minimal /\ Reported
  BY DEF Swept, Minimal, Reported
<1> QED
  BY <1>1, <1>2, <1>3 DEF IInv

(* A step of Read keeps the invariant: the case distinction of _events.    *)
LEMMA ReadInvariant ==
    ASSUME IInv, NEW line \in Envelopes \cup {Unusable}, Read(line)
    PROVE  IInv'
<1> USE DEF IInv
<1>1. /\ lines' = Append(lines, line) /\ Len(lines') = Len(lines) + 1
      /\ lines' \in Seq(Envelopes \cup {Unusable}) /\ Len(lines) \in Nat /\ Len(lines') <= MaxLines
      /\ \A i \in 1..Len(lines) : lines'[i] = lines[i]
      /\ lines'[Len(lines')] = line
      /\ \A i \in 1..Len(lines') : i \in 1..Len(lines) \/ i = Len(lines')
  BY EvidenceAssumption DEF Read, TypeOK
<1>2. /\ accepted \subseteq accepted' /\ conflicts \subseteq conflicts' /\ rejected \subseteq rejected'
      /\ pc = "read" /\ UNCHANGED <<pc, todo, changed, attackerPods, credentials, facts, gaps, heartbeats>>
  BY DEF Read, outVars
<1>3. accepted' \subseteq Envelopes /\ conflicts' \subseteq Refs /\ rejected' \subseteq 1..Len(lines')
  BY <1>1 DEF Read, TypeOK, Refs
<1>4. TypeOK'
  <2>1. attackerPods' \subseteq InventoryPods \cup {e.uid : e \in accepted'}
    BY <1>2 DEF TypeOK
  <2>2. todo' \subseteq accepted'
    BY <1>2 DEF TypeOK
  <2> QED
    BY <1>1, <1>2, <1>3, <2>1, <2>2 DEF TypeOK, Refs
<1>5. \A e, f \in accepted' : Key(e) = Key(f) => e = f
  <2>1. CASE accepted' = accepted
    BY <2>1 DEF Taken
  <2>2. CASE accepted' = accepted \cup {line} /\ {e \in accepted : Key(e) = Key(line)} = {}
    BY <2>2 DEF Taken
  <2> QED
    BY <2>1, <2>2 DEF Read
<1>6. ASSUME line # Unusable
      PROVE  /\ \E f \in accepted' : Key(f) = Key(line)
             /\ line \in accepted' \/ Key(line) \in conflicts'
  BY <1>6 DEF Read
<1>7. line = Unusable => Len(lines') \in rejected'
  BY <1>1 DEF Read
<1>8. Taken'
  <2>1. SUFFICES ASSUME NEW i \in 1..Len(lines')
                 PROVE  IF lines'[i] = Unusable THEN i \in rejected'
                        ELSE /\ \E f \in accepted' : Key(f) = Key(lines'[i])
                             /\ lines'[i] \in accepted' \/ Key(lines'[i]) \in conflicts'
    BY <1>5 DEF Taken, Key
  <2>2. CASE i \in 1..Len(lines)
    <3>1. lines'[i] = lines[i]
      BY <1>1, <2>2
    <3>2. IF lines[i] = Unusable THEN i \in rejected
          ELSE /\ \E f \in accepted : Key(f) = Key(lines[i])
               /\ lines[i] \in accepted \/ Key(lines[i]) \in conflicts
      BY <2>2 DEF Taken
    <3> QED
      BY <1>2, <3>1, <3>2
  <2>3. CASE i = Len(lines')
    BY <1>1, <1>6, <1>7, <2>3
  <2> QED
    BY <1>1, <2>2, <2>3
<1>9. Swept' /\ Minimal' /\ Reported'
  BY <1>2 DEF Swept, Minimal, Reported
<1> QED
  BY <1>4, <1>8, <1>9

(* An event of the attacker with the Pods P stays one with more.           *)
LEMMA ByAttackerMonotone ==
    ASSUME NEW e, NEW P, NEW Q, P \subseteq Q, ByAttacker(e, P)
    PROVE  ByAttacker(e, Q)
BY DEF ByAttacker

LEMMA GainedTyped ==
    ASSUME NEW e \in accepted
    PROVE  PodsGained(e) \subseteq InventoryPods \cup {x.uid : x \in accepted}
BY DEF PodsGained

LEMMA AttributeInvariant ==
    ASSUME IInv, NEW e \in todo, Attribute(e)
    PROVE  IInv'
<1> USE DEF IInv
<1> DEFINE gained == IF ByAttacker(e, attackerPods) THEN PodsGained(e) ELSE {}
<1>1. /\ attackerPods' = attackerPods \cup gained
      /\ changed' = (changed \/ ~(gained \subseteq attackerPods))
      /\ todo' = todo \ {e} /\ pc = "attribute" /\ pc' = pc
      /\ UNCHANGED <<lines, accepted, rejected, conflicts, credentials, facts, gaps, heartbeats>>
  BY DEF Attribute, readVars, outVars
<1>2. e \in accepted
  BY DEF TypeOK
<1>3. gained \subseteq InventoryPods \cup {x.uid : x \in accepted}
  BY <1>2, GainedTyped
<1> HIDE DEF gained
<1>4. TypeOK'
  BY <1>1, <1>3 DEF TypeOK, Refs
<1>5. Taken' /\ Reported'
  BY <1>1 DEF Taken, Reported
<1>6. Swept'
  <2>1. SUFFICES ASSUME ~changed', NEW f \in accepted \ todo', ByAttacker(f, attackerPods')
                 PROVE  PodsGained(f) \subseteq attackerPods'
    BY <1>1 DEF Swept
  <2>2. ~changed /\ attackerPods' = attackerPods
    BY <1>1, <2>1
  <2>3. CASE f = e
    BY <2>1, <2>2, <2>3, <1>1 DEF gained
  <2>4. CASE f # e
    BY <2>1, <2>2, <2>4, <1>1 DEF Swept
  <2> QED
    BY <2>3, <2>4
<1>7. Minimal'
  <2>1. SUFFICES ASSUME NEW P, ClosedUnder(P) PROVE attackerPods' \subseteq P
    BY <1>1 DEF Minimal, ClosedUnder
  <2>2. attackerPods \subseteq P
    BY <2>1 DEF Minimal
  <2>3. gained \subseteq P
    BY <2>1, <2>2, <1>2, ByAttackerMonotone DEF gained, ClosedUnder
  <2> QED
    BY <1>1, <2>2, <2>3
<1> QED
  BY <1>4, <1>5, <1>6, <1>7

LEMMA SweepInvariant ==
    ASSUME IInv, ReadEnds \/ SweepEnds
    PROVE  IInv'
<1> USE DEF IInv
<1>1. /\ todo' = accepted /\ changed' = FALSE
      /\ UNCHANGED <<lines, accepted, rejected, conflicts, attackerPods, credentials, facts, gaps, heartbeats>>
      /\ pc' \in {"attribute", "project"}
  BY DEF ReadEnds, SweepEnds, readVars, outVars
<1>2. TypeOK'
  BY <1>1 DEF TypeOK, Refs
<1>3. Taken' /\ Minimal' /\ Reported'
  BY <1>1 DEF Taken, Minimal, Reported, ClosedUnder
<1>4. pc' = "project" => ClosedUnder(attackerPods)
  BY DEF ReadEnds, SweepEnds, Swept, ClosedUnder
<1>5. Swept'
  BY <1>1, <1>4 DEF Swept, ClosedUnder
<1> QED
  BY <1>2, <1>3, <1>5

(* The second loop changes neither the Pods nor what was read.  What it    *)
(* records has its evidence among the records.                             *)
LEMMA ProjectInvariant ==
    ASSUME IInv, NEW e \in todo,
           \/ ProjectGap(e) \/ ProjectHeartbeat(e) \/ ProjectIgnored(e)
           \/ ProjectResponse(e) \/ ProjectRaises(e)
    PROVE  IInv'
<1> USE DEF IInv
<1>1. /\ UNCHANGED <<lines, accepted, rejected, conflicts, changed, attackerPods>>
      /\ todo' \subseteq todo /\ pc = "project" /\ pc' \in {"project", "invalid"}
  BY DEF ProjectGap, ProjectHeartbeat, ProjectIgnored, ProjectResponse, ProjectRaises, Projects,
         readVars, outVars
<1>2. Key(e) \in Refs
  BY DEF TypeOK, Refs
<1>3. \A g \in gaps' : g \in gaps \/ g.about = Key(e)
  BY DEF ProjectGap, ProjectHeartbeat, ProjectIgnored, ProjectResponse, ProjectRaises,
         outVars, When, GapsFrom, CoverageGap
<1>4. \A f \in facts' : f \in facts \/ f.evidence = Key(e)
  <2>1. \A f \in FactsFrom(e) : f.evidence = Key(e)
    BY DEF FactsFrom, When, Fact
  <2> QED
    BY <2>1 DEF ProjectGap, ProjectHeartbeat, ProjectIgnored, ProjectResponse, ProjectRaises, outVars
<1>5. \A c, d \in credentials' : c.id = d.id => c = d
  <2>1. CASE credentials' = credentials
    BY <2>1 DEF TypeOK
  <2>2. CASE credentials' = CredentialsWith(e)
    BY <2>2 DEF TypeOK, CredentialsWith
  <2> QED
    BY <2>1, <2>2 DEF ProjectGap, ProjectHeartbeat, ProjectIgnored, ProjectResponse, ProjectRaises, outVars
<1>6. TypeOK'
  BY <1>1, <1>2, <1>3, <1>4, <1>5 DEF TypeOK, Refs
<1>7. Taken' /\ Swept' /\ Minimal' /\ Reported'
  BY <1>1 DEF Taken, Swept, Minimal, Reported, ClosedUnder
<1> QED
  BY <1>6, <1>7

LEMMA FinishInvariant ==
    ASSUME IInv, Finish
    PROVE  IInv'
<1> USE DEF IInv
<1>1. /\ UNCHANGED <<lines, accepted, rejected, conflicts, todo, changed, attackerPods, credentials, facts>>
      /\ pc = "project" /\ pc' = "done"
  BY DEF Finish, readVars
<1>2. \A g \in gaps' : g.about \in Refs \cup {<<n>> : n \in RequiredSources \cup 1..MaxLines}
  <2>1. rejected \subseteq 1..MaxLines
    <3>1. Len(lines) \in Nat /\ Len(lines) <= MaxLines
      BY DEF TypeOK
    <3> QED
      BY <3>1, EvidenceAssumption DEF TypeOK
  <2>2. ASSUME NEW g \in gaps'
        PROVE  \/ g \in gaps
               \/ \E n \in RequiredSources \cup rejected : g.about = <<n>>
               \/ g.about \in conflicts
    BY DEF Finish, CoverageGap
  <2> QED
    BY <2>1, <2>2 DEF TypeOK
<1>3. TypeOK'
  BY <1>1, <1>2 DEF TypeOK, Refs
<1>4. Taken' /\ Swept' /\ Minimal'
  BY <1>1 DEF Taken, Swept, Minimal, ClosedUnder
<1>5. Reported'
  BY <1>1 DEF Finish, Reported
<1> QED
  BY <1>3, <1>4, <1>5

(* The invariant is inductive.                                             *)
THEOREM EvidenceInvariant == Spec => []IInv
<1>1. IInv /\ [Next]_vars => IInv'
  <2> SUFFICES ASSUME IInv, [Next]_vars PROVE IInv'
    OBVIOUS
  <2>1. CASE UNCHANGED vars
    BY <2>1 DEF vars, IInv, TypeOK, Refs, Taken, Swept, Minimal, Reported, ClosedUnder
  <2>2. CASE \E line \in Envelopes \cup {Unusable} : Read(line)
    BY <2>2, ReadInvariant
  <2>3. CASE ReadEnds \/ SweepEnds
    BY <2>3, SweepInvariant
  <2>4. ASSUME NEW e \in todo, Attribute(e)
        PROVE  IInv'
    BY <2>4, AttributeInvariant
  <2>5. ASSUME NEW e \in todo,
               \/ ProjectGap(e) \/ ProjectHeartbeat(e) \/ ProjectIgnored(e)
               \/ ProjectResponse(e) \/ ProjectRaises(e)
        PROVE  IInv'
    BY <2>5, ProjectInvariant
  <2>6. CASE Finish
    BY <2>6, FinishInvariant
  <2> QED
    BY <2>1, <2>2, <2>3, <2>4, <2>5, <2>6 DEF Next
<1> QED
  BY <1>1, InitInvariant, PTL DEF Spec

(* Every reachable state of project is well typed.                         *)
THEOREM TypeCorrect == Spec => []TypeOK
<1>1. IInv => TypeOK
  BY DEF IInv
<1> QED
  BY <1>1, EvidenceInvariant, PTL

(* For every bundle, in whatever order the events are swept over,          *)
(* attribution ends with the least closed set of Pods.                     *)
THEOREM Attribution == Spec => []AttributionLeast
<1>1. IInv => AttributionLeast
  BY DEF IInv, Swept, Minimal, AttributionLeast
<1> QED
  BY <1>1, EvidenceInvariant, PTL

(* For every bundle each line is part of the evidence or has a gap that    *)
(* stands for it.                                                          *)
THEOREM Accounting == Spec => []EvidenceAccounted
<1>1. IInv => EvidenceAccounted
  <2> SUFFICES ASSUME IInv, pc = "done" PROVE EvidenceAccounted
    BY DEF EvidenceAccounted
  <2>1. \A i \in 1..Len(lines) : lines[i] = Unusable => CoverageGap("rejected_evidence", <<i>>) \in gaps
    BY DEF IInv, Taken, Reported
  <2>2. \A e \in Delivered : \E i \in 1..Len(lines) : e = lines[i] /\ e # Unusable
    BY DEF Delivered
  <2>3. \A e \in Delivered : /\ \E f \in accepted : Key(f) = Key(e)
                             /\ e \in accepted \/ Key(e) \in conflicts
    BY <2>2 DEF IInv, Taken
  <2>4. ASSUME NEW e \in Delivered, NEW f \in Delivered, e # f, Key(e) = Key(f)
        PROVE  CoverageGap("conflicting_evidence", Key(e)) \in gaps
    <3>1. Key(e) \in conflicts
      BY <2>3, <2>4 DEF IInv, Taken
    <3> QED
      BY <3>1 DEF IInv, Reported
  <2> QED
    BY <2>1, <2>3, <2>4 DEF EvidenceAccounted
<1> QED
  BY <1>1, EvidenceInvariant, PTL

-----------------------------------------------------------------------------
(* What project makes of a set S of events, whatever their order.          *)

Found(S) == {e \in S : ByAttacker(e, attackerPods)}

TokenUses(S) == {e \in Found(S) : ShowsToken(e)}

FirstUses(S) ==
    {e \in TokenUses(S) :
        \A f \in TokenUses(S) : CredentialId(f) = CredentialId(e) => Precedes(e, f)}

CredentialOf(e) == [id |-> CredentialId(e), user |-> e.user, expires |-> e.expires]

SeededFacts == {Fact("possesses_credential", <<c>>, Seeded) : c \in SeededCredentials}

OpenGaps(S) == {e \in S : e.type = "collector.gap" /\ e.gap \notin ResolvedGaps}

FactsOf(S) == UNION {FactsFrom(e) : e \in Found(S)}

LeftGaps(S) == UNION {GapsFrom(e) : e \in Found(S)}

NotedGaps(S) == {CoverageGap("observation_gap", Key(e)) : e \in OpenGaps(S)}

HeartbeatsOf(S) == {<<e.source, e.at>> : e \in {f \in S : f.type = "collector.heartbeat"}}

(* The events that the last loop has come to are those before the others,  *)
(* and the result so far is theirs.                                        *)
Projected(S) ==
    /\ facts = SeededFacts \cup FactsOf(S)
    /\ credentials = {CredentialOf(e) : e \in FirstUses(S)}
    /\ \A e \in TokenUses(S) : \E c \in credentials : c.id = CredentialId(e)
    /\ heartbeats = HeartbeatsOf(S)

ReportedGaps ==
    {CoverageGap("stale_evidence", <<s>>) : s \in {r \in RequiredSources : Stale(r)}}
    \cup {CoverageGap("rejected_evidence", <<n>>) : n \in rejected}
    \cup {CoverageGap("conflicting_evidence", k) : k \in conflicts}

ProjectionInv ==
    /\ accepted \subseteq Delivered
    /\ pc \in {"read", "attribute"} => Projected({}) /\ gaps = {}
    /\ pc = "project" =>
          /\ \A e \in accepted \ todo, f \in todo : Precedes(e, f)
          /\ Projected(accepted \ todo)
          /\ gaps = LeftGaps(accepted \ todo) \cup NotedGaps(accepted \ todo)
    /\ pc = "done" => /\ Projected(accepted)
                      /\ gaps = LeftGaps(accepted) \cup NotedGaps(accepted) \cup ReportedGaps

(* No two events come at the same place.                                   *)
LEMMA OrderStrict ==
    ASSUME TypeOK, Taken, NEW e \in accepted, NEW f \in accepted, Precedes(e, f), Precedes(f, e)
    PROVE  e = f
<1>1. /\ e.source \in Nat /\ e.seq \in Nat /\ f.source \in Nat /\ f.seq \in Nat
  BY EvidenceAssumption DEF TypeOK
<1>2. e.source = f.source /\ e.seq = f.seq
  BY <1>1 DEF Precedes
<1>3. Key(e) = Key(f)
  BY <1>2 DEF Key
<1> QED
  BY <1>3 DEF Taken

LEMMA ProjectionInit == Init => ProjectionInv
<1> SUFFICES ASSUME Init PROVE ProjectionInv
  OBVIOUS
<1>1. Found({}) = {} /\ TokenUses({}) = {} /\ FirstUses({}) = {} /\ HeartbeatsOf({}) = {}
  BY DEF Found, TokenUses, FirstUses, HeartbeatsOf
<1>2. FactsOf({}) = {}
  BY <1>1 DEF FactsOf
<1>3. Projected({})
  BY <1>1, <1>2 DEF Init, Projected, SeededFacts
<1> QED
  BY <1>3 DEF Init, ProjectionInv

(* What the next event adds.                                               *)
LEMMA FoundStep ==
    ASSUME NEW S, NEW e
    PROVE  /\ ByAttacker(e, attackerPods) => Found(S \cup {e}) = Found(S) \cup {e}
           /\ ~ByAttacker(e, attackerPods) => Found(S \cup {e}) = Found(S)
BY DEF Found

LEMMA FactsStep ==
    ASSUME NEW S, NEW e
    PROVE  /\ ByAttacker(e, attackerPods) => FactsOf(S \cup {e}) = FactsOf(S) \cup FactsFrom(e)
           /\ ~ByAttacker(e, attackerPods) => FactsOf(S \cup {e}) = FactsOf(S)
<1>1. \A T : \A x : x \in FactsOf(T) <=> \E f \in Found(T) : x \in FactsFrom(f)
  BY DEF FactsOf
<1>2. \A x : x \in FactsOf(S \cup {e})
               <=> x \in FactsOf(S) \/ (ByAttacker(e, attackerPods) /\ x \in FactsFrom(e))
  BY <1>1, FoundStep
<1> QED
  BY <1>2

LEMMA LeftStep ==
    ASSUME NEW S, NEW e
    PROVE  /\ ByAttacker(e, attackerPods) => LeftGaps(S \cup {e}) = LeftGaps(S) \cup GapsFrom(e)
           /\ ~ByAttacker(e, attackerPods) => LeftGaps(S \cup {e}) = LeftGaps(S)
<1>1. \A T : \A x : x \in LeftGaps(T) <=> \E f \in Found(T) : x \in GapsFrom(f)
  BY DEF LeftGaps
<1>2. \A x : x \in LeftGaps(S \cup {e})
               <=> x \in LeftGaps(S) \/ (ByAttacker(e, attackerPods) /\ x \in GapsFrom(e))
  BY <1>1, FoundStep
<1> QED
  BY <1>2

LEMMA NotedStep ==
    ASSUME NEW S, NEW e
    PROVE  NotedGaps(S \cup {e}) =
             NotedGaps(S) \cup When(e.type = "collector.gap" /\ e.gap \notin ResolvedGaps,
                                   {CoverageGap("observation_gap", Key(e))})
BY DEF NotedGaps, OpenGaps, When

LEMMA HeartbeatsStep ==
    ASSUME NEW S, NEW e
    PROVE  HeartbeatsOf(S \cup {e}) =
             HeartbeatsOf(S) \cup When(e.type = "collector.heartbeat", {<<e.source, e.at>>})
BY DEF HeartbeatsOf, When

(* Only the first use of a token is recorded, since the events come in     *)
(* order.                                                                  *)
LEMMA UsesStep ==
    ASSUME NEW S, NEW e, ByAttacker(e, attackerPods), ShowsToken(e),
           \A f \in S : Precedes(f, e) /\ ~Precedes(e, f), Precedes(e, e)
    PROVE  /\ TokenUses(S \cup {e}) = TokenUses(S) \cup {e}
           /\ FirstUses(S \cup {e}) =
                 IF \E f \in TokenUses(S) : CredentialId(f) = CredentialId(e) THEN FirstUses(S)
                 ELSE FirstUses(S) \cup {e}
<1>1. TokenUses(S \cup {e}) = TokenUses(S) \cup {e}
  BY DEF TokenUses, Found
<1>2. \A f \in TokenUses(S) : f \in S
  BY DEF TokenUses, Found
<1>3. ASSUME NEW f \in TokenUses(S)
      PROVE  f \in FirstUses(S \cup {e}) <=> f \in FirstUses(S)
  BY <1>1, <1>2, <1>3 DEF FirstUses
<1>4. CASE \E f \in TokenUses(S) : CredentialId(f) = CredentialId(e)
  <2>1. e \notin FirstUses(S \cup {e})
    BY <1>1, <1>2, <1>4 DEF FirstUses
  <2> QED
    BY <1>1, <1>3, <1>4, <2>1 DEF FirstUses
<1>5. CASE ~\E f \in TokenUses(S) : CredentialId(f) = CredentialId(e)
  <2>1. e \in FirstUses(S \cup {e})
    BY <1>1, <1>5 DEF FirstUses
  <2> QED
    BY <1>1, <1>3, <1>5, <2>1 DEF FirstUses
<1> QED
  BY <1>1, <1>4, <1>5

LEMMA UsesKeep ==
    ASSUME NEW S, NEW e, ~(ByAttacker(e, attackerPods) /\ ShowsToken(e))
    PROVE  TokenUses(S \cup {e}) = TokenUses(S) /\ FirstUses(S \cup {e}) = FirstUses(S)
<1>1. TokenUses(S \cup {e}) = TokenUses(S)
  BY DEF TokenUses, Found
<1> QED
  BY <1>1 DEF FirstUses

(* One event of the last loop.                                             *)
LEMMA ProjectStep ==
    ASSUME IInv, ProjectionInv, NEW e \in todo,
           \/ ProjectGap(e) \/ ProjectHeartbeat(e) \/ ProjectIgnored(e)
           \/ ProjectResponse(e) \/ ProjectRaises(e)
    PROVE  ProjectionInv'
<1>1. /\ UNCHANGED <<lines, accepted, rejected, conflicts, attackerPods>>
      /\ todo' = todo \ {e} /\ pc = "project" /\ pc' \in {"project", "invalid"}
      /\ e \in accepted /\ todo \subseteq accepted
      /\ \A f \in todo : Precedes(e, f)
  BY DEF ProjectGap, ProjectHeartbeat, ProjectIgnored, ProjectResponse, ProjectRaises, Projects,
         First, readVars, outVars, IInv, TypeOK
<1>2. accepted' \subseteq Delivered'
  BY <1>1 DEF ProjectionInv, Delivered
<1>3. CASE ProjectRaises(e)
  BY <1>2, <1>3 DEF ProjectRaises, ProjectionInv
<1>4. CASE ~ProjectRaises(e)
  <2>1. PICK S : S = accepted \ todo
    OBVIOUS
  <2>2. accepted' \ todo' = S \cup {e} /\ pc' = "project"
    BY <1>1, <1>4, <2>1 DEF ProjectGap, ProjectHeartbeat, ProjectIgnored, ProjectResponse
  <2>3. \A f \in accepted' \ todo', g \in todo' : Precedes(f, g)
    BY <1>1, <2>1, <2>2 DEF ProjectionInv
  <2>4. Projected(S) /\ gaps = LeftGaps(S) \cup NotedGaps(S)
    BY <1>1, <2>1 DEF ProjectionInv
  <2>5. \A f \in S : Precedes(f, e) /\ ~Precedes(e, f)
    <3>1. ASSUME NEW f \in S PROVE Precedes(f, e) /\ f # e /\ f \in accepted
      BY <1>1, <2>1, <3>1 DEF ProjectionInv
    <3> QED
      BY <1>1, <3>1, OrderStrict DEF IInv
  <2>6. Precedes(e, e)
    BY <1>1
  <2>7. /\ \A T : Projected(T)' <=>
                /\ facts' = SeededFacts \cup FactsOf(T)
                /\ credentials' = {CredentialOf(f) : f \in FirstUses(T)}
                /\ \A f \in TokenUses(T) : \E c \in credentials' : c.id = CredentialId(f)
                /\ heartbeats' = HeartbeatsOf(T)
    BY <1>1 DEF Projected, FactsOf, Found, TokenUses, FirstUses, ShowsToken, FactsFrom
  <2>8. \A T : LeftGaps(T)' = LeftGaps(T) /\ NotedGaps(T)' = NotedGaps(T)
    BY <1>1 DEF LeftGaps, NotedGaps, Found
  <2>9. PICK T : T = S \cup {e}
    OBVIOUS
  <2>10. CASE ProjectGap(e) \/ ProjectHeartbeat(e) \/ ProjectIgnored(e)
    <3>1. ~ByAttacker(e, attackerPods) /\ credentials' = credentials /\ facts' = facts
      BY <2>10 DEF ByAttacker, ProjectGap, ProjectHeartbeat, ProjectIgnored, outVars
    <3>2. /\ gaps' = gaps \cup When(e.type = "collector.gap" /\ e.gap \notin ResolvedGaps,
                                   {CoverageGap("observation_gap", Key(e))})
          /\ heartbeats' = heartbeats \cup When(e.type = "collector.heartbeat", {<<e.source, e.at>>})
      BY <2>10 DEF ProjectGap, ProjectHeartbeat, ProjectIgnored, When, outVars
    <3>3. /\ FactsOf(T) = FactsOf(S) /\ TokenUses(T) = TokenUses(S) /\ FirstUses(T) = FirstUses(S)
          /\ LeftGaps(T) = LeftGaps(S)
      BY <2>9, <3>1, FactsStep, UsesKeep, LeftStep
    <3>4. gaps' = LeftGaps(T) \cup NotedGaps(T) /\ heartbeats' = HeartbeatsOf(T)
      <4>1. PICK A, B : /\ A = When(e.type = "collector.gap" /\ e.gap \notin ResolvedGaps,
                                    {CoverageGap("observation_gap", Key(e))})
                        /\ B = When(e.type = "collector.heartbeat", {<<e.source, e.at>>})
        OBVIOUS
      <4>2. NotedGaps(T) = NotedGaps(S) \cup A /\ HeartbeatsOf(T) = HeartbeatsOf(S) \cup B
        BY <2>9, <4>1, NotedStep, HeartbeatsStep
      <4>3. gaps' = gaps \cup A /\ heartbeats' = heartbeats \cup B
        BY <3>2, <4>1
      <4>4. heartbeats = HeartbeatsOf(S) /\ gaps = LeftGaps(S) \cup NotedGaps(S)
        BY <2>4 DEF Projected
      <4> QED
        BY <3>3, <4>2, <4>3, <4>4
    <3>5. Projected(T)'
      BY <2>4, <2>7, <3>1, <3>3, <3>4 DEF Projected
    <3> QED
      BY <1>2, <2>2, <2>3, <2>8, <2>9, <3>4, <3>5 DEF ProjectionInv
  <2>11. CASE ProjectResponse(e)
    <3>1. e.type = "k8s.api.response" /\ heartbeats' = heartbeats
      BY <2>11 DEF ProjectResponse
    <3>2. HeartbeatsOf(T) = HeartbeatsOf(S) /\ NotedGaps(T) = NotedGaps(S)
      BY <2>9, <3>1, HeartbeatsStep, NotedStep DEF When
    <3>3. facts' = SeededFacts \cup FactsOf(T) /\ gaps' = LeftGaps(T) \cup NotedGaps(T)
      <4>1. CASE ByAttacker(e, attackerPods)
        <5>1. facts' = facts \cup FactsFrom(e) /\ gaps' = gaps \cup GapsFrom(e)
          BY <2>11, <4>1 DEF ProjectResponse
        <5> QED
          BY <2>4, <2>9, <3>2, <4>1, <5>1, FactsStep, LeftStep DEF Projected
      <4>2. CASE ~ByAttacker(e, attackerPods)
        <5>1. facts' = facts /\ gaps' = gaps
          BY <2>11, <4>2 DEF ProjectResponse
        <5> QED
          BY <2>4, <2>9, <3>2, <4>2, <5>1, FactsStep, LeftStep DEF Projected
      <4> QED
        BY <4>1, <4>2
    <3>4. /\ credentials' = {CredentialOf(f) : f \in FirstUses(T)}
          /\ \A f \in TokenUses(T) : \E c \in credentials' : c.id = CredentialId(f)
      <4>1. CASE ~(ByAttacker(e, attackerPods) /\ ShowsToken(e))
        <5>1. credentials' = credentials
          BY <2>11, <4>1 DEF ProjectResponse, CredentialsWith
        <5> QED
          BY <2>4, <2>9, <4>1, <5>1, UsesKeep DEF Projected
      <4>2. CASE ByAttacker(e, attackerPods) /\ ShowsToken(e)
        <5>1. credentials' = CredentialsWith(e)
          BY <2>11, <4>2 DEF ProjectResponse
        <5>2. /\ TokenUses(T) = TokenUses(S) \cup {e}
              /\ FirstUses(T) = IF \E f \in TokenUses(S) : CredentialId(f) = CredentialId(e)
                                THEN FirstUses(S) ELSE FirstUses(S) \cup {e}
          BY <2>5, <2>6, <2>9, <4>2, UsesStep
        <5>3. (\E c \in credentials : c.id = CredentialId(e))
                <=> \E f \in TokenUses(S) : CredentialId(f) = CredentialId(e)
          <6>1. \A c \in credentials : \E f \in TokenUses(S) : CredentialId(f) = c.id
            BY <2>4 DEF Projected, FirstUses, CredentialOf
          <6> QED
            BY <2>4, <6>1 DEF Projected
        <5>4. CASE \E f \in TokenUses(S) : CredentialId(f) = CredentialId(e)
          <6>1. credentials' = credentials /\ FirstUses(T) = FirstUses(S)
            BY <5>1, <5>2, <5>3, <5>4 DEF CredentialsWith
          <6> QED
            BY <2>4, <5>2, <5>3, <5>4, <6>1 DEF Projected
        <5>5. CASE ~\E f \in TokenUses(S) : CredentialId(f) = CredentialId(e)
          <6>1. credentials' = credentials \cup {CredentialOf(e)} /\ FirstUses(T) = FirstUses(S) \cup {e}
            BY <4>2, <5>1, <5>2, <5>3, <5>5 DEF CredentialsWith, CredentialOf
          <6>2. CredentialOf(e).id = CredentialId(e)
            BY DEF CredentialOf
          <6> QED
            BY <2>4, <5>2, <6>1, <6>2 DEF Projected
        <5> QED
          BY <5>4, <5>5
      <4> QED
        BY <4>1, <4>2
    <3>5. Projected(T)'
      BY <2>4, <2>7, <3>1, <3>2, <3>3, <3>4 DEF Projected
    <3> QED
      BY <1>2, <2>2, <2>3, <2>8, <2>9, <3>3, <3>5 DEF ProjectionInv
  <2> QED
    BY <1>4, <2>10, <2>11
<1> QED
  BY <1>3, <1>4

LEMMA ProjectionNext ==
    ASSUME IInv, ProjectionInv, [Next]_vars
    PROVE  ProjectionInv'
<1>1. CASE UNCHANGED vars
  <2>1. /\ UNCHANGED <<lines, accepted, rejected, conflicts, pc, todo, attackerPods, credentials,
                       facts, gaps, heartbeats>>
    BY <1>1 DEF vars
  <2>2. \A S : /\ Projected(S)' <=> Projected(S)
               /\ LeftGaps(S)' = LeftGaps(S) /\ NotedGaps(S)' = NotedGaps(S)
    BY <2>1 DEF Projected, FactsOf, Found, TokenUses, FirstUses, ShowsToken, FactsFrom, LeftGaps,
                NotedGaps
  <2>3. ReportedGaps' = ReportedGaps /\ Delivered' = Delivered
    BY <2>1 DEF ReportedGaps, Stale, Delivered
  <2> QED
    BY <2>1, <2>2, <2>3 DEF ProjectionInv
<1>2. ASSUME NEW line \in Envelopes \cup {Unusable}, Read(line) PROVE ProjectionInv'
  <2>1. /\ pc = "read" /\ pc' = "read" /\ UNCHANGED <<attackerPods, credentials, facts, gaps, heartbeats>>
        /\ lines' = Append(lines, line)
        /\ accepted' \subseteq accepted \cup ({line} \ {Unusable})
    BY <1>2 DEF Read, outVars
  <2>2. /\ lines \in Seq(Envelopes \cup {Unusable}) /\ Len(lines) \in Nat
        /\ Len(lines') = Len(lines) + 1 /\ lines'[Len(lines) + 1] = line
        /\ \A i \in 1..Len(lines) : lines'[i] = lines[i]
    BY <1>2, <2>1 DEF IInv, TypeOK
  <2>3. Delivered \subseteq Delivered' /\ {line} \ {Unusable} \subseteq Delivered'
    BY <2>2 DEF Delivered
  <2>4. accepted' \subseteq Delivered'
    BY <2>1, <2>3 DEF ProjectionInv
  <2>5. Projected({})' /\ gaps' = {}
    BY <2>1 DEF ProjectionInv, Projected, FactsOf, Found, TokenUses, FirstUses, HeartbeatsOf
  <2> QED
    BY <2>1, <2>4, <2>5 DEF ProjectionInv
<1>3. CASE ReadEnds \/ SweepEnds
  <2>1. /\ pc \in {"read", "attribute"} /\ pc' \in {"attribute", "project"}
        /\ todo' = accepted' /\ UNCHANGED <<lines, accepted, attackerPods, credentials, facts, gaps, heartbeats>>
    BY <1>3 DEF ReadEnds, SweepEnds, readVars, outVars
  <2>2. accepted' \ todo' = {} /\ Projected({})' /\ gaps' = {}
    BY <2>1 DEF ProjectionInv, Projected, FactsOf, Found, TokenUses, FirstUses, HeartbeatsOf
  <2>3. LeftGaps({})' \cup NotedGaps({})' = {}
    BY DEF LeftGaps, NotedGaps, OpenGaps, Found
  <2>4. accepted' \subseteq Delivered'
    BY <2>1 DEF ProjectionInv, Delivered
  <2> QED
    BY <2>1, <2>2, <2>3, <2>4 DEF ProjectionInv
<1>4. ASSUME NEW e \in todo, Attribute(e) PROVE ProjectionInv'
  <2>1. /\ pc = "attribute" /\ pc' = pc
        /\ UNCHANGED <<lines, accepted, credentials, facts, gaps, heartbeats>>
    BY <1>4 DEF Attribute, readVars, outVars
  <2>2. Projected({})' /\ gaps' = {}
    BY <2>1 DEF ProjectionInv, Projected, FactsOf, Found, TokenUses, FirstUses, HeartbeatsOf
  <2>3. accepted' \subseteq Delivered'
    BY <2>1 DEF ProjectionInv, Delivered
  <2> QED
    BY <2>1, <2>2, <2>3 DEF ProjectionInv
<1>5. ASSUME NEW e \in todo,
             \/ ProjectGap(e) \/ ProjectHeartbeat(e) \/ ProjectIgnored(e)
             \/ ProjectResponse(e) \/ ProjectRaises(e)
      PROVE  ProjectionInv'
  BY <1>5, ProjectStep
<1>6. CASE Finish
  <2>1. /\ pc = "project" /\ pc' = "done" /\ todo = {}
        /\ UNCHANGED <<lines, accepted, rejected, conflicts, attackerPods, credentials, facts, heartbeats>>
        /\ gaps' = gaps \cup ReportedGaps
    BY <1>6 DEF Finish, ReportedGaps, readVars
  <2>2. accepted \ todo = accepted
    BY <2>1
  <2>3. Projected(accepted) /\ gaps = LeftGaps(accepted) \cup NotedGaps(accepted)
    BY <2>1, <2>2 DEF ProjectionInv
  <2>4. Projected(accepted)'
    BY <2>1, <2>3 DEF Projected, FactsOf, Found, TokenUses, FirstUses, ShowsToken, FactsFrom
  <2>5. /\ LeftGaps(accepted)' = LeftGaps(accepted) /\ NotedGaps(accepted)' = NotedGaps(accepted)
        /\ ReportedGaps' = ReportedGaps
    BY <2>1 DEF LeftGaps, NotedGaps, Found, ReportedGaps, Stale
  <2>6. accepted' \subseteq Delivered'
    BY <2>1 DEF ProjectionInv, Delivered
  <2> QED
    BY <2>1, <2>3, <2>4, <2>5, <2>6 DEF ProjectionInv
<1> QED
  BY <1>1, <1>2, <1>3, <1>4, <1>5, <1>6 DEF Next

(* At every moment the result is that of the events gone through, as a     *)
(* set.                                                                    *)
THEOREM ProjectionInvariant == Spec => []ProjectionInv
<1>1. IInv /\ ProjectionInv /\ [Next]_vars => ProjectionInv'
  BY ProjectionNext
<1> QED
  BY <1>1, ProjectionInit, EvidenceInvariant, PTL DEF Spec

(* For every bundle without a conflict, facts, credentials and gaps are    *)
(* those of the set of records it delivered: neither the order of the      *)
(* lines nor how often a record came makes a difference to project.        *)
THEOREM DeliveryOrderIrrelevant == Spec => []DeliveryIrrelevant
<1>1. ASSUME IInv, ProjectionInv, pc = "done", conflicts = {} PROVE DeliveryIrrelevant
  <2>1. accepted = Delivered
    <3>1. \A e \in Delivered : \E i \in 1..Len(lines) : e = lines[i] /\ e # Unusable
      BY DEF Delivered
    <3>2. \A e \in Delivered : e \in accepted
      BY <1>1, <3>1 DEF IInv, Taken
    <3> QED
      BY <1>1, <3>2 DEF ProjectionInv
  <2>2. Projected(Delivered) /\ gaps = LeftGaps(Delivered) \cup NotedGaps(Delivered) \cup ReportedGaps
    BY <1>1, <2>1 DEF ProjectionInv
  <2>3. Successes = Found(Delivered)
    BY DEF Successes, Found
  <2>4. facts = {Fact("possesses_credential", <<c>>, Seeded) : c \in SeededCredentials}
                \cup UNION {FactsFrom(e) : e \in Successes}
    BY <2>2, <2>3 DEF Projected, FactsOf, SeededFacts
  <2>5. credentials = {[id |-> CredentialId(e), user |-> e.user, expires |-> e.expires] :
                          e \in {f \in Successes : ShowsToken(f) /\ FirstUse(f)}}
    <3>1. FirstUses(Delivered) = {f \in Successes : ShowsToken(f) /\ FirstUse(f)}
      BY <2>3 DEF FirstUses, TokenUses, FirstUse
    <3> QED
      BY <2>2, <3>1 DEF Projected, CredentialOf
  <2>6. /\ \A g \in LeftGaps(Delivered) : g.kind = "missing_metadata"
        /\ \A g \in NotedGaps(Delivered) : g.kind = "observation_gap"
        /\ \A g \in ReportedGaps : g.kind \notin {"missing_metadata", "observation_gap"}
    <3>1. \A e : \A g \in GapsFrom(e) : g.kind = "missing_metadata"
      BY DEF GapsFrom, When, CoverageGap
    <3> QED
      BY <3>1 DEF LeftGaps, NotedGaps, ReportedGaps, CoverageGap
  <2>7. ASSUME NEW s \in RequiredSources
        PROVE  CoverageGap("stale_evidence", <<s>>) \in gaps
                   <=> \A t \in HeartbeatTimes(s) : t < OldestHeartbeat
    <3>1. Stale(s) <=> \A t \in HeartbeatTimes(s) : t < OldestHeartbeat
      <4>1. heartbeats = HeartbeatsOf(Delivered)
        BY <2>2 DEF Projected
      <4>2. \A h \in heartbeats : h[1] = s => h[2] \in HeartbeatTimes(s)
        BY <4>1 DEF HeartbeatTimes, HeartbeatsOf
      <4>3. ASSUME NEW t \in HeartbeatTimes(s) PROVE \E h \in heartbeats : h[1] = s /\ h[2] = t
        <5>1. PICK e \in Delivered : e.type = "collector.heartbeat" /\ e.source = s /\ e.at = t
          BY <4>3 DEF HeartbeatTimes
        <5>2. <<e.source, e.at>> \in heartbeats
          BY <4>1, <5>1 DEF HeartbeatsOf
        <5> QED
          BY <5>1, <5>2
      <4> QED
        BY <4>2, <4>3 DEF Stale
    <3>2. CoverageGap("stale_evidence", <<s>>).kind = "stale_evidence"
      BY DEF CoverageGap
    <3>3. CoverageGap("stale_evidence", <<s>>) \in gaps
            <=> CoverageGap("stale_evidence", <<s>>) \in ReportedGaps
      BY <2>2, <2>6, <3>2
    <3>4. CoverageGap("stale_evidence", <<s>>) \in ReportedGaps <=> Stale(s)
      BY <2>7 DEF ReportedGaps, CoverageGap
    <3> QED
      BY <3>1, <3>3, <3>4
  <2>8. {g.about : g \in {h \in gaps : h.kind \in {"missing_metadata", "observation_gap"}}}
          = {Key(e) : e \in {f \in Successes : GapsFrom(f) # {}}}
            \cup {Key(e) : e \in {f \in Delivered : f.type = "collector.gap" /\ f.gap \notin ResolvedGaps}}
    <3>1. {h \in gaps : h.kind \in {"missing_metadata", "observation_gap"}}
            = LeftGaps(Delivered) \cup NotedGaps(Delivered)
      BY <2>2, <2>6
    <3>2. {g.about : g \in LeftGaps(Delivered)} = {Key(e) : e \in {f \in Successes : GapsFrom(f) # {}}}
      <4>1. \A e : \A g \in GapsFrom(e) : g.about = Key(e)
        BY DEF GapsFrom, When, CoverageGap
      <4>2. \A x : x \in LeftGaps(Delivered) <=> \E e \in Successes : x \in GapsFrom(e)
        BY <2>3 DEF LeftGaps
      <4> QED
        BY <4>1, <4>2
    <3>3. {g.about : g \in NotedGaps(Delivered)}
            = {Key(e) : e \in {f \in Delivered : f.type = "collector.gap" /\ f.gap \notin ResolvedGaps}}
      <4>1. \A e : CoverageGap("observation_gap", Key(e)).about = Key(e)
        BY DEF CoverageGap
      <4> QED
        BY <4>1 DEF NotedGaps, OpenGaps
    <3> QED
      BY <3>1, <3>2, <3>3
  <2> QED
    BY <2>4, <2>5, <2>7, <2>8 DEF DeliveryIrrelevant
<1>2. IInv /\ ProjectionInv => DeliveryIrrelevant
  BY <1>1 DEF DeliveryIrrelevant
<1> QED
  BY <1>2, EvidenceInvariant, ProjectionInvariant, PTL
=============================================================================
