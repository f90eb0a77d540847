------------------------------ MODULE Evidence ------------------------------
(***************************************************************************)
(* packages/afterlock/evidence.py: project turns the lines of a replay     *)
(* bundle into the facts, credentials and coverage gaps that the engine    *)
(* starts from.  Lines are read, checked and deduplicated (_events); then  *)
(* the Pods of the attacker are found by sweeping over the events until    *)
(* nothing changes; then each event is projected.                          *)
(*                                                                         *)
(* An envelope is a record of the fields that project looks at, None where *)
(* one is missing.  What makes a line unusable is left out: it is the line *)
(* Unusable.                                                               *)
(***************************************************************************)
EXTENDS Integers, Sequences, FiniteSets

CONSTANTS
    Envelopes,        \* envelopes that validate_envelope accepts
    None,             \* a field that is missing
    Unusable,         \* a line that is rejected
    Malformed,        \* a credential_expires_at that parse_time refuses
    AttackerUsers,    \* usernames of the compromised credentials
    SeededCredentials,\* ids of the compromised credentials
    InventoryPods,    \* UIDs of the Pods of the inventory
    ControllerOf,     \* their controllers
    SecretVersions,   \* version of each Secret <<namespace, name>> of the inventory
    DefaultAudience,  \* the profile's first api_audience
    ResolvedGaps,     \* case.resolved_gaps
    RequiredSources,  \* case.required_sources
    OldestHeartbeat,  \* analysis_time - max_evidence_staleness_seconds
    MaxLines          \* bound on the lines of the bundle

Key(e) == <<e.source, e.seq>>

(* The order of the events: by source and sequence number.                 *)
Precedes(e, f) == e.source < f.source \/ (e.source = f.source /\ e.seq <= f.seq)

ASSUME EvidenceAssumption ==
    /\ Unusable \notin Envelopes
    /\ \A e \in Envelopes : e.source \in Nat /\ e.seq \in Nat
    /\ MaxLines \in Nat

VARIABLES
    lines,         \* the lines read so far
    accepted,      \* by_key
    rejected,      \* Diagnostics.rejected: line numbers
    conflicts,     \* Diagnostics.conflicts: keys
    pc,            \* where project is
    todo,          \* the events that the present loop has not come to
    changed,       \* changed
    attackerPods,  \* attacker_pods
    credentials,   \* credentials observed, with their expiry
    facts,         \* facts, one for each piece of evidence
    gaps,          \* coverage gaps
    heartbeats     \* the heartbeats seen: source and time

readVars == <<lines, accepted, rejected, conflicts>>
outVars == <<credentials, facts, gaps, heartbeats>>
vars == <<lines, accepted, rejected, conflicts, pc, todo, changed, attackerPods,
          credentials, facts, gaps, heartbeats>>

Fact(kind, args, evidence) == [kind |-> kind, args |-> args, evidence |-> evidence]

(* A gap is about a record, by its key, about a line or about a source.    *)
CoverageGap(kind, about) == [kind |-> kind, about |-> about]

(* The evidence of what the case assumes.                                  *)
Seeded == <<>>

Init ==
    /\ lines = <<>> /\ accepted = {} /\ rejected = {} /\ conflicts = {}
    /\ pc = "read" /\ todo = {} /\ changed = FALSE
    /\ attackerPods = {}
    /\ credentials = {}
    /\ facts = {Fact("possesses_credential", <<c>>, Seeded) : c \in SeededCredentials}
    /\ gaps = {}
    /\ heartbeats = {}

-----------------------------------------------------------------------------
(* _events.                                                                *)

(* Read that keeps the last of several records without a word.             *)
ReadLast(line) ==
    /\ pc = "read"
    /\ Len(lines) < MaxLines
    /\ lines' = Append(lines, line)
    /\ IF line = Unusable
       THEN rejected' = rejected \cup {Len(lines) + 1} /\ UNCHANGED accepted
       ELSE accepted' = {e \in accepted : Key(e) # Key(line)} \cup {line} /\ UNCHANGED rejected
    /\ UNCHANGED <<conflicts, pc, todo, changed, attackerPods, outVars>>

(* One line.  The first record of a source and sequence number is taken;   *)
(* the same again is a duplicate, a different one a conflict.              *)
Read(line) ==
    /\ pc = "read"
    /\ Len(lines) < MaxLines
    /\ lines' = Append(lines, line)
    /\ LET previous == {e \in accepted : Key(e) = Key(line)}
       IN  IF line = Unusable
           THEN rejected' = rejected \cup {Len(lines) + 1} /\ UNCHANGED <<accepted, conflicts>>
           ELSE /\ accepted' = IF previous = {} THEN accepted \cup {line} ELSE accepted
                /\ conflicts' = IF previous \subseteq {line} THEN conflicts ELSE conflicts \cup {Key(line)}
                /\ UNCHANGED rejected
    /\ UNCHANGED <<pc, todo, changed, attackerPods, outVars>>

ReadEnds ==
    /\ pc = "read"
    /\ pc' = "attribute"
    /\ todo' = accepted
    /\ changed' = FALSE
    /\ UNCHANGED <<readVars, attackerPods, outVars>>

-----------------------------------------------------------------------------
(* Attribution.                                                            *)

(* e is the event that the loop comes to next.                             *)
First(e) == e \in todo /\ \A f \in todo : Precedes(e, f)

(* A successful request of the attacker, whose Pods are P.                 *)
ByAttacker(e, P) ==
    /\ e.type = "k8s.api.response"
    /\ e.user \in AttackerUsers \/ e.pod \in P
    /\ e.ok

CreatesPod(e) == e.verb = "create" /\ e.resource \in {"pods", "pods/exec"} /\ e.uid # None

CreatesController(e) == e.verb = "create" /\ e.resource = "deployments" /\ e.uid # None

(* The Pods that are the attacker's because of the event.                  *)
PodsGained(e) ==
    IF CreatesPod(e) THEN {e.uid}
    ELSE IF CreatesController(e) THEN {p \in InventoryPods : ControllerOf[p] = e.uid}
    ELSE {}

(* An attribution that never takes an event for nothing new.               *)
AttributeAlways(e) ==
    /\ pc = "attribute"
    /\ First(e)
    /\ LET gained == IF ByAttacker(e, attackerPods) THEN PodsGained(e) ELSE {}
       IN  /\ attackerPods' = attackerPods \cup gained
           /\ changed' = (changed \/ gained # {})
    /\ todo' = todo \ {e}
    /\ UNCHANGED <<readVars, pc, outVars>>

Attribute(e) ==
    /\ pc = "attribute"
    /\ First(e)
    /\ LET gained == IF ByAttacker(e, attackerPods) THEN PodsGained(e) ELSE {}
       IN  /\ attackerPods' = attackerPods \cup gained
           /\ changed' = (changed \/ ~(gained \subseteq attackerPods))
    /\ todo' = todo \ {e}
    /\ UNCHANGED <<readVars, pc, outVars>>

(* One sweep only.                                                         *)
SweepEndsOnce ==
    /\ pc = "attribute"
    /\ todo = {}
    /\ todo' = accepted
    /\ changed' = FALSE
    /\ pc' = "project"
    /\ UNCHANGED <<readVars, attackerPods, outVars>>

SweepEnds ==
    /\ pc = "attribute"
    /\ todo = {}
    /\ todo' = accepted
    /\ changed' = FALSE
    /\ pc' = IF changed THEN "attribute" ELSE "project"
    /\ UNCHANGED <<readVars, attackerPods, outVars>>

-----------------------------------------------------------------------------
(* Projection.                                                             *)

CredentialId(e) == <<e.pod, IF e.audience = None THEN DefaultAudience ELSE e.audience>>

(* The request shows that the attacker has the token it was made with.     *)
ShowsToken(e) == e.pod \in attackerPods /\ e.user # None

(* A credential recorded anew at each use.                                 *)
CredentialsLatest(e) ==
    IF ~ShowsToken(e) THEN credentials
    ELSE {c \in credentials : c.id # CredentialId(e)} \cup
         {[id |-> CredentialId(e), user |-> e.user, expires |-> e.expires]}

(* setdefault: the first use counts.                                       *)
CredentialsWith(e) ==
    IF ~ShowsToken(e) \/ \E c \in credentials : c.id = CredentialId(e) THEN credentials
    ELSE credentials \cup {[id |-> CredentialId(e), user |-> e.user, expires |-> e.expires]}

ReadsSecret(e) == e.verb = "get" /\ e.resource = "secrets" /\ e.namespace # None /\ e.name # None

(* The Secrets of the inventory whose data a list or watch returned.       *)
ListedSecrets(e) ==
    {s \in DOMAIN SecretVersions :
        /\ e.verb \in {"list", "watch"} /\ e.resource = "secrets"
        /\ e.namespace \in {None, s[1]}
        /\ e.name \in {None, s[2]}}

VersionRead(e) ==
    IF e.version # None THEN e.version
    ELSE IF <<e.namespace, e.name>> \in DOMAIN SecretVersions THEN SecretVersions[<<e.namespace, e.name>>]
    ELSE None

(* The facts of an event of the attacker, and the gaps it leaves.          *)
When(condition, S) == IF condition THEN S ELSE {}

AccountKnown(e) == None \notin {e.sa, e.namespace}

FactsFrom(e) ==
    When(ShowsToken(e), {Fact("possesses_credential", CredentialId(e), Key(e))})
    \cup When(CreatesPod(e), {Fact("controls_pod", <<e.uid>>, Key(e))})
    \cup When(CreatesPod(e) /\ e.uid \notin InventoryPods /\ AccountKnown(e),
              {Fact("historical_pod", <<e.uid, e.namespace, e.sa>>, Key(e))})
    \cup When(CreatesController(e), {Fact("controls_controller", <<e.uid>>, Key(e))})
    \cup When(ReadsSecret(e) /\ VersionRead(e) # None,
              {Fact("knows_secret", <<e.namespace, e.name, VersionRead(e)>>, Key(e))})
    \cup {Fact("knows_secret", <<s[1], s[2], SecretVersions[s]>>, Key(e)) : s \in ListedSecrets(e)}

GapsFrom(e) ==
    When(CreatesPod(e) /\ e.uid \notin InventoryPods /\ ~AccountKnown(e),
         {CoverageGap("missing_metadata", Key(e))})
    \cup When(ReadsSecret(e) /\ VersionRead(e) = None,
              {CoverageGap("missing_metadata", Key(e))})

Projects(e) ==
    /\ pc = "project"
    /\ First(e)
    /\ todo' = todo \ {e}

ProjectGap(e) ==
    /\ Projects(e)
    /\ e.type = "collector.gap"
    /\ gaps' = gaps \cup When(e.gap \notin ResolvedGaps,
                              {CoverageGap("observation_gap", Key(e))})
    /\ UNCHANGED <<readVars, pc, changed, attackerPods, credentials, facts, heartbeats>>

ProjectHeartbeat(e) ==
    /\ Projects(e)
    /\ e.type = "collector.heartbeat"
    /\ heartbeats' = heartbeats \cup {<<e.source, e.at>>}
    /\ UNCHANGED <<readVars, pc, changed, attackerPods, credentials, facts, gaps>>

(* Receipts of the laboratory, and types that are not supported.           *)
ProjectIgnored(e) ==
    /\ Projects(e)
    /\ e.type \notin {"collector.gap", "collector.heartbeat", "k8s.api.response"}
    /\ UNCHANGED <<readVars, pc, changed, attackerPods, outVars>>

(* parse_time raises BundleError: there is no analysis input.              *)
ExpiryRefused(e) == ByAttacker(e, attackerPods) /\ ShowsToken(e) /\ e.expires = Malformed

ProjectResponse(e) ==
    /\ Projects(e)
    /\ e.type = "k8s.api.response"
    /\ ~ExpiryRefused(e)
    /\ IF ByAttacker(e, attackerPods)
       THEN /\ credentials' = CredentialsWith(e)
            /\ facts' = facts \cup FactsFrom(e)
            /\ gaps' = gaps \cup GapsFrom(e)
       ELSE UNCHANGED <<credentials, facts, gaps>>
    /\ UNCHANGED <<readVars, pc, changed, attackerPods, heartbeats>>

ProjectRaises(e) ==
    /\ Projects(e)
    /\ e.type = "k8s.api.response"
    /\ ExpiryRefused(e)
    /\ pc' = "invalid"
    /\ UNCHANGED <<readVars, changed, attackerPods, outVars>>

Stale(s) == \A h \in heartbeats : h[1] = s => h[2] < OldestHeartbeat

Finish ==
    /\ pc = "project"
    /\ todo = {}
    /\ pc' = "done"
    /\ gaps' = gaps \cup {CoverageGap("stale_evidence", <<s>>) : s \in {r \in RequiredSources : Stale(r)}}
                    \cup {CoverageGap("rejected_evidence", <<n>>) : n \in rejected}
                    \cup {CoverageGap("conflicting_evidence", k) : k \in conflicts}
    /\ UNCHANGED <<readVars, todo, changed, attackerPods, credentials, facts, heartbeats>>

Next ==
    \/ \E line \in Envelopes \cup {Unusable} : Read(line)
    \/ ReadEnds
    \/ SweepEnds
    \/ \E e \in todo :
         \/ Attribute(e)
         \/ ProjectGap(e)
         \/ ProjectHeartbeat(e)
         \/ ProjectIgnored(e)
         \/ ProjectResponse(e)
         \/ ProjectRaises(e)
    \/ Finish

Spec == Init /\ [][Next]_vars /\ WF_vars(Next)
-----------------------------------------------------------------------------
(* Properties.                                                             *)

Refs == {Key(e) : e \in Envelopes}

TypeOK ==
    /\ lines \in Seq(Envelopes \cup {Unusable}) /\ Len(lines) <= MaxLines
    /\ accepted \subseteq Envelopes /\ todo \subseteq accepted
    /\ rejected \subseteq 1..Len(lines) /\ conflicts \subseteq Refs
    /\ pc \in {"read", "attribute", "project", "done", "invalid"}
    /\ changed \in BOOLEAN
    /\ attackerPods \subseteq InventoryPods \cup {e.uid : e \in accepted}
    /\ \A c, d \in credentials : c.id = d.id => c = d
    /\ \A f \in facts : f.evidence \in Refs \cup {Seeded}
    /\ \A g \in gaps : g.about \in Refs \cup {<<n>> : n \in RequiredSources \cup 1..MaxLines}

Delivered == {lines[i] : i \in 1..Len(lines)} \ {Unusable}

(* Whatever the order of the events, attribution stops at the least set of *)
(* Pods that contains every Pod which a user of the attacker, or a Pod of  *)
(* the set, created or entered, directly or through a controller.          *)
ClosedUnder(P) == \A e \in accepted : ByAttacker(e, P) => PodsGained(e) \subseteq P

AttributionLeast ==
    pc \in {"project", "done"} =>
        /\ ClosedUnder(attackerPods)
        /\ \A P \in SUBSET attackerPods : ClosedUnder(P) => P = attackerPods

(* No line is lost: each is part of the evidence, or a gap stands for it,  *)
(* in particular where a source gave two records the same number.          *)
EvidenceAccounted ==
    pc = "done" =>
        /\ \A i \in 1..Len(lines) :
               lines[i] = Unusable => CoverageGap("rejected_evidence", <<i>>) \in gaps
        /\ \A e, f \in Delivered :
               e # f /\ Key(e) = Key(f) => CoverageGap("conflicting_evidence", Key(e)) \in gaps
        /\ \A e \in Delivered : \E f \in accepted : Key(f) = Key(e)

(* The result depends on which records were delivered, and neither on      *)
(* their order nor on how often each came: with no conflict, facts, gaps   *)
(* and credentials are those of the set of records.                        *)
Successes == {e \in Delivered : ByAttacker(e, attackerPods)}

FirstUse(e) == \A f \in Successes : ShowsToken(f) /\ CredentialId(f) = CredentialId(e) => Precedes(e, f)

HeartbeatTimes(s) == {e.at : e \in {f \in Delivered : f.type = "collector.heartbeat" /\ f.source = s}}

DeliveryIrrelevant ==
    pc = "done" /\ conflicts = {} =>
        /\ facts = {Fact("possesses_credential", <<c>>, Seeded) : c \in SeededCredentials}
                   \cup UNION {FactsFrom(e) : e \in Successes}
        /\ credentials = {[id |-> CredentialId(e), user |-> e.user, expires |-> e.expires] :
                              e \in {f \in Successes : ShowsToken(f) /\ FirstUse(f)}}
        /\ \A s \in RequiredSources :
               CoverageGap("stale_evidence", <<s>>) \in gaps
                   <=> \A t \in HeartbeatTimes(s) : t < OldestHeartbeat
        /\ {g.about : g \in {h \in gaps : h.kind \in {"missing_metadata", "observation_gap"}}}
               = {Key(e) : e \in {f \in Successes : GapsFrom(f) # {}}}
                 \cup {Key(e) : e \in {f \in Delivered : f.type = "collector.gap" /\ f.gap \notin ResolvedGaps}}

(* A token that the attacker was seen to use is not taken to expire before *)
(* it does (parse_time: a token is never treated as expired before it      *)
(* actually expires): the credential recorded for a Pod and audience lasts *)
(* as long as each token observed for them.                                *)
NeverExpiredEarly ==
    pc = "done" =>
        \A e \in accepted : ByAttacker(e, attackerPods) /\ ShowsToken(e) =>
            \E c \in credentials :
                /\ c.id = CredentialId(e)
                /\ c.expires = None \/ (e.expires # None /\ e.expires <= c.expires)

(* project ends, however the events depend on each other.                  *)
Terminates == <>(pc \in {"done", "invalid"})
=============================================================================
