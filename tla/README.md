# AFTERLOCK in TLA+

AFTERLOCK decides whether a remediation plan contains an attacker in a
Kubernetes cluster.  This directory holds TLA+ models of the parts of the
program in which a mistake is hard to see in a test: the queue that computes and
publishes analyses, the collector that spools audit evidence and mirrors the
cluster, the projector that turns both into an analysis input, and the engine
that computes the verdict together with the independent checker it is compared
with, the planner that searches for a containing plan, the API's streams and
limits, and the laboratory that confirms predictions on a live cluster.  TLC
checks the models on small instances (the `.cfg` files); TLAPS proves properties
of the job queue, the API's requests, the spool and its webhook, the inventory,
the projector, the engine, the planner and the laboratory for every value of
their constants.

`PROJECT.json` lists the components, the runs, the lines of code every
definition models, a mutant for every property, the hazards and the findings.

## Inventory

| Component | Where | State | Operations | Interaction | What is hard |
|---|---|---|---|---|---|
| Job storage | `services/api/afterlock_api/storage.py`, `migrations/` | the tables jobs, results (and cases, manifests) | enqueue, cancel_job, claim, mark_running, heartbeat, complete, fail, acknowledge_cancel, record_analysis | called by API and workers, concurrently | leases that expire, `now()` taken before the row lock, SKIP LOCKED, caps |
| Worker | `services/worker/afterlock_worker` | the lease, the heartbeat thread's flags | process_one in a loop | storage | crash between two calls, late answers, a cancellation that races publication |
| API | `services/api/afterlock_api/app.py` | rate and connection limiters | cases, jobs, synchronous analyses, event stream | storage, OIDC | check-then-act on cancel, slots of event streams, disconnects |
| OIDC | `oidc.py` | cached keys, refresh times | verify | API | refresh storms, a provider that is down |
| Migration | `migrate.py`, `migrations/*.sql` | schema_migrations | apply pending | database | two migrators at once, a failed step |
| Spool | `services/collector/internal/spool` | the file, size, seq, seen keys, dropped, overflow | Open, Append, Gap, Sync, Records | webhook, log tailer, inventory | crashes, short writes, limits, deduplication |
| Audit intake | `internal/audit`, `cmd/afterlock-collector` | handlers at work | handle, Ingest, shutdown, bundle | API server (retries), spool | retries while the first attempt is at work, fsync before the answer |
| Inventory collector | `internal/inventory` | object store, resource versions | list, watch, snapshot | Kubernetes API, spool | 410 Gone, reconnects, gaps |
| Bundle, redaction | `internal/bundle`, `internal/redact` | – | write, scrub | spool, inventory | data handling |
| Evidence projector | `packages/afterlock/evidence.py` | – | project a bundle to an analysis input | engine | order and duplicates of records, attribution |
| Semantics | `packages/afterlock/semantics.py` | Env | RBAC, tokens, admission, reconcile, defender actions | engine | boundaries of time, UIDs |
| Engine | `packages/afterlock/engine.py` | facts, environment per interval | run_view | semantics, results | interleavings folded into one fixpoint per interval |
| Results | `packages/afterlock/results.py` | – | analyze | engine | what unknowns and bounds mean |
| Reference checker | `packages/afterlock_reference` | explicit states | explore, verify_witnesses | differential tests | independence from the engine |
| Planner | `packages/afterlock/planner.py` | frontier | plan | engine | cost order, cut-offs |
| Laboratory | `labs/supervisor` | the recorded cluster, the receipts of a run, the collector's process and files | create, reset, spike, collect, destroy | kubectl, the cluster's API, collector, analyze | a command that dies half-way, probes without an answer, a kubelet in its own time, a cluster that was replaced, credentials in kept files |
| CLI, web, benchmarks, generators | | – | presentation, scripts | | – |

For each component the properties that make it correct: a job is decided once
and its result is that of the attempt that held it; an accepted cancellation
wins; every job is decided while a worker lives; evidence that was acknowledged
is in the spool, once, in order, and loss leaves a gap; the inventory is a past
state of the cluster, and what was not observed leaves a gap; the projector
attributes to the attacker what follows from the events, whatever their order,
and loses no line without a gap; the engine's verdict is
exactly what some interleaving of attacker and defender reaches; the plan called
optimal is the least valid one; a stream tells what happened and gives its slot
back once; a confirmed receipt of the laboratory is right about the cluster, and
reset restores whatever was left half-done; the conservative view covers the
evidence-supported one; the analysis ends.

## Modules

| Module | Models | Extends / instantiates |
|---|---|---|
| `JobStore` | the job table and the statements of both storage backends on it | |
| `JobQueue` | workers, heartbeat threads and API requests over the table | `JobStore`; refines `JobLifecycle` |
| `JobLifecycle` | what the queue promises: a job is submitted, perhaps cancelled, decided once | |
| `JobQueueProofs` | the proofs about `JobQueue` | `JobQueue` |
| `Api` | event streams, heavy computations and cancellations as requests with their limiters, beside the queue | `JobQueue` |
| `ApiProofs` | the proofs about `Api` | `Api`, `JobQueueProofs` |
| `Spool` | the spool file on disk and in memory | |
| `Webhook` | webhook handlers, retries, crashes, shutdown and bundle over the spool | `Spool` |
| `WebhookProofs` | the proofs about `Spool` and `Webhook` | `Webhook` |
| `Inventory` | the list/watch loops and the store they share; the API server as environment | |
| `Collector` | one run of the collector: requests and their audit records, the loops, the bundle with its correlation | `Inventory` |
| `CollectorProofs` | the proofs about `Inventory` and `Collector` | `Collector` |
| `Evidence` | the projector, line by line and event by event | |
| `EvidenceProofs` | the proofs about `Evidence` | `Evidence` |
| `Semantics` | environments, RBAC, credentials, admission, defender actions | |
| `Case` | an analysis input and its possible past | `Semantics` |
| `Engine` | run_view, both views | `Case` |
| `Results` | the verdict, and the engine's properties | `Engine` |
| `ResultsProofs` | the proofs about `Engine`, `Results`, `Reference` and `Differential` | `Differential` |
| `Reference` | explore, one path of the search per behaviour | `Case` |
| `Differential` | engine and reference on the same input | `Results`, `Reference` |
| `Planner` | the search of `plan` | |
| `PlannerProofs` | the proofs about `Planner` | `Planner` |
| `Lab` | the supervisor's commands call by call, the cluster they change, the collector they run and the receipts they write | |
| `LabProofs` | the proofs about `Lab` | `Lab` |
| `MCJobQueue`, `MCApi`, `MCPlanner`, `MCLab`, `MCWebhook`, `MCCollector`, `MCEvidence`, `MCCase`, `MCEngine`, `MCDifferential` | instances for TLC | |

### Job queue

A row of `jobs` has the columns the code decides on: state, owner, attempts,
max_attempts, cancel, and the expiry of the lease **relative to now**: `Tick`
lets a second pass by decreasing every expiry, so no clock grows without bound.
A storage call is one transaction.  In PostgreSQL `now()` is the transaction's
start, which may lie before the row lock was obtained; a call therefore decides
with a lag of 0 to `MaxLag` seconds, no older than the caller has been at that
point (`age`, `beatAge`).  `MaxLag = 0` and `SkipLocked = FALSE` is the memory
backend, which holds one lock and takes the first claimable job; with
`SkipLocked` any claimable row may be returned, since others may be locked.

`pc[w]` is the call of `process_one` a worker makes next; `Heartbeat` is its
second thread, alive while the executor runs and until the except clause's
`fail` has returned.  `Abandon` is a crash, an exception of the storage or a lost
answer at any point: the worker forgets its lease and the row stays.  Workers
may share an owner name, as concurrent in-process drains do.  Cases and
manifests appear only as `Corrupt`, the jobs whose stored manifest may lose its
digest: `process_one` checks it at every attempt, so any attempt at such a job
may be rejected and any may go on.

### API

`Api` puts requests beside the queue.  `req[r]` is where a request stands: a
stream goes from `job_events` through the response, the generator's loop of
`Emit`, `Poll` and the clock, and its `finally` to the background task; a client
may leave at any point (`Disconnect`), also before the generator starts.  `held`
is the two limiters' count per principal, and the sum of the counts is the size
of their disjoint union (`Slots`).  `cancel_job` reads the job in one step
and asks the store in the next.  A view of a job (`View`) is the key by which
`_events` decides whether there is something new.  Heartbeat comments and the
body of an event are layout.

### Spool and webhook

`records` is the file, `synced` the prefix that fsync covered, `intact` the prefix
that `parseExisting` can read back, `torn` a fragment left by a short write.  A
crash keeps any prefix between `synced` and the end.  `Open` (`Reopen`)
truncates, restores sequence number and seen keys and writes the restart gap.
The handlers run concurrently, one spool call at a time (its mutex); the API
server may send any batch at any time and again.  Items of a batch that are not
of interest change nothing and are left out.  After the shutdown's timeout
handlers may still be at work when the bundle is written.  A line may have any
length: `full` compares what is written already, so a line that is longer than the
byte reserve may use up the room for gaps (`Overrun`).

### Inventory and collector

The API server is a log of changes; a resourceVersion is a position in it and
the content of an object the position of its last change.  The code treats both
as opaque, and the model uses the order of positions only for the server's side.
`pc[s]` is the call that the loop of scope `s` makes next: `list`, `watch`, then
`stream` while `consume` reads.  A list or watch that fails, an error in the
stream and a stream that ends are actions of their own, each with the gap it
records.  `gaps` keeps the scope of the loop that recorded a gap (its text names
the kind).  `specs` is chosen from `Configurations`: cluster-wide loops, or one
loop per namespace for Secrets.  Deleted Pods stay in `history`.  Cancelling the
context stops a loop wherever it is, with changes still pending in its stream.

`Collector` adds the users of the cluster, whose requests leave audit records
with names and without UIDs, and `Correlate`, which finds the Pod of a record
among the Pods observed.  Time is counted in changes, so the one second of
tolerance is one change.  `outcome` is how `run` ended.  When the loops have
returned it writes the bundle (`WriteBundle`) or returns the error of
`RecordWindowGap` or of `bundle.Write`, which fails closed on credential material
and on any failing file operation (`WriteBundleRaises`); before that, a failing
audit log or webhook server makes it return at once (`RunRaises`).

### Evidence

`Read` takes one line after the other: which lines a bundle has, and in which
order, is left open.  Then the loops of `project` go through the records by
source and sequence number; `First(e)` is the record they come to next.  Facts
and gaps are sets, with one element for each piece of evidence.  A line that
`validate_envelope` refuses for any reason is `Unusable`; sources are numbered in
the order of their names.

### Semantics, engine, results

An environment is a record of sets, one per dictionary of `Env`.  An account is
named by `<<namespace, name>>`, which stands for its username.  UIDs of the
engine's making are tuples.  Roles and admission policies are constants, because
no action changes them.  `Engine` follows `run_view`: for each view the possible
past, then the intervals of the remediation; in each, `closure` sweeps over its
rules until a sweep changes nothing.  A step is one rule applied to everything
it applies to.  The code goes through the credentials one at a time instead;
both reach the same closure, since rules only add.  `count` is `_tick`'s counter
and `ExceedBounds` its exception.  Not in the model: provenance (`Derivation`,
witnesses) and the baseline modes, which exist for comparisons.

### Reference and differential

`Reference` is `explore`: single attacker steps and defender steps in any order,
up to `MaxLive` attacker workloads per account, tokens that are never replaced.
The search of the possible past is run to its end and its facts united; the
model takes the facts of an exhausted path, which are the same.  The reference
re-implements the semantics; the model uses `Semantics` for both, so a
difference between the two implementations of RBAC or of `reconcile` would not
show here.  What is compared is fixpoint against search.  `Differential` runs the
engine on an input, then explores a view of it.

### Planner

`Planner` is the loop of `plan`: a heap of sequences of distinct candidates
ordered by cost and label, a cap on the number of analyses, and the statuses.  A
candidate is its index in the sorted list.  The analysis of a sequence is an
outcome chosen when it is popped: the planner must be right about any outcome.
A tariff is a sum of non-negative costs (`DEFAULT_COSTS`), its only assumption.

### Laboratory

`Lab` follows the supervisor's commands call by call: `sup.pc` is the next call
or probe, `lab` the cluster behind the context with its canary, `recorded` the
identity in `labs/.state/lab.json`, `live` the collector that `collect` runs with
what its files hold.  Any call may fail, any probe may go unanswered, `Kill` ends
the supervisor between two calls, `Replace` puts another cluster behind the
context, and the kubelet refreshes the mounted Secret when it likes (`Refresh`).
A cluster that was replaced does not come back: a context that is pointed elsewhere
and back at the recorded cluster within one command is not in the model.  Nor does
`ForeignUntouched` speak of a command whose cluster was replaced while it ran
(`intruded`): `kubectl` is given the context's name, and nothing in the code keeps
a call from reaching the new cluster once the identity has been checked.

## Runs

| Run | Question | Bounds |
|---|---|---|
| `jobqueue_postgres` | fencing, publication, cancellation and refinement under stale `now()` and shared owner names; every job is decided | 1 job that may be corrupt, 2 workers of which 1 is assumed to live, 3 attempts, lease of 2 s, lag up to 2 s |
| `api_requests` | what a stream told, what 202 promises, the limiters' counts, the result cap shared with synchronous analyses; every request ends | 2 requests of one principal, 1 job, 1 worker, cap of 1 result, 2 streams and 1 computation at a time |
| `webhook_intake` | deduplication, order, durability, visible loss, with a write that fails, an event that is refused and a line longer than the byte reserve | 4 events in overlapping batches, 2 handlers, 1 crash, 1 failed write, 5 records with 2 reserved, 12 bytes with 8 reserved |
| `webhook_torn` | finding, below | 3 events, 1 short write, 1 crash |
| `collector_inventory` | the store mirrors the cluster, versions and history are exact or a gap says so, correlation, convergence; a stopped run ends with a bundle or an error | 2 Pods of one name or 2 Secrets in 2 namespaces, 3 changes, 1 failure, 1 request |
| `collector_race` | finding, below | the Pods of the run above |
| `evidence_projection` | attribution, gaps, independence of delivery, termination | up to 4 lines of 14 records and an unusable line |
| `evidence_expiry` | finding, below | the same |
| `engine_analysis` | the views' order, legitimate operations, the derivation count, dead tokens, termination | plans of up to 2 of 10 actions, 5 sets of initial facts, window open or closed, bounds that are exceeded at once or in the last interval |
| `differential_search` | fixpoint = search | a cluster in which the attacker may create pods and exec (plans of up to 3 of 6 actions) and one in which it may create controllers (up to 2 of 6), 3 seeds, 2 workloads per account |
| `planner_search` | the statuses and plans are what the search may say; it ends | 3 candidates at 0 to 2 each, plans of up to 3, caps of 0, 4, 15 and 16 analyses |
| `lab_session` | receipts, evidence, credentials, reset, foreign clusters; every command ends | 3 commands, 1 replaced cluster, `--repeat 2`, 2 rotations |

Why the bounds are enough.  Two workers of one owner name are what every race on
a row needs: a stale holder and its successor; three attempts give a stale
holder, a current one and one more.  A lease of two seconds can be renewed,
nearly expired and expired, and a lag of two spans all of it.  Two requests make
the last slot contested, and a stream, a cancellation and a computation meet in
every combination.  Two handlers and a batch that overlaps another produce every
order of a retry and its first attempt; five records with a reserve of two reach
every branch of the limits, and the long line is accepted with and without room for
a gap behind it.  Three changes create, change and delete an object,
or delete a Pod and create the next of its name; one failure puts a relist or a
resumed watch between any two of them.  Four lines make the longest chain of
attribution of the code (enter a Pod, create one from it, deploy from that one,
act from the deployment's Pod), with sequence numbers against its direction so
that every link costs a sweep.  The cluster of `MCCase` has one step of each kind
on the way to the secret, an account that must be impersonated, a pod that is
replaced, a token that expires during a wait and a service with a propagation
delay; two or three actions are enough to delete, replace and delete again, or
to revoke, wait and rotate.  Three candidates give 15 plans, so that the caps are
met at once, midway, with the last plan and never, and costs of 0 to 2 give ties
across lengths.  Three commands are a create, one that is interrupted and the
one that must cope with what it left.

`CHECK_DEADLOCK FALSE` is set where a behaviour ends: the collector when its
crashes are used up or its run has ended, the projector and the planner when
they are done, the requests when all are answered, the session when its commands
are used up, the differential when the search path has nothing left to do.
Symmetry of handlers is used in the runs of the webhook, which have no liveness.

### Fairness

`JobQueue!FairSpec` assumes that time passes (`Tick`), that a worker which is
inside `process_one` goes on (`Proceed`: every call returns or raises), and that
the workers in `Alive` keep claiming, which is the loop of `__main__.py`.
Nothing is assumed of the others, of clients or of the absence of crashes:
`Abandon` is always possible, and attempts bound it.  `Api` adds that a request
that is being served goes on and that a stream's time limit is reached
(`StreamTimeout`; strong, because sending events may disable it again and
again, while the code compares the clock on each round).  `Engine!FairSpec`,
`Evidence!Spec` and `Planner!FairSpec` assume only that the single-threaded
computation goes on.  `Collector!Spec` assumes of each loop that its calls return
and its stream is read (`List`, `Watch`, `Deliver`) and that it stops when its
context is done, which client-go does for calls in flight; and that `run` goes on
when its loops have stopped, to a bundle or to an error (nothing is assumed of
which, nor that `RunRaises` ever happens).  It assumes nothing of the cluster; `MaxFailures`
means that the API server does not fail for ever, without which `Converges`
could not hold.  `Lab!Spec` assumes that the supervisor goes on or gives up
(every `kubectl` call has a timeout) and that its two polling loops reach their
deadlines.  `Webhook!Spec` has no fairness and no liveness property.

## What is proved

Every theorem holds for all values of the constants that satisfy the module's
named assumptions; TLC evaluates these assumptions on every run.

**`JobQueueProofs`**, for all sets of jobs and workers, any assignment of owner
names, any number of attempts, lease length and lag.  `QueueInvariant` is the
inductive invariant `IInv == TypeOK /\ StoreInv /\ WorkerInv`.  `PublishedOnce`
alone is not inductive: a stale holder must be shown to fail `Holds`, which needs
that two workers never hold the same attempt (`LeasesFenced`), which needs that
no worker's attempt is ahead of the row and that a lease object names a job that
exists (`WorkersInStep`).  From it follow `TypeCorrect`, `ConstraintsHold`,
`Fencing`, `Publication`, `Cancellation`, `HeartbeatFlags`, the action properties
`Settlement` and `Exclusion`, `ResultCap`, and `Refinement`: every step of the
queue is a step of `JobLifecycle` or a stutter.  Every action changes a row in
one of a few ways (`StoreStepEffect`), and the invariant, settlement and
refinement are shown once per way instead of once per action.

**`ApiProofs`**, for any number of requests, principals and limits.
`QueueBesideRequests`: a behaviour with requests is a behaviour of the queue, so
that every theorem above holds beside them.  `StreamsFaithful` and
`CancellationsHonoured` rest on `ApiInv`: what a request read of a job is the
job's past (`Past`), so attempts and cancellations are not taken back.
`SlotsExact` rests on a count per principal of the requests that are between
acquiring and releasing: a stream releases in two places, and `released` is what
keeps the second from counting twice.

**`WebhookProofs`**, for every set of events, batches and handlers and any number
of crashes and failed writes.  `SequenceOrder` and `Deduplication` hold with short
writes too; they rest on `SpoolInv`: the memory knows at least every key in the
part of the file that can be read back.  `AcknowledgedDurable` (under `Sound`: no
fragment was written, without which `webhook_torn` refutes it) and `LossNoted`, for
lines of any length, rest on `IntakeInv`: each item a handler has passed is in the
file or dropped; the reserve is untouched until the first gap unless a line ran
over it, so a drop leaves a gap or is behind such a line (`ReserveKept`,
`OverflowNoted`); no gap is ever written behind one (`NoGapBehind`, from `EndsRise`),
the restart gap included, without which `Open` does not succeed; so where there is
no gap the collector that dropped the event has not been restarted, and its alarm
still stands (`Alarmed`).

**`CollectorProofs`**, for every set of objects and scopes.  The log of the API
server only grows; `InventoryInv` says that everything the store holds of a
scope is a function of the log up to the scope's resourceVersion.  From it
`StoreMirrorsPast`, `VersionsCount` and `PodsTraced`.  The last assumes that the
Pods of a session fit `maxPodHistory` (`PodsFit`): beyond it the code drops Pods
from the history without a gap.

**`EvidenceProofs`**, for every set of records, every case and every number of
lines: `TypeCorrect`, `Attribution` (`AttributionLeast`), `Accounting`
(`EvidenceAccounted`) and `DeliveryOrderIrrelevant` (`DeliveryIrrelevant`).  That the
Pods are closed at the end rests on `Swept`: as long as a sweep has changed
nothing, they are closed under the events it has passed.  That they are the least
closed set rests on `Minimal`, which speaks of every set, because in the middle of
a sweep the Pods found are not closed.  `Accounting` rests on `Taken`: a line that
was read is the record under its key, or its key is a conflict.  The last theorem
rests on `ProjectionInv` (`ProjectionInvariant`): the facts so far are those of the
set of events gone through, and the one thing for which order counts, the first
use of a credential, is decided by source and number and not by delivery.

**`ResultsProofs`**, for every inventory, remediation and set of initial facts.
`RemediationReplayed`: in every interval of every view the environment is what
the remediation alone makes of the inventory, but for workloads the attacker
created (`Same`), because `reconcile_controllers` and every defender action map
environments that agree but for these to ones that do.  `LegitimateAlike`
(`LegitIndependent`) follows.  `TokensStayDead` (`NoTokenRevived`) rests on
`TokenInv` (`UidsUsedUp`): each UID that a pod has or a token is bound to is *used
up*, that is, it is one the engine does not make, or a replica's number is at most
its controller's counter, or the workload created in this interval is still there;
so no UID made later is one of them.
`DerivationsBounded` (`DerivedOnce`) needs an invariant that says more than the bound:
`CountInv` bounds the derivations by what was derived once and for all or in this
interval (`Loose`: pods, controllers, secrets, downstream credentials, reads and
uses, and the tokens that are as new as a token can be now) and, for each interval
before, by what can be derived again in one (`Steady`: token identifiers, secrets and
services).  A rule adds to `Loose` what it derives: a refreshed token was not as new
as can be (`TokensAdded`), a created workload was not known (`PodsMade`,
`ControllersMade`).  When an interval ends, the part of `Loose` that is lost is at most
one `Steady`.  It uses that UIDs are unique in every environment and that remediation
neither adds nor renames secrets and services (`Keyed`).

Three theorems hold two computations against each other.  `ConservativeCovers`
(`ViewsOrdered`) compares the two views of the engine, `EngineCoversReference`
(`FixpointCovers`) and `ReferenceAttainsEngine` (`FixpointAttained`) the engine and a
path of `explore`.  The two need not make the same workloads, nor in the same order,
so no step of one is a step of the other.  What they are compared through is a
`Chain`: one state per interval in which the attacker has nothing left to derive
(`Saturated`), that starts with the facts of the view and loses nothing from one
interval to the next but what the defender takes away (`Carries`).  Two facts about
chains, both kept as invariants, give all three theorems.  `Left`: every chain of a
view covers the run at its interval (`Covered`: the same own objects, control and
secrets included, tokens of own pods with an expiry as late, and for each account with
a made workload one such workload).  An attacker step from a covered state leads to a
covered state, since the chain's state is saturated (`LeftSteps`); a defender action
deletes an account's made workloads as a whole or not at all (`LeftGoesOn`).
`Right`: the run's own states so far are a chain; the engine's, because a sweep that
changed nothing leaves no rule anything to do (`SweepInv`), and those of a path on
which the attacker is exhausted whenever the defender acts (`RefSaturated`).  So the
verdict of a view that was run to its end is what *every* chain of it reaches and what
*some* chain reaches (`Decided`, `OutcomesInv`); the facts of the first view are
among those of the second, a chain of the second is one of the first (`ChainLater`),
and a path's attacker is covered by, or is itself, a chain of its view (`PathInv`).
These invariants quantify over all chains and are beyond TLC; the three properties
themselves were checked first, which is how the condition that both views finish got
into `ViewsOrdered` (see the findings).

The hypotheses are stated with the theorems.  `UidsApart`: no pod or controller of
the inventory, and no pod of a legitimate operation, has a UID of a workload the
attacker creates; `_not_reserved` (`model.py`, 411-413) refuses inventories with those
prefixes, but not a legitimate operation whose `pod_uid` has one (712): of such an
input the theorems say nothing.  `PodsApart`, for tokens: no pod of the inventory, historical pod or bound
pod of an initial credential has a UID the engine makes for a pod, the replicas'
`<controller uid>-p<k>` (`semantics.py`, 242-247) included.  The code does *not*
refuse that last form: with an inventory that already holds such a pod a later
replica may take its UID, and the theorem says nothing.
`FactsApart`, for the bound: no initial fact gives the attacker a workload the engine
makes up (`_not_reserved` again, `model.py`, 667-668).
The last three theorems need all of these, the workloads that `explore` makes up
included (`ref-pod:`, `ref-deploy:`; the code reserves the engine's prefixes only),
and `PlansApart`: no `delete_pod` or `delete_controller` names, and no
`delete_*_except` keeps, a made workload (593 for the former; `keep_uids`, 594-598, is
*not* refused a reserved UID, and a plan that keeps `model-pod:...` keeps it for the
engine and not for `explore`); and `IdsApart`: no credential of the input has the
identifier of a projected token (not refused either).
`ReferenceAttainsEngine` further needs `SomeLive`, that the attacker of `explore`
may have a workload per account at all: `ReferenceLimits` accepts 0, every use in the
repository has at least 1.  `EngineCoversReference` needs no such limit.
What else they need of an input is `CaseAssumption`, which TLC evaluates on the
inputs of the runs and `parse_analysis_input` enforces on any: finitely many objects,
unique UIDs of pods and of controllers (`_unique`, `model.py`, 538-540), known kinds of
defender actions, and a `wait` of a positive number of seconds (604); and
`KeysAssumption`: accounts and services are keyed by their names (537, 544), the
history window does not end before it starts, and expiries are numbers (631-634).

**`PlannerProofs`**, for every set of candidates, length bound, cap and tariff:
`SearchIsExact` and `SearchInOrder`.  Every plan not tried has a prefix in the heap
(`FrontierCovers`), a prefix costs no more and sorts before, so the least of the heap is the
least of all that is left.

**`LabProofs`**, for any number of commands, replacements, repetitions and
rotations.  `LabInv`: the supervisor's place says what has been done since the
last reset *on the cluster whose identity the command began with*, which Secret
versions a later scan knows, and that a flaw of the evidence shows in the
receipt.  From it `ConfirmationSound`, `EvidenceSound`, `BundlesClean` and the action
properties `ForeignClustersUntouched` and `ResetsRestore`.

### Only model-checked

* Liveness (`EveryJobDecided`, `RequestsEnd`, `RunEnds`, `Converges`, the two
  `Terminates`, `SearchEnds`, `CommandsEnd`): outside the prover's reach.
* That `Inputs` of a run satisfy the hypotheses `UidsApart` to `IdsApart` is seen by
  inspection: the UIDs and identifiers of the instances are names, those made up
  are tuples.

Every invariant and every safety action property that a passing run checks is also
a theorem.

## Findings

* A short write leaves a fragment that swallows the next, acknowledged record
  (`webhook_torn`).
* A collector that is stopped before its watch delivers a Pod gives the audit
  record about it the UID of an earlier Pod of that name, without a gap
  (`collector_race`).
* A credential keeps the expiry of the first token seen of a Pod; the attacker's
  renewed token is taken to expire with it (`evidence_expiry`).

* The goals of the last finished interval survive `BoundsExceeded` (`engine.py`,
  470), so that a view with exhausted bounds may report an objective as violated that
  the rest of the remediation protects, although `results.py` (7-8) says that exhausted
  bounds "can only ever produce `unknown`".  `MCEngine` has the input: with the seed
  `Lean`, a plan that deletes the controller `front` and a bound of 6 derivations, the first
  view stops in interval 1 with the goals of interval 0 while the second, which starts
  with more and derives less, finishes without them.  `ViewsOrdered` would be violated
  there, and therefore speaks of views that were both run to their end.

* A line longer than the byte reserve (4096 bytes; lines of 64 KiB are accepted) that
  is admitted just below the limit uses up the room for gaps.  What comes after it is
  acknowledged and dropped, neither the overflow gap nor the summary can be written,
  and the bundle holds no gap about it, although `spool.go` (5-8) says that a gap is written
  "into capacity reserved for exactly that purpose, so loss is never silent".
  `webhook_intake` has the case; only the alarm, the metric and the drop count tell, and
  `LossVisible` says just that.

Hypotheses of theorems mark further limits: Pods beyond `maxPodHistory` are left out
without a gap (`PodsFit`), and the parser lets an input use some of the names that the
engine and the reference checker make up (`UidsApart`, `PodsApart`, `PlansApart`,
`IdsApart`).

## Not modelled

Parsing and validation of inputs, formatting of results, the CLI, the web
interface, benchmarks and generators: no state that a property could be about.
The second implementation of the semantics in the reference checker (see above).
Provenance of the engine and its verification.  Storage of cases and manifests,
API authorization, the OIDC key cache, schema migration.

## Plan

What is left: `Witness`, the provenance of the engine and `verify_witnesses`, which
replays it; `Collector` and `Webhook` composed, so that gaps of the inventory compete
with events for the spool.
