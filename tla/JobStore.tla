------------------------------ MODULE JobStore ------------------------------
(***************************************************************************)
(* The job table of services/api/afterlock_api/storage.py and the          *)
(* transactions on it.  PostgresStorage and MemoryStorage implement one    *)
(* contract; a transaction here is one `with conn.transaction()` block of  *)
(* the former and one `with self.lock` block of the latter.                *)
(*                                                                         *)
(* Time is relative.  A row keeps `expires`, its lease_expires_at minus    *)
(* the current time, so a lease has expired when expires <= 0.  In         *)
(* PostgreSQL now() is the start of the transaction, which may lie before  *)
(* the moment the row is locked: every decision takes the transaction's    *)
(* `lag`, the age of its now(), and compares `expires` with -lag.          *)
(* MaxLag = 0 is MemoryStorage, which reads its clock under the lock.      *)
(***************************************************************************)
EXTENDS Integers, FiniteSets

CONSTANTS
    Jobs,          \* job ids, numbered by the sort key of claim: (created_at, job_id)
    Owners,        \* lease_owner names
    NoOwner,       \* lease_owner IS NULL
    MaxAttempts,   \* bound on max_attempts (the code allows 1..10)
    LeaseSeconds,  \* lease length
    MaxLag,        \* bound on the age of a transaction's now()
    MaxResults,    \* max_results of MemoryStorage
    SkipLocked     \* TRUE: PostgreSQL's claim, which passes over rows locked by others

ASSUME JobStoreAssumption ==
    /\ Jobs \subseteq Int
    /\ NoOwner \notin Owners
    /\ MaxAttempts \in Nat \ {0}
    /\ LeaseSeconds \in Nat \ {0}
    /\ MaxLag \in Nat
    /\ MaxResults \in Nat
    /\ SkipLocked \in BOOLEAN

VARIABLES
    jobs,          \* the jobs table
    results,       \* the rows of the results table that name a job
    recorded       \* how many rows of it have job_id NULL (synchronous analyses)

storeVars == <<jobs, results, recorded>>

-----------------------------------------------------------------------------
(* Rows.                                                                   *)

LeaseStates == {"leased", "running"}
Terminal    == {"succeeded", "failed", "cancelled"}
JobStates   == {"absent", "queued"} \cup LeaseStates \cup Terminal

Row == [state: JobStates, owner: Owners \cup {NoOwner},
        expires: (0 - MaxLag)..LeaseSeconds, attempts: 0..MaxAttempts,
        max_attempts: 1..MaxAttempts, cancel: BOOLEAN]

Absent == [state |-> "absent", owner |-> NoOwner, expires |-> 0,
           attempts |-> 0, max_attempts |-> 1, cancel |-> FALSE]

Lease == [job: Jobs, owner: Owners, attempt: 1..MaxAttempts]

Result == [job: Jobs, attempt: 1..MaxAttempts]

StoreInit ==
    /\ jobs = [j \in Jobs |-> Absent]
    /\ results = {}
    /\ recorded = 0

(* MemoryStorage._release, and the UPDATEs that set lease_owner and        *)
(* lease_expires_at to NULL.                                               *)
Release(row, state) ==
    [row EXCEPT !.state = state, !.owner = NoOwner, !.expires = 0]

(* The UPDATE of claim without a new attempt number.                       *)
LeaseToSameAttempt(row, owner, lag) ==
    [row EXCEPT !.state = "leased", !.owner = owner, !.expires = LeaseSeconds - lag,
                !.attempts = IF @ = 0 THEN 1 ELSE @]

(* The UPDATE of claim: a new lease is a new attempt.                      *)
LeaseTo(row, owner, lag) ==
    [row EXCEPT !.state = "leased", !.owner = owner, !.expires = LeaseSeconds - lag,
                !.attempts = @ + 1]

(* The UPDATE of _extend: heartbeat keeps the state, mark_running sets it. *)
ExtendTo(row, state, lag) ==
    [row EXCEPT !.state = state, !.expires = LeaseSeconds - lag]

(* A second passes: the lease is a second closer to its end.  One that     *)
(* expired MaxLag seconds ago has expired for every transaction.           *)
Later(row) ==
    [row EXCEPT !.expires = IF row.state \in LeaseStates /\ @ > 0 - MaxLag
                            THEN @ - 1 ELSE @]

-----------------------------------------------------------------------------
(* Requests of the API.                                                    *)

(* The INSERT of enqueue.                                                  *)
QueuedRow(m) == [Absent EXCEPT !.state = "queued", !.max_attempts = m]

EnqueueJob(j, m) ==
    /\ jobs[j].state = "absent"
    /\ jobs' = [jobs EXCEPT ![j] = QueuedRow(m)]
    /\ UNCHANGED <<results, recorded>>

(* The UPDATE of cancel_job: a queued job is cancelled on the spot, a      *)
(* leased one is flagged for its worker.                                   *)
CancelRow(row) ==
    [row EXCEPT !.cancel = TRUE, !.state = IF @ = "queued" THEN "cancelled" ELSE @]

(* cancel_job that flags any job, a settled one too.                       *)
CancelAnyJob(j) ==
    /\ jobs[j].state # "absent"
    /\ jobs' = [jobs EXCEPT ![j] = CancelRow(@)]
    /\ UNCHANGED <<results, recorded>>

(* cancel_job: a settled job is left alone.                                *)
CancelJob(j) ==
    /\ jobs[j].state \in {"queued"} \cup LeaseStates
    /\ jobs' = [jobs EXCEPT ![j] = CancelRow(@)]
    /\ UNCHANGED <<results, recorded>>

ResultCount == Cardinality(results) + recorded

(* record_analysis that checks the cap against its own results only.       *)
RecordAnalysisOwnCount ==
    /\ recorded < MaxResults
    /\ recorded' = recorded + 1
    /\ UNCHANGED <<jobs, results>>

(* record_analysis: StorageFull at the cap, else one more result.          *)
RecordAnalysis ==
    /\ ResultCount < MaxResults
    /\ recorded' = recorded + 1
    /\ UNCHANGED <<jobs, results>>

-----------------------------------------------------------------------------
(* claim.                                                                  *)

(* claim that takes leases due to expire within the lag, as if the         *)
(* transaction's now() were ahead of the clock instead of behind it.       *)
ClaimableEarly(j, lag) ==
    \/ jobs[j].state = "queued"
    \/ jobs[j].state \in LeaseStates /\ jobs[j].expires <= lag

(* The WHERE clause of claim: queued, or leased with the lease expired.    *)
Claimable(j, lag) ==
    \/ jobs[j].state = "queued"
    \/ jobs[j].state \in LeaseStates /\ jobs[j].expires <= 0 - lag

(* ORDER BY created_at, job_id LIMIT 1: the oldest claimable row, or, with *)
(* SKIP LOCKED, any claimable row whose elders other transactions lock.    *)
Candidate(j, lag) ==
    /\ Claimable(j, lag)
    /\ SkipLocked \/ \A k \in Jobs : Claimable(k, lag) => j <= k

(* One turn of claim's loop that settles the row and goes on to the next.  *)
ClaimCancelled(j, lag) ==
    /\ Candidate(j, lag)
    /\ jobs[j].cancel
    /\ jobs' = [jobs EXCEPT ![j] = Release(@, "cancelled")]
    /\ UNCHANGED <<results, recorded>>

(* claim that settles an exhausted job only if it is queued.               *)
ClaimExhaustedQueued(j, lag) ==
    /\ Candidate(j, lag)
    /\ jobs[j].state = "queued"
    /\ jobs[j].attempts >= jobs[j].max_attempts
    /\ jobs' = [jobs EXCEPT ![j] = Release(@, "failed")]
    /\ UNCHANGED <<results, recorded>>

ClaimExhausted(j, lag) ==
    /\ Candidate(j, lag)
    /\ ~jobs[j].cancel
    /\ jobs[j].attempts >= jobs[j].max_attempts
    /\ jobs' = [jobs EXCEPT ![j] = Release(@, "failed")]
    /\ UNCHANGED <<results, recorded>>

(* The turn that leases the row and ends the call.                         *)
ClaimLease(j, owner, lag) ==
    /\ Candidate(j, lag)
    /\ ~jobs[j].cancel
    /\ jobs[j].attempts < jobs[j].max_attempts
    /\ jobs' = [jobs EXCEPT ![j] = LeaseTo(@, owner, lag)]
    /\ UNCHANGED <<results, recorded>>

-----------------------------------------------------------------------------
(* Transactions of a lease holder.                                         *)

(* _held that trusts the owner's name alone.                               *)
HoldsByName(l, lag) ==
    /\ jobs[l.job].state \in LeaseStates
    /\ jobs[l.job].owner = l.owner
    /\ jobs[l.job].expires > 0 - lag

(* _held and the WHERE clauses of _extend and _lock_held.                  *)
Holds(l, lag) ==
    /\ jobs[l.job].state \in LeaseStates
    /\ jobs[l.job].owner = l.owner
    /\ jobs[l.job].attempts = l.attempt
    /\ jobs[l.job].expires > 0 - lag

Extend(l, lag, state) ==
    /\ jobs' = [jobs EXCEPT ![l.job] = ExtendTo(@, state, lag)]
    /\ UNCHANGED <<results, recorded>>

(* complete that does not look at cancel_requested.                        *)
MayPublishCancelled(l, lag) ==
    /\ Holds(l, lag)
    /\ \A r \in results : r.job # l.job

(* What complete checks before it writes: the lease, the cancellation and  *)
(* the UNIQUE (job_id) constraint.                                         *)
MayPublish(l, lag) ==
    /\ Holds(l, lag)
    /\ ~jobs[l.job].cancel
    /\ \A r \in results : r.job # l.job

(* complete that leaves the job leased.                                    *)
PublishOnly(l) ==
    /\ ResultCount < MaxResults
    /\ results' = results \cup {[job |-> l.job, attempt |-> l.attempt]}
    /\ UNCHANGED <<jobs, recorded>>

(* complete: the result and the state change commit together.              *)
Publish(l) ==
    /\ ResultCount < MaxResults
    /\ results' = results \cup {[job |-> l.job, attempt |-> l.attempt]}
    /\ jobs' = [jobs EXCEPT ![l.job] = Release(@, "succeeded")]
    /\ UNCHANGED recorded

(* complete at the result cap of MemoryStorage: the job fails visibly.     *)
RefuseFull(l) ==
    /\ ResultCount >= MaxResults
    /\ jobs' = [jobs EXCEPT ![l.job] = Release(@, "failed")]
    /\ UNCHANGED <<results, recorded>>

(* fail that does not look at cancel_requested.                            *)
FailStateIgnoringCancel(row, retryable) ==
    IF retryable /\ row.attempts < row.max_attempts THEN "queued" ELSE "failed"

(* The state fail moves a held row to.                                     *)
FailState(row, retryable) ==
    IF row.cancel THEN "cancelled"
    ELSE IF retryable /\ row.attempts < row.max_attempts THEN "queued" ELSE "failed"

Fail(l, retryable) ==
    /\ jobs' = [jobs EXCEPT ![l.job] = Release(@, FailState(@, retryable))]
    /\ UNCHANGED <<results, recorded>>

(* acknowledge_cancel of a held row with cancel_requested.                 *)
MayAcknowledge(l, lag) == Holds(l, lag) /\ jobs[l.job].cancel

Acknowledge(l) ==
    /\ jobs' = [jobs EXCEPT ![l.job] = Release(@, "cancelled")]
    /\ UNCHANGED <<results, recorded>>

-----------------------------------------------------------------------------
PassTime ==
    /\ jobs' = [j \in Jobs |-> Later(jobs[j])]
    /\ UNCHANGED <<results, recorded>>
=============================================================================
