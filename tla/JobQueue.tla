------------------------------ MODULE JobQueue ------------------------------
(***************************************************************************)
(* The workers of services/worker/afterlock_worker (runner.py,             *)
(* __main__.py) and the API's job requests, over the job table of          *)
(* JobStore.  Each worker runs process_one in a loop: it claims a job,     *)
(* marks it running, computes beside a heartbeat thread and publishes,     *)
(* fails or acknowledges a cancellation.  Workers may crash at any point,  *)
(* may share an owner name (AFTERLOCK_WORKER_ID, or the in-process         *)
(* "api-inprocess" of concurrent drains), and every storage call is one    *)
(* transaction whose now() may be older than the row it decides on.        *)
(***************************************************************************)
EXTENDS JobStore

CONSTANTS
    Workers,       \* threads of control that run process_one
    Owner,         \* the lease_owner name each of them uses
    NoLease,       \* a worker that holds no Lease object
    Alive,         \* the workers that are assumed to keep claiming
    Corrupt,       \* jobs whose stored manifest may be damaged: manifest_intact
                   \* looks at it after every claim
    MaxRecorded    \* bound on synchronous analyses in a behaviour

ASSUME JobQueueAssumption ==
    /\ Owner \in [Workers -> Owners]
    /\ NoLease \notin Lease
    /\ Alive \subseteq Workers
    /\ Corrupt \subseteq Jobs
    /\ MaxRecorded \in Nat

VARIABLES
    pc,            \* where each worker's main thread is in process_one
    lease,         \* the Lease object it holds
    lost,          \* flags["lost"], set by its heartbeat thread
    cancelSeen,    \* flags["cancel"], set by its heartbeat thread
    age,           \* how long the main thread has been at pc, up to MaxLag
    beatAge        \* the same of the heartbeat thread since its last call

workerVars == <<pc, lease, lost, cancelSeen, age, beatAge>>
vars == <<jobs, results, recorded, pc, lease, lost, cancelSeen, age, beatAge>>

(* idle       between calls of process_one, or in claim                    *)
(* reject     fail, after manifest_intact was false                        *)
(* mark       mark_running                                                 *)
(* ackStart   acknowledge_cancel, after mark_running said "cancel"         *)
(* run        the executor runs beside the heartbeat thread                *)
(* permanent  fail(retryable=False) in the except clause                   *)
(* transient  fail(retryable=True) in the except clause                    *)
(* ackFlag    acknowledge_cancel, after the heartbeat saw the request      *)
(* complete   complete                                                     *)
(* ackLate    acknowledge_cancel, after complete refused                   *)
Places == {"idle", "reject", "mark", "ackStart", "run", "permanent",
           "transient", "ackFlag", "complete", "ackLate"}

(* The heartbeat thread lives from the executor's start to the `finally`   *)
(* clause, which the except clauses reach only after their fail call.      *)
BeatPlaces == {"run", "permanent", "transient"}

Init ==
    /\ StoreInit
    /\ pc = [w \in Workers |-> "idle"]
    /\ lease = [w \in Workers |-> NoLease]
    /\ lost = [w \in Workers |-> FALSE]
    /\ cancelSeen = [w \in Workers |-> FALSE]
    /\ age = [w \in Workers |-> 0]
    /\ beatAge = [w \in Workers |-> 0]

(* The next call of process_one starts at `place`.                         *)
Goto(w, place) ==
    /\ pc' = [pc EXCEPT ![w] = place]
    /\ age' = [age EXCEPT ![w] = 0]
    /\ beatAge' = [beatAge EXCEPT ![w] = IF place \in BeatPlaces THEN @ ELSE 0]
    /\ UNCHANGED <<lease, lost, cancelSeen>>

(* process_one returns or raises, or the process dies.                     *)
Return(w) ==
    /\ pc' = [pc EXCEPT ![w] = "idle"]
    /\ lease' = [lease EXCEPT ![w] = NoLease]
    /\ lost' = [lost EXCEPT ![w] = FALSE]
    /\ cancelSeen' = [cancelSeen EXCEPT ![w] = FALSE]
    /\ age' = [age EXCEPT ![w] = 0]
    /\ beatAge' = [beatAge EXCEPT ![w] = 0]

(* A transaction may have begun at any moment since the thread got here.   *)
Lags(w) == 0..age[w]
BeatLags(w) == 0..beatAge[w]

-----------------------------------------------------------------------------
(* The API.                                                                *)

Enqueue(j) ==
    /\ \E m \in 1..MaxAttempts : EnqueueJob(j, m)
    /\ UNCHANGED workerVars

Cancel(j) ==
    /\ CancelJob(j)
    /\ UNCHANGED workerVars

Record ==
    /\ recorded < MaxRecorded
    /\ RecordAnalysis
    /\ UNCHANGED workerVars

-----------------------------------------------------------------------------
(* process_one.                                                            *)

(* A turn of claim that settles a row and looks for the next one.          *)
ClaimSettles(w) ==
    /\ pc[w] = "idle"
    /\ \E j \in Jobs, lag \in Lags(w) : ClaimCancelled(j, lag) \/ ClaimExhausted(j, lag)
    /\ age' = [age EXCEPT ![w] = 0]
    /\ UNCHANGED <<pc, lease, lost, cancelSeen, beatAge>>

ClaimSucceeds(w) ==
    /\ pc[w] = "idle"
    /\ \E j \in Jobs, lag \in Lags(w) :
         /\ ClaimLease(j, Owner[w], lag)
         /\ lease' = [lease EXCEPT ![w] =
                        [job |-> j, owner |-> Owner[w], attempt |-> jobs'[j].attempts]]
         /\ \/ pc' = [pc EXCEPT ![w] = "mark"]
            \/ j \in Corrupt /\ pc' = [pc EXCEPT ![w] = "reject"]
    /\ age' = [age EXCEPT ![w] = 0]
    /\ UNCHANGED <<lost, cancelSeen, beatAge>>

MarkRunning(w) ==
    /\ pc[w] = "mark"
    /\ \E lag \in Lags(w) :
         \/ /\ ~Holds(lease[w], lag)
            /\ UNCHANGED storeVars
            /\ Return(w)
         \/ /\ Holds(lease[w], lag)
            /\ Extend(lease[w], lag, "running")
            /\ Goto(w, IF jobs[lease[w].job].cancel THEN "ackStart" ELSE "run")

(* _heartbeat_loop: one call of heartbeat.  A call that raises is ignored  *)
(* by the loop, which is no step here.                                     *)
Heartbeat(w) ==
    /\ pc[w] \in BeatPlaces
    /\ ~lost[w]
    /\ \E lag \in BeatLags(w) :
         \/ /\ ~Holds(lease[w], lag)
            /\ lost' = [lost EXCEPT ![w] = TRUE]
            /\ UNCHANGED <<storeVars, cancelSeen>>
         \/ /\ Holds(lease[w], lag)
            /\ Extend(lease[w], lag, jobs[lease[w].job].state)
            /\ cancelSeen' = [cancelSeen EXCEPT ![w] = @ \/ jobs[lease[w].job].cancel]
            /\ UNCHANGED lost
    /\ beatAge' = [beatAge EXCEPT ![w] = 0]
    /\ UNCHANGED <<pc, lease, age>>

(* The executor raises PermanentJobError or another exception.             *)
ExecutorRaises(w) ==
    /\ pc[w] = "run"
    /\ \E place \in {"permanent", "transient"} : Goto(w, place)
    /\ UNCHANGED storeVars

(* The executor returns, the heartbeat thread is joined and its flags are  *)
(* read: a lost lease discards the result, a cancellation is acknowledged  *)
(* first.                                                                  *)
ExecutorReturns(w) ==
    /\ pc[w] = "run"
    /\ IF lost[w] THEN Return(w)
                  ELSE Goto(w, IF cancelSeen[w] THEN "ackFlag" ELSE "complete")
    /\ UNCHANGED storeVars

FailJob(w) ==
    /\ pc[w] \in {"reject", "permanent", "transient"}
    /\ \E lag \in Lags(w) :
         \/ ~Holds(lease[w], lag) /\ UNCHANGED storeVars
         \/ Holds(lease[w], lag) /\ Fail(lease[w], pc[w] = "transient")
    /\ Return(w)

(* The result of acknowledge_cancel only matters after the executor ran:   *)
(* when it is False the worker goes on to complete.                        *)
AcknowledgeCancel(w) ==
    /\ pc[w] \in {"ackStart", "ackFlag", "ackLate"}
    /\ \E lag \in Lags(w) :
         \/ /\ MayAcknowledge(lease[w], lag)
            /\ Acknowledge(lease[w])
            /\ Return(w)
         \/ /\ ~MayAcknowledge(lease[w], lag)
            /\ IF pc[w] = "ackFlag" THEN Goto(w, "complete") ELSE Return(w)
            /\ UNCHANGED storeVars

Complete(w) ==
    /\ pc[w] = "complete"
    /\ \E lag \in Lags(w) :
         \/ MayPublish(lease[w], lag) /\ Publish(lease[w]) /\ Return(w)
         \/ MayPublish(lease[w], lag) /\ RefuseFull(lease[w]) /\ Goto(w, "ackLate")
         \/ ~MayPublish(lease[w], lag) /\ UNCHANGED storeVars /\ Goto(w, "ackLate")

(* The process dies, or a storage call raises out of process_one; a call   *)
(* that committed before its answer was lost is the call and then this.    *)
Abandon(w) ==
    /\ pc[w] # "idle"
    /\ Return(w)
    /\ UNCHANGED storeVars

Tick ==
    /\ PassTime
    /\ age' = [w \in Workers |-> IF age[w] < MaxLag THEN age[w] + 1 ELSE age[w]]
    /\ beatAge' = [w \in Workers |->
                     IF pc[w] \in BeatPlaces /\ beatAge[w] < MaxLag
                     THEN beatAge[w] + 1 ELSE beatAge[w]]
    /\ UNCHANGED <<pc, lease, lost, cancelSeen>>

Claim(w) == ClaimSettles(w) \/ ClaimSucceeds(w)

Proceed(w) ==
    \/ MarkRunning(w)
    \/ ExecutorRaises(w)
    \/ ExecutorReturns(w)
    \/ FailJob(w)
    \/ AcknowledgeCancel(w)
    \/ Complete(w)

Next ==
    \/ \E j \in Jobs : Enqueue(j) \/ Cancel(j)
    \/ Record
    \/ \E w \in Workers : Claim(w) \/ Proceed(w) \/ Heartbeat(w) \/ Abandon(w)
    \/ Tick

(* A live worker's calls return and the engine terminates (its bounds are  *)
(* what makes it so); a worker that stops for good is an Abandon after     *)
(* which it need not claim again.  Only the workers in Alive keep polling. *)
Fairness ==
    /\ WF_vars(Tick)
    /\ \A w \in Workers : WF_vars(Proceed(w))
    /\ \A w \in Alive : WF_vars(Claim(w))

Spec == Init /\ [][Next]_vars
FairSpec == Spec /\ Fairness
-----------------------------------------------------------------------------
(* Properties.                                                             *)

(* The table and the workers are well typed: attempts never pass           *)
(* MaxAttempts and no lease is granted for longer than LeaseSeconds.       *)
TypeOK ==
    /\ jobs \in [Jobs -> Row]
    /\ results \subseteq Result
    /\ recorded \in Nat
    /\ pc \in [Workers -> Places]
    /\ lease \in [Workers -> Lease \cup {NoLease}]
    /\ lost \in [Workers -> BOOLEAN]
    /\ cancelSeen \in [Workers -> BOOLEAN]
    /\ age \in [Workers -> 0..MaxLag]
    /\ beatAge \in [Workers -> 0..MaxLag]

(* The CHECK constraints of migrations/0001_initial.sql, which would make  *)
(* a transaction raise, never fire: a row names an owner exactly while it  *)
(* is leased or running, attempts stay within max_attempts, and a job is   *)
(* requeued only with an attempt left, so a queued job can always run.     *)
RowsWellFormed ==
    \A j \in Jobs :
        /\ (jobs[j].state \in LeaseStates) = (jobs[j].owner # NoOwner)
        /\ jobs[j].attempts <= jobs[j].max_attempts
        /\ jobs[j].state = "queued" => jobs[j].attempts < jobs[j].max_attempts

(* Fencing: workers that believe they hold the same job, a stale holder    *)
(* and its successor under the same owner name included, hold different    *)
(* attempts of it, and none is ahead of the row.                           *)
LeasesFenced ==
    \A v, w \in Workers :
        /\ lease[w] # NoLease => lease[w].attempt <= jobs[lease[w].job].attempts
        /\ v # w /\ lease[v] # NoLease /\ lease[w] # NoLease
              /\ lease[v].job = lease[w].job => lease[v].attempt # lease[w].attempt

(* The publication invariant of storage.py: a job has a result exactly     *)
(* when it succeeded, only one, and it is the one of the last attempt that *)
(* was leased: no stale holder ever publishes.                             *)
PublishedOnce ==
    /\ \A j \in Jobs : jobs[j].state = "succeeded" <=> \E r \in results : r.job = j
    /\ \A r \in results : r.attempt = jobs[r.job].attempts
    /\ \A r, s \in results : r.job = s.job => r = s

(* A cancellation accepted by cancel_job is never overtaken: the job       *)
(* neither succeeds nor fails, whatever the worker was doing.              *)
CancelWins ==
    \A j \in Jobs :
        jobs[j].cancel => jobs[j].state \in LeaseStates \cup {"cancelled"}

(* What the heartbeat thread told its main thread stays true until it is   *)
(* used: a worker that discards its result as lost really has no lease,    *)
(* and one that skips publication saw a request that still stands.         *)
FlagsAccurate ==
    \A w \in Workers :
        /\ lost[w] => ~Holds(lease[w], 0)
        /\ cancelSeen[w] => jobs[lease[w].job].cancel

(* How a worker's local variables hang together: a Lease object exists     *)
(* inside process_one only and names a job that exists, and the heartbeat  *)
(* thread's flags do not outlive the call.  Part of the inductive          *)
(* invariant, not a claim of its own.                                      *)
WorkersInStep ==
    \A w \in Workers :
        /\ (pc[w] = "idle") = (lease[w] = NoLease)
        /\ lease[w] # NoLease => jobs[lease[w].job].state # "absent"
        /\ lost[w] => pc[w] \in BeatPlaces
        /\ cancelSeen[w] => pc[w] # "idle"

(* The inductive invariant: what the table keeps and what the workers      *)
(* keep, on which the proofs rest.                                         *)
StoreInv == RowsWellFormed /\ PublishedOnce /\ CancelWins
WorkerInv == WorkersInStep /\ LeasesFenced /\ FlagsAccurate
IInv == TypeOK /\ StoreInv /\ WorkerInv

(* MemoryStorage never holds more results than its cap, whoever adds them. *)
ResultsBounded == ResultCount <= MaxResults

(* Once a job is succeeded, failed or cancelled its row never changes.     *)
SettledForever ==
    [][\A j \in Jobs : jobs[j].state \in Terminal => jobs'[j] = jobs[j]]_vars

(* A lease goes to another attempt only after it really expired, however   *)
(* old the claiming transaction's now() is.                                *)
NoLeaseStolen ==
    [][\A j \in Jobs :
          /\ jobs[j].state \in LeaseStates
          /\ jobs'[j].state \in LeaseStates
          /\ jobs'[j].attempts # jobs[j].attempts
          => jobs[j].expires <= 0]_vars

(* The queue implements JobLifecycle: leases, retries, heartbeats and      *)
(* crashes are invisible steps of a job that is decided once.              *)
Lifecycle == INSTANCE JobLifecycle WITH
    status <- [j \in Jobs |-> IF jobs[j].state \in {"queued"} \cup LeaseStates
                              THEN "active" ELSE jobs[j].state],
    cancelling <- {j \in Jobs : jobs[j].cancel},
    published <- {r.job : r \in results}

(* Safety of the refinement: every step is a step of JobLifecycle.         *)
ImplementsLifecycle == Lifecycle!Spec

(* Liveness of the refinement: every submitted job is decided, as long as  *)
(* one worker keeps claiming.                                              *)
EveryJobDecided == Lifecycle!FairSpec
=============================================================================
