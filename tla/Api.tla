-------------------------------- MODULE Api --------------------------------
(***************************************************************************)
(* The requests of services/api/afterlock_api/app.py that outlive one      *)
(* storage call, beside the queue and its workers: job_events (a stream of *)
(* server-sent events that polls the job), verify and make_plan (heavy     *)
(* requests), and cancel_job, which looks at the job before it asks the    *)
(* store.  Streams and heavy requests each have a ConcurrencyLimiter.      *)
(***************************************************************************)
EXTENDS JobQueue

CONSTANTS
    Requests,      \* bound: the requests of a behaviour
    Principal,     \* who makes each of them
    PerPrincipal,  \* sse_per_principal, heavy_per_principal
    Total          \* sse_total, heavy_total

Limiters == {"stream", "heavy"}

ASSUME ApiAssumption ==
    /\ PerPrincipal \in [Limiters -> Nat]
    /\ Total \in [Limiters -> Nat]

VARIABLES
    held,          \* ConcurrencyLimiter._held of each limiter
    req            \* each request: where it is and its local variables

apiVars == <<held, req>>
allVars == <<vars, held, req>>

Names == {Principal[r] : r \in Requests}

(* What get_job shows of a row; read in one transaction with the result.   *)
View(j) == [state |-> jobs[j].state, attempts |-> jobs[j].attempts,
            cancel |-> jobs[j].cancel, result |-> \E r \in results : r.job = j]

NoView == [state |-> "none", attempts |-> 0, cancel |-> FALSE, result |-> FALSE]

(* new        not sent yet                                                 *)
(* acquire    job_events has read the job; acquire is next                 *)
(* response   the StreamingResponse exists, its generator has not started  *)
(* emit       at the top of the generator's loop                           *)
(* wait       the generator sleeps or reads                                *)
(* finally    the generator ends                                           *)
(* background the background task is next                                  *)
(* work       a heavy request in its slot                                  *)
(* decide     cancel_job has read the job; the store is next               *)
NewRequest == [at |-> "new", kind |-> "none", job |-> 0, view |-> NoView,
               last |-> NoView, released |-> FALSE, code |-> 0]

InitApi ==
    /\ Init
    /\ held = [l \in Limiters |-> [n \in Names |-> 0]]
    /\ req = [r \in Requests |-> NewRequest]

-----------------------------------------------------------------------------
(* ConcurrencyLimiter *)

(* sum(self._held.values()): a sum of counts is the size of their disjoint *)
(* union.                                                                  *)
Slots(l) == UNION {{n} \X (1..held[l][n]) : n \in Names}
Held(l) == Cardinality(Slots(l))

full(l, n) == held[l][n] >= PerPrincipal[l] \/ Held(l) >= Total[l]

acquire(l, n) == held' = [held EXCEPT ![l][n] = @ + 1]

(* A count that reaches zero is dropped from the dictionary.               *)
release(l, n) == held' = [held EXCEPT ![l][n] = IF @ > 1 THEN @ - 1 ELSE 0]

(* Mutant: the release of job_events without its flag.                     *)
release_always(r) == release("stream", Principal[r])

(* release of job_events: from the generator and from the background task. *)
release_once(r) ==
    IF req[r].released THEN UNCHANGED held ELSE release("stream", Principal[r])

-----------------------------------------------------------------------------
(* Requests *)

At(r, place) == req[r].at = place /\ UNCHANGED vars

job_events(r, j) ==
    /\ At(r, "new")
    /\ jobs[j].state # "absent"
    /\ req' = [req EXCEPT ![r] = [@ EXCEPT !.at = "acquire", !.kind = "stream", !.job = j,
                                           !.view = View(j)]]
    /\ UNCHANGED held

(* acquire in job_events, or on entry to a heavy request's slot; a full    *)
(* limiter answers 429.                                                    *)
AcquireSlot(r, l, next) ==
    IF full(l, Principal[r])
    THEN req' = [req EXCEPT ![r] = [NewRequest EXCEPT !.at = "done", !.code = 429]] /\ UNCHANGED held
    ELSE req' = [req EXCEPT ![r].at = next, ![r].kind = l] /\ acquire(l, Principal[r])

StartStream(r) == At(r, "acquire") /\ AcquireSlot(r, "stream", "response")

StartGenerator(r) ==
    /\ At(r, "response")
    /\ req' = [req EXCEPT ![r].at = "emit"]
    /\ UNCHANGED held

(* An event if the job looks different; the last one is a terminal state.  *)
Emit(r) ==
    /\ At(r, "emit")
    /\ LET view == req[r].view
           changed == view # req[r].last
           over == changed /\ view.state \in Terminal
       IN  req' = [req EXCEPT ![r].at = IF over THEN "finally" ELSE "wait",
                              ![r].last = view]
    /\ UNCHANGED held

Poll(r) ==
    /\ At(r, "wait")
    /\ req' = [req EXCEPT ![r].at = "emit", ![r].view = View(req[r].job)]
    /\ UNCHANGED held

(* Mutant: the clock is only looked at after an event.                     *)
StreamTimeoutOnEvent(r) ==
    /\ At(r, "wait")
    /\ req[r].view # req[r].last
    /\ req' = [req EXCEPT ![r].at = "finally"]
    /\ UNCHANGED held

(* sse_max_seconds have passed.                                            *)
StreamTimeout(r) ==
    /\ At(r, "wait")
    /\ req' = [req EXCEPT ![r].at = "finally"]
    /\ UNCHANGED held

(* The client goes away, or a read raises: the generator is closed where   *)
(* it stands, or never started.                                            *)
Disconnect(r) ==
    /\ req[r].at \in {"response", "emit", "wait"}
    /\ req' = [req EXCEPT ![r].at = IF @ = "response" THEN "background" ELSE "finally",
                          ![r].view = req[r].last]
    /\ UNCHANGED <<vars, held>>

CloseGenerator(r) ==
    /\ At(r, "finally")
    /\ release_once(r)
    /\ req' = [req EXCEPT ![r].at = "background", ![r].released = TRUE]

RunBackground(r) ==
    /\ At(r, "background")
    /\ release_once(r)
    /\ req' = [req EXCEPT ![r] = [NewRequest EXCEPT !.at = "done", !.kind = "stream",
                                                    !.job = req[r].job, !.last = req[r].last]]

StartHeavy(r) == At(r, "new") /\ AcquireSlot(r, "heavy", "work")

(* The computation returns or raises; slot releases either way.            *)
FinishHeavy(r) ==
    /\ At(r, "work")
    /\ release("heavy", Principal[r])
    /\ req' = [req EXCEPT ![r].at = "done"]

(* cancel_job: a settled job is refused with 409.                          *)
cancel_job(r, j) ==
    /\ At(r, "new")
    /\ jobs[j].state # "absent"
    /\ req' = [req EXCEPT ![r] = IF jobs[j].state \in Terminal
                                 THEN [@ EXCEPT !.at = "done", !.kind = "cancel", !.code = 409]
                                 ELSE [@ EXCEPT !.at = "decide", !.kind = "cancel", !.job = j]]
    /\ UNCHANGED held

(* The job may have changed since; the store leaves a settled one alone,   *)
(* and the answer is what it then shows.                                   *)
AskStore(r) ==
    /\ req[r].at = "decide"
    /\ \E j \in {req[r].job} :
         /\ IF jobs[j].state \in Terminal THEN UNCHANGED storeVars ELSE CancelJob(j)
         /\ req' = [req EXCEPT ![r].at = "done", ![r].code = 202, ![r].view = View(j)']
    /\ UNCHANGED <<workerVars, held>>

-----------------------------------------------------------------------------
Serve(r) ==
    \/ StartStream(r) \/ StartGenerator(r) \/ Emit(r) \/ Poll(r)
    \/ CloseGenerator(r) \/ RunBackground(r) \/ FinishHeavy(r) \/ AskStore(r)

Request(r) ==
    \/ \E j \in Jobs : job_events(r, j) \/ cancel_job(r, j)
    \/ StartHeavy(r)

NextApi ==
    \/ Next /\ UNCHANGED apiVars
    \/ \E r \in Requests : Request(r) \/ Serve(r) \/ StreamTimeout(r) \/ Disconnect(r)

(* The server goes on with every request it has, and a stream that polls   *)
(* on and on is ended by the clock.                                        *)
FairApi ==
    \A r \in Requests : WF_allVars(Serve(r)) /\ SF_allVars(StreamTimeout(r))

SpecApi == InitApi /\ [][NextApi]_allVars /\ FairApi

-----------------------------------------------------------------------------
(* Properties *)

Holding(r) ==
    \/ req[r].kind = "stream" /\ req[r].at \in {"response", "emit", "wait", "finally"}
    \/ req[r].kind = "stream" /\ req[r].at = "background" /\ ~req[r].released
    \/ req[r].at = "work"

(* A limiter counts exactly the requests that are being served, so that no *)
(* principal gets more than its share, nor less: a slot is given back once *)
(* although two places release it and the client may leave at any point.   *)
SlotsAccounted ==
    \A l \in Limiters, n \in Names :
        LET open == {r \in Requests : Principal[r] = n /\ req[r].kind = l /\ Holding(r)}
        IN  /\ held[l][n] = Cardinality(open)
            /\ Cardinality(open) <= PerPrincipal[l]
            /\ Held(l) <= Total[l]

(* What a stream has told its client is the job's past, never its future,  *)
(* and final once it is terminal: an attempt or a cancellation it reported *)
(* is not taken back, a terminal event is the job's last state, and it has *)
(* a result exactly if it succeeded.                                       *)
StreamFaithful ==
    \A r \in Requests : req[r].last # NoView =>
        LET seen == req[r].last
            now == View(req[r].job)
        IN  /\ seen.attempts <= now.attempts
            /\ seen.cancel => now.cancel
            /\ seen.state \in Terminal => seen = now
            /\ seen.result = (seen.state = "succeeded")

(* A cancellation answered 202 with a job that is not settled yet is kept: *)
(* no worker publishes or fails that job afterwards.                       *)
CancelHonoured ==
    \A r \in Requests :
        req[r].kind = "cancel" /\ req[r].code = 202 /\ req[r].view.state \notin Terminal
        => jobs[req[r].job].state \notin {"succeeded", "failed"}

(* Every request that was accepted ends, also the stream of a job that no  *)
(* worker ever decides.                                                    *)
RequestsEnd == \A r \in Requests : (req[r].at # "new") ~> (req[r].at = "done")
=============================================================================
