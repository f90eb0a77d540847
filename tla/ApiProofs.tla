----------------------------- MODULE ApiProofs ------------------------------
(***************************************************************************)
(* Proofs about Api, for every number of requests, principals, jobs and    *)
(* workers and every pair of limits.  The requests run beside the queue of *)
(* JobQueueProofs: first, none of them does anything to the job table that *)
(* the queue's own specification does not allow, so that its theorems hold *)
(* beside them; then what a request may believe of a job it read earlier;  *)
(* last, the slots of the two limiters.                                    *)
(***************************************************************************)
EXTENDS Api, JobQueueProofs

-----------------------------------------------------------------------------
(* What a request knows.                                                   *)

RequestPlaces == {"new", "acquire", "response", "emit", "wait", "finally",
                  "background", "work", "decide", "done"}
Streaming == {"response", "emit", "wait", "finally", "background"}

ViewRecord == [state: JobStates \cup {"none"}, attempts: Nat,
               cancel: BOOLEAN, result: BOOLEAN]

RequestKinds == {"none", "stream", "heavy", "cancel"}
NamedJobs == Jobs \cup {0}
AnswerCodes == {0, 202, 409, 429}

RequestRecord ==
    [at: RequestPlaces, kind: RequestKinds, job: NamedJobs, view: ViewRecord,
     last: ViewRecord, released: BOOLEAN, code: AnswerCodes]

(* What get_job shows, as a function of the job's row alone.               *)
RowView(row) == [state |-> row.state, attempts |-> row.attempts,
                 cancel |-> row.cancel, result |-> (row.state = "succeeded")]

(* v is what the job j looked like at some time, as far as that can be     *)
(* told from the table as it is.                                           *)
Past(v, j, table) ==
    v # NoView =>
        /\ j \in Jobs
        /\ table[j].state # "absent"
        /\ v.attempts <= table[j].attempts
        /\ v.cancel => table[j].cancel
        /\ v.state \in Terminal => v = RowView(table[j])
        /\ v.result <=> v.state = "succeeded"

(* A request q names a job from the moment it has read it, is of the kind  *)
(* that its place says, and has an answer at its end only; release_once    *)
(* has run before the background task only; and a cancellation that was    *)
(* accepted for a job that still runs is on the job's row.                 *)
Shape(q, table) ==
    /\ q.at = "new" => q = NewRequest
    /\ q.at \in Streaming \cup {"acquire", "decide"} =>
          q.job \in Jobs /\ table[q.job].state # "absent"
    /\ q.at \in Streaming \cup {"acquire"} => q.kind = "stream"
    /\ q.at = "work" => q.kind = "heavy"
    /\ q.at = "decide" => q.kind = "cancel"
    /\ q.released => q.at = "background"
    /\ q.code # 0 => q.at = "done"
    /\ q.code = 202 /\ q.kind = "cancel" =>
          /\ q.job \in Jobs
          /\ q.view.state \notin Terminal => table[q.job].cancel

RequestInv(q, table) ==
    /\ Past(q.view, q.job, table)
    /\ Past(q.last, q.job, table)
    /\ Shape(q, table)

RequestsInv ==
    /\ req \in [Requests -> RequestRecord]
    /\ \A r \in Requests : RequestInv(req[r], jobs)

(* The types of a request's fields.                                        *)
LEMMA RequestFields ==
    ASSUME NEW q \in RequestRecord
    PROVE  /\ q.at \in RequestPlaces
           /\ q.kind \in RequestKinds
           /\ q.job \in NamedJobs
           /\ q.view \in ViewRecord
           /\ q.last \in ViewRecord
           /\ q.released \in BOOLEAN
           /\ q.code \in AnswerCodes
BY DEF RequestRecord

(* The fields of a view, and what get_job shows of a row is one.           *)
LEMMA ViewFields ==
    /\ NoView \in ViewRecord
    /\ \A v \in ViewRecord : v.attempts \in Nat /\ v.cancel \in BOOLEAN /\ v.result \in BOOLEAN
    /\ \A row \in Row : RowView(row) \in ViewRecord
<1>1. NoView \in ViewRecord
  BY DEF NoView, ViewRecord
<1>2. \A v \in ViewRecord : v.attempts \in Nat /\ v.cancel \in BOOLEAN /\ v.result \in BOOLEAN
  BY DEF ViewRecord
<1>3. ASSUME NEW row \in Row PROVE RowView(row) \in ViewRecord
  <2>1. row.state \in JobStates /\ row.attempts \in Nat /\ row.cancel \in BOOLEAN
    BY RowFields
  <2> QED
    BY <2>1 DEF RowView, ViewRecord
<1> QED
  BY <1>1, <1>2, <1>3

(* The constants that the requests' variables are set to.                  *)
LEMMA RequestConstants ==
    /\ \A a \in Streaming \cup {"new", "acquire", "work", "decide", "done"} : a \in RequestPlaces
    /\ "none" \in RequestKinds /\ "stream" \in RequestKinds
    /\ "heavy" \in RequestKinds /\ "cancel" \in RequestKinds
    /\ 0 \in NamedJobs /\ \A j \in Jobs : j \in NamedJobs
    /\ 0 \in AnswerCodes /\ 202 \in AnswerCodes /\ 409 \in AnswerCodes /\ 429 \in AnswerCodes
BY DEF Streaming, RequestPlaces, RequestKinds, NamedJobs, AnswerCodes

(* A request that has not been sent yet is well formed.                    *)
LEMMA NewRequestRecord == NewRequest \in RequestRecord
<1>1. /\ "new" \in RequestPlaces /\ "none" \in RequestKinds /\ 0 \in NamedJobs
      /\ NoView \in ViewRecord /\ 0 \in AnswerCodes
  BY ViewFields, RequestConstants
<1> QED
  BY <1>1 DEF NewRequest, RequestRecord

(* As the row and the result of a job commit together, get_job, which      *)
(* reads both, shows no more than the row.                                 *)
LEMMA ViewIsRowView ==
    ASSUME StoreInv, NEW j \in Jobs
    PROVE  View(j) = RowView(jobs[j])
<1>1. (\E r \in results : r.job = j) <=> jobs[j].state = "succeeded"
  BY DEF StoreInv, PublishedOnce
<1>2. (\E r \in results : r.job = j) = (jobs[j].state = "succeeded")
  BY <1>1
<1> QED
  BY <1>2 DEF View, RowView

(* What get_job shows now is the job's past from now on.                   *)
LEMMA RowViewPast ==
    ASSUME NEW table \in [Jobs -> Row], NEW j \in Jobs, table[j].state # "absent"
    PROVE  Past(RowView(table[j]), j, table)
<1>1. table[j].attempts \in Nat /\ table[j].cancel \in BOOLEAN
  BY RowFields
<1>2. /\ RowView(table[j]).state = table[j].state
      /\ RowView(table[j]).attempts = table[j].attempts
      /\ RowView(table[j]).cancel = table[j].cancel
      /\ RowView(table[j]).result = (table[j].state = "succeeded")
  BY DEF RowView
<1>3. table[j].attempts <= table[j].attempts
  BY <1>1
<1> QED
  BY <1>2, <1>3 DEF Past

(* The past stays the past, whatever transaction runs.                     *)
LEMMA PastKept ==
    ASSUME StoreTypes, Effect, NEW v \in ViewRecord, NEW j, Past(v, j, jobs)
    PROVE  Past(v, j, jobs')
<1>1. SUFFICES ASSUME v # NoView
               PROVE  Past(v, j, jobs')
  BY DEF Past
<1>2. /\ j \in Jobs /\ jobs[j].state # "absent"
      /\ v.attempts <= jobs[j].attempts
      /\ v.cancel => jobs[j].cancel
      /\ v.state \in Terminal => v = RowView(jobs[j])
      /\ v.result <=> v.state = "succeeded"
  BY <1>1 DEF Past
<1>3. /\ jobs'[j].state # "absent"
      /\ jobs'[j].attempts >= jobs[j].attempts
      /\ jobs[j].cancel => jobs'[j].cancel
  BY <1>2, EffectMonotone
<1>4. v.attempts \in Nat /\ jobs[j].attempts \in Nat /\ jobs'[j].attempts \in Nat
  <2>1. jobs' \in [Jobs -> Row]
    BY EffectTypes
  <2> QED
    BY <1>2, <2>1, RowFields, TableFields, ViewFields
<1>5. v.attempts <= jobs'[j].attempts
  BY <1>2, <1>3, <1>4
<1>6. v.state \in Terminal => v = RowView(jobs'[j])
  <2>1. HAVE v.state \in Terminal
  <2>2. jobs[j].state \in Terminal
    BY <1>2, <2>1 DEF RowView
  <2>3. jobs'[j] = jobs[j]
    BY <1>2, <2>2, EffectSettled
  <2> QED
    BY <1>2, <2>1, <2>3
<1> QED
  BY <1>2, <1>3, <1>5, <1>6 DEF Past

(* A request that does nothing while a transaction runs keeps what it      *)
(* knows.                                                                  *)
LEMMA RequestKept ==
    ASSUME StoreTypes, StoreInv, Effect,
           NEW q \in RequestRecord, RequestInv(q, jobs)
    PROVE  RequestInv(q, jobs')
<1>1. Past(q.view, q.job, jobs') /\ Past(q.last, q.job, jobs')
  BY RequestFields, PastKept DEF RequestInv
<1>2. ASSUME q.job \in Jobs, jobs[q.job].state # "absent"
      PROVE  jobs'[q.job].state # "absent"
  BY <1>2, EffectMonotone
<1>3. ASSUME q.job \in Jobs, jobs[q.job].cancel
      PROVE  jobs'[q.job].cancel
  <2>1. jobs[q.job].state # "absent"
    BY <1>3 DEF StoreInv, CancelWins, LeaseStates
  <2> QED
    BY <1>3, <2>1, EffectMonotone
<1> QED
  BY <1>1, <1>2, <1>3 DEF RequestInv, Shape

(* A request moves to q, with or without a transaction.                    *)
LEMMA RequestMoves ==
    ASSUME StoreTypes, StoreInv, Effect, RequestsInv, NEW r \in Requests,
           NEW q \in RequestRecord, RequestInv(q, jobs'),
           req' = [req EXCEPT ![r] = q]
    PROVE  RequestsInv'
<1>1. req' \in [Requests -> RequestRecord]
  BY DEF RequestsInv
<1>2. \A p \in Requests : RequestInv(req[p], jobs')
  BY RequestKept DEF RequestsInv
<1> QED
  BY <1>1, <1>2 DEF RequestsInv

-----------------------------------------------------------------------------
(* The requests beside the queue.                                          *)

(* Whatever a request does, the job table and the workers see a step of    *)
(* the queue or none: AskStore is the queue's Cancel.                      *)
LEMMA QueueStep ==
    ASSUME RequestsInv, [NextApi]_allVars
    PROVE  [Next]_vars
<1>1. ASSUME NEW r \in Requests, AskStore(r) PROVE [Next]_vars
  <2>1. req[r].job \in Jobs
    BY <1>1 DEF RequestsInv, RequestInv, Shape, AskStore
  <2>2. CASE UNCHANGED storeVars
    BY <1>1, <2>2 DEF AskStore, storeVars, workerVars, vars
  <2>3. CASE CancelJob(req[r].job)
    BY <1>1, <2>1, <2>3 DEF AskStore, Next, Cancel
  <2> QED
    BY <1>1, <2>2, <2>3 DEF AskStore
<1>2. CASE Next /\ UNCHANGED apiVars
  BY <1>2
<1>3. CASE UNCHANGED allVars
  BY <1>3 DEF allVars
<1>4. ASSUME NEW r \in Requests, Request(r) \/ Serve(r) \/ StreamTimeout(r) \/ Disconnect(r),
             ~AskStore(r)
      PROVE  UNCHANGED vars
  BY <1>4 DEF Request, Serve, job_events, cancel_job, StartHeavy, StartStream,
     StartGenerator, Emit, Poll, CloseGenerator, RunBackground, FinishHeavy,
     StreamTimeout, Disconnect, At
<1> QED
  BY <1>1, <1>2, <1>3, <1>4 DEF NextApi

(* A request that a limiter refused has seen nothing.                      *)
LEMMA RefusedRequest ==
    /\ [NewRequest EXCEPT !.at = "done", !.code = 429] \in RequestRecord
    /\ \A table : RequestInv([NewRequest EXCEPT !.at = "done", !.code = 429], table)
<1>c. PICK c \in AnswerCodes : c = 429
  BY RequestConstants
<1> DEFINE q == [NewRequest EXCEPT !.at = "done", !.code = c]
<1>1. /\ q \in RequestRecord
      /\ q.at = "done" /\ q.code = c /\ q.kind = NewRequest.kind
      /\ q.view = NewRequest.view /\ q.last = NewRequest.last
      /\ q.released = NewRequest.released
  BY NewRequestRecord, RequestConstants DEF RequestRecord
<1>2. /\ q.kind = "none" /\ q.view = NoView /\ q.last = NoView /\ q.released = FALSE
  BY <1>1 DEF NewRequest
<1>3. \A table : RequestInv(q, table)
  BY <1>c, <1>1, <1>2 DEF RequestInv, Shape, Past, Streaming
<1> QED
  BY <1>c, <1>1, <1>3

(* Every step of a request leaves it well formed and informed of the past. *)
LEMMA RequestsInductive ==
    ASSUME IInv, RequestsInv, [NextApi]_allVars
    PROVE  RequestsInv'
<1>0. /\ StoreTypes /\ StoreInv /\ StoreInv' /\ Effect
      /\ jobs \in [Jobs -> Row] /\ jobs' \in [Jobs -> Row]
  <2>1. [Next]_vars
    BY QueueStep
  <2>2. StoreTypes /\ Effect /\ IInv'
    BY <2>1, StepEffect, IInvInductive
  <2> QED
    BY <2>2, EffectTypes DEF IInv, StoreTypes
<1>1. \A r \in Requests : req[r] \in RequestRecord /\ RequestInv(req[r], jobs)
  BY DEF RequestsInv
<1>2. CASE UNCHANGED apiVars
  BY <1>0, <1>1, <1>2, RequestKept DEF RequestsInv, apiVars
<1>3. ASSUME NEW r \in Requests, NEW j \in Jobs, job_events(r, j) PROVE RequestsInv'
  <2> DEFINE q == [req[r] EXCEPT !.at = "acquire", !.kind = "stream", !.job = j,
                                 !.view = RowView(jobs[j])]
  <2>1. View(j) = RowView(jobs[j]) /\ RowView(jobs[j]) \in ViewRecord
    BY <1>0, ViewIsRowView, ViewFields
  <2>2. /\ req' = [req EXCEPT ![r] = q]
        /\ req[r].at = "new" /\ jobs[j].state # "absent" /\ jobs' = jobs
    BY <1>3, <2>1 DEF job_events, At, vars
  <2>3. /\ q \in RequestRecord
        /\ q.at = "acquire" /\ q.kind = "stream" /\ q.job = j /\ q.view = RowView(jobs[j])
        /\ q.last = req[r].last /\ q.released = req[r].released /\ q.code = req[r].code
    BY <1>1, <2>1, RequestConstants, ZenonT(60) DEF RequestRecord
  <2>4. req[r] = NewRequest
    BY <1>1, <2>2 DEF RequestInv, Shape
  <2>5. RequestInv(q, jobs')
    <3>1. Past(q.view, q.job, jobs') /\ Past(q.last, q.job, jobs')
      BY <1>0, <2>2, <2>3, <2>4, RowViewPast DEF Past, NewRequest
    <3> QED
      BY <2>2, <2>3, <2>4, <3>1 DEF RequestInv, Shape, Streaming, NewRequest
  <2> QED
    BY <1>0, <2>2, <2>3, <2>5, RequestMoves
<1>4. ASSUME NEW r \in Requests, StartStream(r) PROVE RequestsInv'
  <2>1. req[r].at = "acquire" /\ jobs' = jobs
    BY <1>4 DEF StartStream, At, vars
  <2>2. CASE full("stream", Principal[r])
    BY <1>0, <1>4, <2>1, <2>2, RefusedRequest, RequestMoves DEF StartStream, AcquireSlot
  <2>3. CASE ~full("stream", Principal[r])
    <3> DEFINE q == [req[r] EXCEPT !.at = "response", !.kind = "stream"]
    <3>1. req' = [req EXCEPT ![r] = q]
      BY <1>4, <2>3 DEF StartStream, AcquireSlot, RequestsInv
    <3>2. /\ q \in RequestRecord /\ q.at = "response" /\ q.kind = "stream"
          /\ q.job = req[r].job /\ q.view = req[r].view /\ q.last = req[r].last
          /\ q.released = req[r].released /\ q.code = req[r].code
      BY <1>1, RequestConstants, ZenonT(60) DEF RequestRecord, Streaming
    <3>3. RequestInv(q, jobs')
      BY <1>1, <2>1, <3>2 DEF RequestInv, Shape, Streaming
    <3> QED
      BY <1>0, <3>1, <3>2, <3>3, RequestMoves
  <2> QED
    BY <2>2, <2>3
<1>5. ASSUME NEW r \in Requests, StartHeavy(r) PROVE RequestsInv'
  <2>1. req[r].at = "new" /\ jobs' = jobs /\ req[r] = NewRequest
    BY <1>1, <1>5 DEF StartHeavy, At, vars, RequestInv, Shape
  <2>2. CASE full("heavy", Principal[r])
    BY <1>0, <1>5, <2>1, <2>2, RefusedRequest, RequestMoves DEF StartHeavy, AcquireSlot
  <2>3. CASE ~full("heavy", Principal[r])
    <3> DEFINE q == [req[r] EXCEPT !.at = "work", !.kind = "heavy"]
    <3>1. req' = [req EXCEPT ![r] = q]
      BY <1>5, <2>3 DEF StartHeavy, AcquireSlot, RequestsInv
    <3>2. /\ q \in RequestRecord /\ q.at = "work" /\ q.kind = "heavy"
          /\ q.job = req[r].job /\ q.view = req[r].view /\ q.last = req[r].last
          /\ q.released = req[r].released /\ q.code = req[r].code
      BY <1>1, RequestConstants, ZenonT(60) DEF RequestRecord
    <3>3. RequestInv(q, jobs')
      BY <1>1, <2>1, <3>2 DEF RequestInv, Shape, Streaming, NewRequest
    <3> QED
      BY <1>0, <3>1, <3>2, <3>3, RequestMoves
  <2> QED
    BY <2>2, <2>3
<1>6. ASSUME NEW r \in Requests, StartGenerator(r) PROVE RequestsInv'
  <2> DEFINE q == [req[r] EXCEPT !.at = "emit"]
  <2>1. req[r].at = "response" /\ jobs' = jobs /\ req' = [req EXCEPT ![r] = q]
    BY <1>6 DEF StartGenerator, At, vars, RequestsInv
  <2>2. /\ q \in RequestRecord /\ q.at = "emit" /\ q.kind = req[r].kind
        /\ q.job = req[r].job /\ q.view = req[r].view /\ q.last = req[r].last
        /\ q.released = req[r].released /\ q.code = req[r].code
    BY <1>1, RequestConstants DEF RequestRecord, Streaming
  <2>3. RequestInv(q, jobs')
    BY <1>1, <2>1, <2>2 DEF RequestInv, Shape, Streaming
  <2> QED
    BY <1>0, <2>1, <2>2, <2>3, RequestMoves
<1>7. ASSUME NEW r \in Requests, Emit(r) PROVE RequestsInv'
  <2>1. PICK a \in {"finally", "wait"} :
          req' = [req EXCEPT ![r] = [req[r] EXCEPT !.at = a, !.last = req[r].view]]
    BY <1>7 DEF Emit, RequestsInv
  <2> DEFINE q == [req[r] EXCEPT !.at = a, !.last = req[r].view]
  <2>2. req[r].at = "emit" /\ jobs' = jobs
    BY <1>7 DEF Emit, At, vars
  <2>3. /\ q \in RequestRecord /\ q.at = a /\ q.kind = req[r].kind
        /\ q.job = req[r].job /\ q.view = req[r].view /\ q.last = req[r].view
        /\ q.released = req[r].released /\ q.code = req[r].code
    <3>1. a \in RequestPlaces /\ req[r].view \in ViewRecord
      BY <1>1, RequestConstants, RequestFields DEF Streaming
    <3> QED
      BY <1>1, <3>1 DEF RequestRecord
  <2>4. RequestInv(q, jobs')
    BY <1>1, <2>2, <2>3 DEF RequestInv, Shape, Streaming
  <2> QED
    BY <1>0, <2>1, <2>3, <2>4, RequestMoves
<1>8. ASSUME NEW r \in Requests, Poll(r) PROVE RequestsInv'
  <2> DEFINE j == req[r].job
             q == [req[r] EXCEPT !.at = "emit", !.view = RowView(jobs[j])]
  <2>1. req[r].at = "wait" /\ jobs' = jobs
    BY <1>8 DEF Poll, At, vars
  <2>2. j \in Jobs /\ jobs[j].state # "absent"
    BY <1>1, <2>1 DEF RequestInv, Shape, Streaming
  <2>3. View(j) = RowView(jobs[j]) /\ RowView(jobs[j]) \in ViewRecord
    BY <1>0, <2>2, ViewIsRowView, ViewFields
  <2>4. req' = [req EXCEPT ![r] = q]
    BY <1>8, <2>3 DEF Poll, RequestsInv
  <2>5. /\ q \in RequestRecord /\ q.at = "emit" /\ q.kind = req[r].kind
        /\ q.job = j /\ q.view = RowView(jobs[j]) /\ q.last = req[r].last
        /\ q.released = req[r].released /\ q.code = req[r].code
    BY <1>1, <2>3, RequestConstants, ZenonT(60) DEF RequestRecord, Streaming
  <2>6. RequestInv(q, jobs')
    <3>1. Past(q.view, q.job, jobs')
      BY <1>0, <2>1, <2>2, <2>5, RowViewPast
    <3> QED
      BY <1>1, <2>1, <2>5, <3>1 DEF RequestInv, Shape, Streaming
  <2> QED
    BY <1>0, <2>4, <2>5, <2>6, RequestMoves
<1>9. ASSUME NEW r \in Requests, StreamTimeout(r) PROVE RequestsInv'
  <2> DEFINE q == [req[r] EXCEPT !.at = "finally"]
  <2>1. req[r].at = "wait" /\ jobs' = jobs /\ req' = [req EXCEPT ![r] = q]
    BY <1>9 DEF StreamTimeout, At, vars, RequestsInv
  <2>2. /\ q \in RequestRecord /\ q.at = "finally" /\ q.kind = req[r].kind
        /\ q.job = req[r].job /\ q.view = req[r].view /\ q.last = req[r].last
        /\ q.released = req[r].released /\ q.code = req[r].code
    BY <1>1, RequestConstants DEF RequestRecord, Streaming
  <2>3. RequestInv(q, jobs')
    BY <1>1, <2>1, <2>2 DEF RequestInv, Shape, Streaming
  <2> QED
    BY <1>0, <2>1, <2>2, <2>3, RequestMoves
<1>10. ASSUME NEW r \in Requests, Disconnect(r) PROVE RequestsInv'
  <2>1. PICK a \in {"background", "finally"} :
          req' = [req EXCEPT ![r] = [req[r] EXCEPT !.at = a, !.view = req[r].last]]
    BY <1>10 DEF Disconnect, RequestsInv
  <2> DEFINE q == [req[r] EXCEPT !.at = a, !.view = req[r].last]
  <2>2. req[r].at \in {"response", "emit", "wait"} /\ jobs' = jobs
    BY <1>10 DEF Disconnect, vars
  <2>3. /\ q \in RequestRecord /\ q.at = a /\ q.kind = req[r].kind
        /\ q.job = req[r].job /\ q.view = req[r].last /\ q.last = req[r].last
        /\ q.released = req[r].released /\ q.code = req[r].code
    <3>1. a \in RequestPlaces /\ req[r].last \in ViewRecord
      BY <1>1, RequestConstants, RequestFields DEF Streaming
    <3> QED
      BY <1>1, <3>1 DEF RequestRecord
  <2>4. RequestInv(q, jobs')
    BY <1>1, <2>2, <2>3 DEF RequestInv, Shape, Streaming
  <2> QED
    BY <1>0, <2>1, <2>3, <2>4, RequestMoves
<1>11. ASSUME NEW r \in Requests, CloseGenerator(r) PROVE RequestsInv'
  <2> DEFINE q == [req[r] EXCEPT !.at = "background", !.released = TRUE]
  <2>1. req[r].at = "finally" /\ jobs' = jobs /\ req' = [req EXCEPT ![r] = q]
    BY <1>11 DEF CloseGenerator, At, vars, RequestsInv
  <2>2. /\ q \in RequestRecord /\ q.at = "background" /\ q.kind = req[r].kind
        /\ q.job = req[r].job /\ q.view = req[r].view /\ q.last = req[r].last
        /\ q.code = req[r].code
    BY <1>1, RequestConstants, ZenonT(60) DEF RequestRecord, Streaming
  <2>3. RequestInv(q, jobs')
    BY <1>1, <2>1, <2>2 DEF RequestInv, Shape, Streaming
  <2> QED
    BY <1>0, <2>1, <2>2, <2>3, RequestMoves
<1>12. ASSUME NEW r \in Requests, RunBackground(r) PROVE RequestsInv'
  <2> DEFINE q == [NewRequest EXCEPT !.at = "done", !.kind = "stream",
                                     !.job = req[r].job, !.last = req[r].last]
  <2>1. req[r].at = "background" /\ jobs' = jobs /\ req' = [req EXCEPT ![r] = q]
    BY <1>12 DEF RunBackground, At, vars
  <2>2. /\ q \in RequestRecord /\ q.at = "done" /\ q.kind = "stream"
        /\ q.job = req[r].job /\ q.view = NewRequest.view /\ q.last = req[r].last
        /\ q.released = NewRequest.released /\ q.code = NewRequest.code
    <3>1. req[r].job \in NamedJobs /\ req[r].last \in ViewRecord
      BY <1>1, RequestFields
    <3> QED
      BY <3>1, NewRequestRecord, RequestConstants, ZenonT(60) DEF RequestRecord
  <2>3. RequestInv(q, jobs')
    BY <1>1, <2>1, <2>2 DEF RequestInv, Shape, Streaming, Past, NewRequest
  <2> QED
    BY <1>0, <2>1, <2>2, <2>3, RequestMoves
<1>13. ASSUME NEW r \in Requests, FinishHeavy(r) PROVE RequestsInv'
  <2> DEFINE q == [req[r] EXCEPT !.at = "done"]
  <2>1. req[r].at = "work" /\ jobs' = jobs /\ req' = [req EXCEPT ![r] = q]
    BY <1>13 DEF FinishHeavy, At, vars, RequestsInv
  <2>2. /\ q \in RequestRecord /\ q.at = "done" /\ q.kind = req[r].kind
        /\ q.job = req[r].job /\ q.view = req[r].view /\ q.last = req[r].last
        /\ q.released = req[r].released /\ q.code = req[r].code
    BY <1>1, RequestConstants DEF RequestRecord
  <2>3. RequestInv(q, jobs')
    BY <1>1, <2>1, <2>2 DEF RequestInv, Shape, Streaming
  <2> QED
    BY <1>0, <2>1, <2>2, <2>3, RequestMoves
<1>14. ASSUME NEW r \in Requests, NEW j \in Jobs, cancel_job(r, j) PROVE RequestsInv'
  <2>1. req[r] = NewRequest /\ jobs' = jobs /\ jobs[j].state # "absent"
    BY <1>1, <1>14 DEF cancel_job, At, vars, RequestInv, Shape
  <2>2. CASE jobs[j].state \in Terminal
    <3>c. PICK c \in AnswerCodes : c = 409
      BY RequestConstants
    <3> DEFINE q == [req[r] EXCEPT !.at = "done", !.kind = "cancel", !.code = c]
    <3>1. req' = [req EXCEPT ![r] = q]
      BY <1>14, <2>2, <3>c DEF cancel_job
    <3>2. /\ q \in RequestRecord /\ q.at = "done" /\ q.kind = "cancel" /\ q.code = c
          /\ q.job = req[r].job /\ q.view = req[r].view /\ q.last = req[r].last
          /\ q.released = req[r].released
      BY <1>1, RequestConstants, ZenonT(60) DEF RequestRecord
    <3>3. RequestInv(q, jobs')
      BY <2>1, <3>c, <3>2 DEF RequestInv, Shape, Streaming, Past, NewRequest
    <3> QED
      BY <1>0, <3>1, <3>2, <3>3, RequestMoves
  <2>3. CASE jobs[j].state \notin Terminal
    <3> DEFINE q == [req[r] EXCEPT !.at = "decide", !.kind = "cancel", !.job = j]
    <3>1. req' = [req EXCEPT ![r] = q]
      BY <1>14, <2>3 DEF cancel_job
    <3>2. /\ q \in RequestRecord /\ q.at = "decide" /\ q.kind = "cancel" /\ q.job = j
          /\ q.view = req[r].view /\ q.last = req[r].last
          /\ q.released = req[r].released /\ q.code = req[r].code
      BY <1>1, RequestConstants, ZenonT(60) DEF RequestRecord
    <3>3. RequestInv(q, jobs')
      BY <2>1, <3>2 DEF RequestInv, Shape, Streaming, Past, NewRequest
    <3> QED
      BY <1>0, <3>1, <3>2, <3>3, RequestMoves
  <2> QED
    BY <2>2, <2>3
<1>15. ASSUME NEW r \in Requests, AskStore(r) PROVE RequestsInv'
  <2>0. PICK j \in {req[r].job} :
          /\ IF jobs[j].state \in Terminal THEN UNCHANGED storeVars ELSE CancelJob(j)
          /\ req' = [req EXCEPT ![r].at = "done", ![r].code = 202, ![r].view = View(j)']
    BY <1>15 DEF AskStore
  <2>c. PICK c \in AnswerCodes : c = 202
    BY RequestConstants
  <2> DEFINE q == [req[r] EXCEPT !.at = "done", !.code = c, !.view = RowView(jobs'[j])]
  <2>1. /\ req[r].at = "decide" /\ req[r].kind = "cancel" /\ j = req[r].job
        /\ j \in Jobs /\ jobs[j].state # "absent"
    BY <1>1, <1>15 DEF AskStore, RequestInv, Shape, Streaming
  <2>2. jobs'[j].state # "absent" /\ RowView(jobs'[j]) \in ViewRecord
    BY <1>0, <2>1, EffectMonotone, ViewFields
  <2>3. View(j)' = RowView(jobs'[j])
    <3>1. (\E s \in results' : s.job = j) <=> jobs'[j].state = "succeeded"
      BY <1>0, <2>1 DEF StoreInv, PublishedOnce
    <3>2. (\E s \in results' : s.job = j) = (jobs'[j].state = "succeeded")
      BY <3>1
    <3> QED
      BY <3>2 DEF View, RowView
  <2>4. req' = [req EXCEPT ![r] = q]
    BY <2>0, <2>c, <2>3 DEF RequestsInv
  <2>5. /\ q \in RequestRecord /\ q.at = "done" /\ q.kind = req[r].kind /\ q.code = c
        /\ q.job = j /\ q.view = RowView(jobs'[j]) /\ q.last = req[r].last
        /\ q.released = req[r].released
    <3>1. PICK v \in ViewRecord : v = RowView(jobs'[j])
      BY <2>2
    <3>2. LET p == [req[r] EXCEPT !.at = "done", !.code = c, !.view = v]
          IN  /\ p \in RequestRecord /\ p.at = "done" /\ p.kind = req[r].kind /\ p.code = c
              /\ p.job = req[r].job /\ p.view = v /\ p.last = req[r].last
              /\ p.released = req[r].released
      BY <1>1, RequestConstants, ZenonT(60) DEF RequestRecord
    <3> QED
      BY <2>1, <3>1, <3>2
  <2>6. RowView(jobs'[j]).state \notin Terminal => jobs'[j].cancel
    <3>1. CASE jobs[j].state \in Terminal
      <4>1. jobs' = jobs
        BY <2>0, <3>1 DEF storeVars
      <4> QED
        BY <3>1, <4>1 DEF RowView
    <3>2. CASE jobs[j].state \notin Terminal
      <4>1. jobs' = [jobs EXCEPT ![j] = CancelRow(jobs[j])]
        BY <2>0, <3>2 DEF CancelJob
      <4>2. jobs'[j] = CancelRow(jobs[j]) /\ jobs[j] \in Row
        BY <1>0, <2>1, <4>1
      <4> QED
        BY <4>2, CancelRowRow
    <3> QED
      BY <3>1, <3>2
  <2>7. RequestInv(q, jobs')
    <3>1. Past(q.view, q.job, jobs')
      BY <1>0, <2>1, <2>2, <2>5, RowViewPast
    <3>2. Past(q.last, q.job, jobs')
      BY <1>0, <1>1, <2>1, <2>5, RequestKept DEF RequestInv
    <3> QED
      BY <1>1, <2>c, <2>1, <2>5, <2>6, <3>1, <3>2 DEF RequestInv, Shape, Streaming
  <2> QED
    BY <1>0, <2>4, <2>5, <2>7, RequestMoves
<1> QED
  BY <1>2, <1>3, <1>4, <1>5, <1>6, <1>7, <1>8, <1>9, <1>10, <1>11, <1>12, <1>13,
     <1>14, <1>15 DEF NextApi, Request, Serve, allVars, apiVars

(* The requests' invariant, with the queue's.                              *)
ApiInv == IInv /\ RequestsInv

(* It holds before the first request.                                      *)
LEMMA ApiInvInit == InitApi => ApiInv
<1>1. InitApi => IInv
  BY IInvInit DEF InitApi
<1>2. InitApi => RequestsInv
  <2>1. HAVE InitApi
  <2>2. req = [r \in Requests |-> NewRequest]
    BY <2>1 DEF InitApi
  <2>3. RequestInv(NewRequest, jobs)
    BY DEF RequestInv, Shape, Past, NewRequest, Streaming
  <2> QED
    BY <2>2, <2>3, NewRequestRecord DEF RequestsInv
<1> QED
  BY <1>1, <1>2 DEF ApiInv

(* It is kept, and every step is one of the queue or none of it.           *)
LEMMA ApiInvInductive ==
    ASSUME ApiInv, [NextApi]_allVars
    PROVE  ApiInv' /\ [Next]_vars
<1>1. [Next]_vars
  BY QueueStep DEF ApiInv
<1>2. IInv'
  BY <1>1, IInvInductive DEF ApiInv
<1> QED
  BY <1>1, <1>2, RequestsInductive DEF ApiInv

(* What the requests know of the jobs, in every state.                     *)
THEOREM ApiInvariant == SpecApi => []ApiInv
BY ApiInvInit, ApiInvInductive, PTL DEF SpecApi

(* The queue with the API's requests beside it is the queue: cancel_job    *)
(* decides on a stale answer of get_job, and still does to the table only  *)
(* what one transaction of storage.py does.  Every theorem about the queue *)
(* holds beside any number of requests.                                    *)
THEOREM QueueBesideRequests == SpecApi => Spec
<1>1. InitApi => Init
  BY DEF InitApi
<1>2. ApiInv /\ [NextApi]_allVars => [Next]_vars
  BY ApiInvInductive
<1> QED
  BY <1>1, <1>2, ApiInvariant, PTL DEF SpecApi, Spec

(* What a stream told its client is the job's past: attempts and           *)
(* cancellations it reported are not taken back and a terminal event is    *)
(* the job's last state, with a result exactly if it succeeded.            *)
THEOREM StreamsFaithful == SpecApi => []StreamFaithful
<1>1. ASSUME ApiInv PROVE StreamFaithful
  <2>1. SUFFICES ASSUME NEW r \in Requests, req[r].last # NoView
                 PROVE  /\ req[r].last.attempts <= View(req[r].job).attempts
                        /\ req[r].last.cancel => View(req[r].job).cancel
                        /\ req[r].last.state \in Terminal => req[r].last = View(req[r].job)
                        /\ req[r].last.result = (req[r].last.state = "succeeded")
    BY DEF StreamFaithful
  <2> DEFINE v == req[r].last
             j == req[r].job
  <2>2. Past(v, j, jobs) /\ v \in ViewRecord
    BY <1>1, RequestFields DEF ApiInv, RequestsInv, RequestInv
  <2>3. /\ j \in Jobs /\ v.attempts <= jobs[j].attempts /\ (v.cancel => jobs[j].cancel)
        /\ v.state \in Terminal => v = RowView(jobs[j])
        /\ v.result <=> v.state = "succeeded"
    BY <2>1, <2>2 DEF Past
  <2>4. View(j) = RowView(jobs[j])
    BY <1>1, <2>3, ViewIsRowView DEF ApiInv, IInv
  <2>5. View(j).attempts = jobs[j].attempts /\ View(j).cancel = jobs[j].cancel
    BY <2>4 DEF RowView
  <2>6. v.result = (v.state = "succeeded")
    BY <2>2, <2>3, ViewFields
  <2> QED
    BY <2>3, <2>4, <2>5, <2>6
<1> QED
  BY <1>1, ApiInvariant, PTL

(* No worker publishes or fails a job after the API answered 202 to its    *)
(* cancellation while it was not settled.                                  *)
THEOREM CancellationsHonoured == SpecApi => []CancelHonoured
<1>1. ASSUME ApiInv PROVE CancelHonoured
  <2>1. SUFFICES ASSUME NEW r \in Requests, req[r].kind = "cancel", req[r].code = 202,
                        req[r].view.state \notin Terminal
                 PROVE  jobs[req[r].job].state \notin {"succeeded", "failed"}
    BY DEF CancelHonoured
  <2>2. req[r].job \in Jobs /\ jobs[req[r].job].cancel
    BY <1>1, <2>1 DEF ApiInv, RequestsInv, RequestInv, Shape
  <2>3. jobs[req[r].job].state \in LeaseStates \cup {"cancelled"}
    BY <1>1, <2>2 DEF ApiInv, IInv, StoreInv, CancelWins
  <2> QED
    BY <2>3 DEF LeaseStates
<1> QED
  BY <1>1, ApiInvariant, PTL

-----------------------------------------------------------------------------
(* The limiters.                                                           *)

(* A request q holds a slot of limiter l.                                  *)
HoldsSlot(q, l) ==
    /\ q.kind = l
    /\ \/ q.kind = "stream" /\ q.at \in {"response", "emit", "wait", "finally"}
       \/ q.kind = "stream" /\ q.at = "background" /\ ~q.released
       \/ q.at = "work"

Open(l, n) == {r \in Requests : Principal[r] = n /\ HoldsSlot(req[r], l)}

(* The slots of a count h of each principal.                               *)
SlotsOf(h) == UNION {{n} \X (1..h[n]) : n \in Names}

SlotsInv ==
    /\ held \in [Limiters -> [Names -> Nat]]
    /\ \A l \in Limiters, n \in Names :
          /\ IsFiniteSet(Open(l, n))
          /\ held[l][n] = Cardinality(Open(l, n))
          /\ held[l][n] <= PerPrincipal[l]
    /\ \A l \in Limiters : IsFiniteSet(SlotsOf(held[l])) /\ Cardinality(SlotsOf(held[l])) <= Total[l]

(* A principal's next slot is one that was not in the sum.                 *)
LEMMA SlotsGrow ==
    ASSUME NEW h \in [Names -> Nat], NEW n \in Names
    PROVE  /\ SlotsOf([h EXCEPT ![n] = h[n] + 1]) = SlotsOf(h) \cup {<<n, h[n] + 1>>}
           /\ <<n, h[n] + 1>> \notin SlotsOf(h)
<1>1. \A m \in Names : h[m] \in Nat
  OBVIOUS
<1>2. 1..(h[n] + 1) = (1..h[n]) \cup {h[n] + 1} /\ h[n] + 1 \notin 1..h[n]
  BY <1>1
<1> QED
  BY <1>2 DEF SlotsOf

(* A principal's last slot is taken out of the sum.                        *)
LEMMA SlotsShrink ==
    ASSUME NEW h \in [Names -> Nat], NEW n \in Names, h[n] > 0
    PROVE  /\ SlotsOf([h EXCEPT ![n] = h[n] - 1]) = SlotsOf(h) \ {<<n, h[n]>>}
           /\ <<n, h[n]>> \in SlotsOf(h)
<1>1. \A m \in Names : h[m] \in Nat
  OBVIOUS
<1>2. 1..(h[n] - 1) = (1..h[n]) \ {h[n]} /\ h[n] \in 1..h[n]
  BY <1>1
<1> QED
  BY <1>2 DEF SlotsOf

(* A step that takes and gives back no slot.                               *)
LEMMA SlotsKept ==
    ASSUME SlotsInv, held' = held,
           \A r \in Requests : \A l : HoldsSlot(req'[r], l) <=> HoldsSlot(req[r], l)
    PROVE  SlotsInv'
<1>1. \A l, n : Open(l, n)' = Open(l, n)
  BY DEF Open
<1> QED
  BY <1>1 DEF SlotsInv

(* acquire, for a request that found room in its principal's share and in  *)
(* the total.                                                              *)
LEMMA SlotTaken ==
    ASSUME SlotsInv, req \in [Requests -> RequestRecord],
           NEW r \in Requests, NEW q, NEW l \in Limiters,
           req' = [req EXCEPT ![r] = q],
           \A k : ~HoldsSlot(req[r], k),
           \A k : HoldsSlot(q, k) <=> k = l,
           ~full(l, Principal[r]), acquire(l, Principal[r])
    PROVE  SlotsInv'
<1> DEFINE n == Principal[r]
<1>1. /\ n \in Names /\ held[l] \in [Names -> Nat] /\ held[l][n] \in Nat
      /\ PerPrincipal[l] \in Nat /\ Total[l] \in Nat
      /\ held[l][n] < PerPrincipal[l]
  <2>1. /\ n \in Names /\ held[l] \in [Names -> Nat] /\ held[l][n] \in Nat
        /\ PerPrincipal[l] \in Nat /\ Total[l] \in Nat
    BY ApiAssumption DEF SlotsInv, Names
  <2>2. ~(held[l][n] >= PerPrincipal[l])
    BY DEF full
  <2> QED
    BY <2>1, <2>2
<1>2. held' = [held EXCEPT ![l] = [held[l] EXCEPT ![n] = held[l][n] + 1]]
  BY DEF acquire
<1>3. held' \in [Limiters -> [Names -> Nat]]
  BY <1>1, <1>2 DEF SlotsInv
<1>4. /\ Open(l, n)' = Open(l, n) \cup {r} /\ r \notin Open(l, n)
      /\ \A k \in Limiters, m \in Names : k # l \/ m # n => Open(k, m)' = Open(k, m)
  BY DEF Open
<1>5. ASSUME NEW k \in Limiters, NEW m \in Names
      PROVE  /\ IsFiniteSet(Open(k, m)')
             /\ held'[k][m] = Cardinality(Open(k, m)')
             /\ held'[k][m] <= PerPrincipal[k]
  <2>1. CASE k = l /\ m = n
    <3>1. held'[k][m] = held[l][n] + 1
      BY <1>1, <1>2, <2>1 DEF SlotsInv
    <3>2. IsFiniteSet(Open(l, n)) /\ held[l][n] = Cardinality(Open(l, n))
      BY <1>1 DEF SlotsInv
    <3>3. IsFiniteSet(Open(l, n)') /\ Cardinality(Open(l, n)') = Cardinality(Open(l, n)) + 1
      BY <1>4, <3>2, FS_AddElement
    <3>4. held[l][n] + 1 <= PerPrincipal[l]
      BY <1>1
    <3> QED
      BY <2>1, <3>1, <3>2, <3>3, <3>4
  <2>2. CASE k # l \/ m # n
    <3>1. held'[k][m] = held[k][m]
      BY <1>1, <1>2, <2>2 DEF SlotsInv
    <3> QED
      BY <1>4, <2>2, <3>1 DEF SlotsInv
  <2> QED
    BY <2>1, <2>2
<1>6. ASSUME NEW k \in Limiters
      PROVE  IsFiniteSet(SlotsOf(held'[k])) /\ Cardinality(SlotsOf(held'[k])) <= Total[k]
  <2>0. IsFiniteSet(SlotsOf(held[k])) /\ Cardinality(SlotsOf(held[k])) <= Total[k]
    BY DEF SlotsInv
  <2>1. CASE k = l
    <3>1. held'[k] = [held[l] EXCEPT ![n] = held[l][n] + 1]
      BY <1>2, <2>1 DEF SlotsInv
    <3>2. /\ SlotsOf(held'[k]) = SlotsOf(held[l]) \cup {<<n, held[l][n] + 1>>}
          /\ <<n, held[l][n] + 1>> \notin SlotsOf(held[l])
      BY <1>1, <3>1, SlotsGrow
    <3>3. /\ IsFiniteSet(SlotsOf(held'[k]))
          /\ Cardinality(SlotsOf(held'[k])) = Cardinality(SlotsOf(held[l])) + 1
      <4> DEFINE x == <<n, held[l][n] + 1>>
      <4>1. SlotsOf(held'[k]) = SlotsOf(held[l]) \cup {x} /\ x \notin SlotsOf(held[l])
        BY <3>2
      <4> HIDE DEF x
      <4> QED
        BY <2>0, <2>1, <4>1, FS_AddElement, SMTT(30)
    <3>4. Cardinality(SlotsOf(held[l])) \in Nat /\ Cardinality(SlotsOf(held[l])) < Total[l]
      <4>1. Cardinality(SlotsOf(held[l])) \in Nat
        BY <2>0, <2>1, FS_CardinalityType
      <4>2. ~(Cardinality(SlotsOf(held[l])) >= Total[l])
        BY DEF full, Held, Slots, SlotsOf
      <4> QED
        BY <1>1, <4>1, <4>2
    <3> QED
      BY <1>1, <2>1, <3>3, <3>4
  <2>2. CASE k # l
    BY <1>2, <2>0, <2>2 DEF SlotsInv
  <2> QED
    BY <2>1, <2>2
<1> QED
  BY <1>3, <1>5, <1>6 DEF SlotsInv

(* release, for a request that holds a slot: as it is counted, the count   *)
(* is not zero.                                                            *)
LEMMA SlotGiven ==
    ASSUME SlotsInv, req \in [Requests -> RequestRecord],
           NEW r \in Requests, NEW q, NEW l \in Limiters,
           req' = [req EXCEPT ![r] = q],
           \A k : HoldsSlot(req[r], k) <=> k = l,
           \A k : ~HoldsSlot(q, k),
           release(l, Principal[r])
    PROVE  SlotsInv'
<1> DEFINE n == Principal[r]
<1>1. /\ n \in Names /\ held[l] \in [Names -> Nat] /\ held[l][n] \in Nat
      /\ PerPrincipal[l] \in Nat /\ Total[l] \in Nat
      /\ held[l][n] <= PerPrincipal[l]
      /\ IsFiniteSet(Open(l, n)) /\ held[l][n] = Cardinality(Open(l, n))
  BY ApiAssumption DEF SlotsInv, Names
<1>2. /\ Open(l, n)' = Open(l, n) \ {r} /\ r \in Open(l, n)
      /\ \A k \in Limiters, m \in Names : k # l \/ m # n => Open(k, m)' = Open(k, m)
  BY DEF Open
<1>3. held[l][n] > 0
  BY <1>1, <1>2, FS_EmptySet
<1>4. held' = [held EXCEPT ![l] = [held[l] EXCEPT ![n] = held[l][n] - 1]]
  <2>1. held' = [held EXCEPT ![l] = [held[l] EXCEPT ![n] =
                   IF held[l][n] > 1 THEN held[l][n] - 1 ELSE 0]]
    BY DEF release
  <2>2. (IF held[l][n] > 1 THEN held[l][n] - 1 ELSE 0) = held[l][n] - 1
    BY <1>1, <1>3
  <2> QED
    BY <2>1, <2>2
<1>5. held' \in [Limiters -> [Names -> Nat]]
  <2>1. held[l][n] - 1 \in Nat
    BY <1>1, <1>3
  <2> QED
    BY <1>1, <1>4, <2>1 DEF SlotsInv
<1>6. ASSUME NEW k \in Limiters, NEW m \in Names
      PROVE  /\ IsFiniteSet(Open(k, m)')
             /\ held'[k][m] = Cardinality(Open(k, m)')
             /\ held'[k][m] <= PerPrincipal[k]
  <2>1. CASE k = l /\ m = n
    <3>1. held'[k][m] = held[l][n] - 1
      BY <1>1, <1>4, <2>1 DEF SlotsInv
    <3>2. IsFiniteSet(Open(l, n)') /\ Cardinality(Open(l, n)') = Cardinality(Open(l, n)) - 1
      BY <1>1, <1>2, FS_RemoveElement
    <3>3. held[l][n] - 1 <= PerPrincipal[l]
      BY <1>1
    <3> QED
      BY <1>1, <2>1, <3>1, <3>2, <3>3
  <2>2. CASE k # l \/ m # n
    <3>1. held'[k][m] = held[k][m]
      BY <1>1, <1>4, <2>2 DEF SlotsInv
    <3> QED
      BY <1>2, <2>2, <3>1 DEF SlotsInv
  <2> QED
    BY <2>1, <2>2
<1>7. ASSUME NEW k \in Limiters
      PROVE  IsFiniteSet(SlotsOf(held'[k])) /\ Cardinality(SlotsOf(held'[k])) <= Total[k]
  <2>0. IsFiniteSet(SlotsOf(held[k])) /\ Cardinality(SlotsOf(held[k])) <= Total[k]
    BY DEF SlotsInv
  <2>1. CASE k = l
    <3>1. held'[k] = [held[l] EXCEPT ![n] = held[l][n] - 1]
      BY <1>4, <2>1 DEF SlotsInv
    <3>2. SlotsOf(held'[k]) = SlotsOf(held[l]) \ {<<n, held[l][n]>>}
      BY <1>1, <1>3, <3>1, SlotsShrink
    <3>3. /\ IsFiniteSet(SlotsOf(held'[k]))
          /\ Cardinality(SlotsOf(held'[k])) <= Cardinality(SlotsOf(held[l]))
      <4>1. SlotsOf(held'[k]) \in SUBSET SlotsOf(held[l])
        BY <3>2
      <4> QED
        BY <2>0, <2>1, <4>1, FS_Subset
    <3>4. Cardinality(SlotsOf(held[l])) \in Nat /\ Cardinality(SlotsOf(held'[k])) \in Nat
      BY <2>0, <2>1, <3>3, FS_CardinalityType
    <3> QED
      BY <1>1, <2>0, <2>1, <3>3, <3>4
  <2>2. CASE k # l
    BY <1>4, <2>0, <2>2 DEF SlotsInv
  <2> QED
    BY <2>1, <2>2
<1> QED
  BY <1>5, <1>6, <1>7 DEF SlotsInv

(* Every step takes a slot, gives one back, or neither: a request of       *)
(* job_events gives its slot back in the generator or in the background    *)
(* task and never in both, whenever its client left.                       *)
LEMMA SlotsInductive ==
    ASSUME ApiInv, SlotsInv, [NextApi]_allVars
    PROVE  SlotsInv'
<1>0. /\ req \in [Requests -> RequestRecord]
      /\ \A r \in Requests : req[r] \in RequestRecord /\ Shape(req[r], jobs)
  BY DEF ApiInv, RequestsInv, RequestInv
<1> USE DEF HoldsSlot
<1>k. ASSUME NEW r \in Requests, NEW q, req' = [req EXCEPT ![r] = q], held' = held,
             \A l : HoldsSlot(q, l) <=> HoldsSlot(req[r], l)
      PROVE  SlotsInv'
  <2>1. \A p \in Requests : \A l : HoldsSlot(req'[p], l) <=> HoldsSlot(req[p], l)
    BY <1>0, <1>k
  <2> QED
    BY <1>k, <2>1, SlotsKept
<1>l. "stream" \in Limiters /\ "heavy" \in Limiters
  BY DEF Limiters
<1>1. CASE UNCHANGED apiVars
  BY <1>1, SlotsKept DEF apiVars
<1>2. ASSUME NEW r \in Requests, NEW j \in Jobs, job_events(r, j) PROVE SlotsInv'
  <2> DEFINE q == [req[r] EXCEPT !.at = "acquire", !.kind = "stream", !.job = j, !.view = View(j)]
  <2>1. req' = [req EXCEPT ![r] = q] /\ held' = held /\ req[r].at = "new"
    BY <1>2 DEF job_events, At
  <2>2. q.at = "acquire" /\ req[r].kind = "none"
    BY <1>0, <2>1 DEF RequestRecord, Shape, NewRequest
  <2> QED
    BY <1>k, <2>1, <2>2
<1>r. ASSUME NEW r \in Requests,
             req' = [req EXCEPT ![r] = [NewRequest EXCEPT !.at = "done", !.code = 429]],
             held' = held, \A k : ~HoldsSlot(req[r], k)
      PROVE  SlotsInv'
  <2>1. [NewRequest EXCEPT !.at = "done", !.code = 429].at = "done"
    BY DEF NewRequest
  <2>2. PICK q : q = [NewRequest EXCEPT !.at = "done", !.code = 429]
    OBVIOUS
  <2>3. req' = [req EXCEPT ![r] = q] /\ q.at = "done"
    BY <1>r, <2>1, <2>2
  <2>4. \A k : HoldsSlot(q, k) <=> HoldsSlot(req[r], k)
    BY <1>r, <2>3
  <2> QED
    BY <1>k, <1>r, <2>3, <2>4, ZenonT(60)
<1>3. ASSUME NEW r \in Requests, StartStream(r) PROVE SlotsInv'
  <2>1. req[r].at = "acquire"
    BY <1>3 DEF StartStream, At
  <2>2. CASE full("stream", Principal[r])
    BY <1>3, <1>r, <2>1, <2>2 DEF StartStream, AcquireSlot
  <2>3. CASE ~full("stream", Principal[r])
    <3> DEFINE q == [req[r] EXCEPT !.at = "response", !.kind = "stream"]
    <3>1. req' = [req EXCEPT ![r] = q] /\ acquire("stream", Principal[r])
      BY <1>0, <1>3, <2>3 DEF StartStream, AcquireSlot
    <3>2. q.at = "response" /\ q.kind = "stream"
      BY <1>0 DEF RequestRecord
    <3>3. \A k : HoldsSlot(q, k) <=> k = "stream"
      BY <3>2
    <3> QED
      BY <1>0, <1>l, <2>1, <2>3, <3>1, <3>3, SlotTaken
  <2> QED
    BY <2>2, <2>3
<1>4. ASSUME NEW r \in Requests, StartHeavy(r) PROVE SlotsInv'
  <2>1. req[r].at = "new"
    BY <1>4 DEF StartHeavy, At
  <2>2. CASE full("heavy", Principal[r])
    BY <1>4, <1>r, <2>1, <2>2 DEF StartHeavy, AcquireSlot
  <2>3. CASE ~full("heavy", Principal[r])
    <3> DEFINE q == [req[r] EXCEPT !.at = "work", !.kind = "heavy"]
    <3>1. req' = [req EXCEPT ![r] = q] /\ acquire("heavy", Principal[r])
      BY <1>0, <1>4, <2>3 DEF StartHeavy, AcquireSlot
    <3>2. q.at = "work" /\ q.kind = "heavy"
      BY <1>0 DEF RequestRecord
    <3>3. \A k : HoldsSlot(q, k) <=> k = "heavy"
      BY <3>2
    <3> QED
      BY <1>0, <1>l, <2>1, <2>3, <3>1, <3>3, SlotTaken
  <2> QED
    BY <2>2, <2>3
<1>5. ASSUME NEW r \in Requests, StartGenerator(r) PROVE SlotsInv'
  <2> DEFINE q == [req[r] EXCEPT !.at = "emit"]
  <2>1. req' = [req EXCEPT ![r] = q] /\ held' = held /\ req[r].at = "response"
    BY <1>0, <1>5 DEF StartGenerator, At
  <2>2. q.at = "emit" /\ q.kind = req[r].kind /\ req[r].kind = "stream"
    BY <1>0, <2>1 DEF RequestRecord, Shape, Streaming
  <2> QED
    BY <1>k, <2>1, <2>2
<1>6. ASSUME NEW r \in Requests, Emit(r) PROVE SlotsInv'
  <2>1. PICK a \in {"finally", "wait"} :
          req' = [req EXCEPT ![r] = [req[r] EXCEPT !.at = a, !.last = req[r].view]]
    BY <1>0, <1>6 DEF Emit
  <2> DEFINE q == [req[r] EXCEPT !.at = a, !.last = req[r].view]
  <2>2. held' = held /\ req[r].at = "emit"
    BY <1>6 DEF Emit, At
  <2>3. q.at = a /\ q.kind = req[r].kind /\ req[r].kind = "stream"
    BY <1>0, <2>2 DEF RequestRecord, Shape, Streaming
  <2> QED
    BY <1>k, <2>1, <2>2, <2>3
<1>7. ASSUME NEW r \in Requests, Poll(r) PROVE SlotsInv'
  <2> DEFINE q == [req[r] EXCEPT !.at = "emit", !.view = View(req[r].job)]
  <2>1. req' = [req EXCEPT ![r] = q] /\ held' = held /\ req[r].at = "wait"
    BY <1>0, <1>7 DEF Poll, At
  <2>2. q.at = "emit" /\ q.kind = req[r].kind /\ req[r].kind = "stream"
    BY <1>0, <2>1 DEF RequestRecord, Shape, Streaming
  <2> QED
    BY <1>k, <2>1, <2>2
<1>8. ASSUME NEW r \in Requests, StreamTimeout(r) PROVE SlotsInv'
  <2> DEFINE q == [req[r] EXCEPT !.at = "finally"]
  <2>1. req' = [req EXCEPT ![r] = q] /\ held' = held /\ req[r].at = "wait"
    BY <1>0, <1>8 DEF StreamTimeout, At
  <2>2. q.at = "finally" /\ q.kind = req[r].kind /\ req[r].kind = "stream"
    BY <1>0, <2>1 DEF RequestRecord, Shape, Streaming
  <2> QED
    BY <1>k, <2>1, <2>2
<1>9. ASSUME NEW r \in Requests, Disconnect(r) PROVE SlotsInv'
  <2>1. PICK a \in {"background", "finally"} :
          req' = [req EXCEPT ![r] = [req[r] EXCEPT !.at = a, !.view = req[r].last]]
    BY <1>0, <1>9 DEF Disconnect
  <2> DEFINE q == [req[r] EXCEPT !.at = a, !.view = req[r].last]
  <2>2. held' = held /\ req[r].at \in {"response", "emit", "wait"}
    BY <1>9 DEF Disconnect
  <2>3. /\ q.at = a /\ q.kind = req[r].kind /\ req[r].kind = "stream"
        /\ q.released = req[r].released /\ ~req[r].released
    BY <1>0, <2>2 DEF RequestRecord, Shape, Streaming
  <2> QED
    BY <1>k, <2>1, <2>2, <2>3
<1>10. ASSUME NEW r \in Requests, CloseGenerator(r) PROVE SlotsInv'
  <2> DEFINE q == [req[r] EXCEPT !.at = "background", !.released = TRUE]
  <2>1. req' = [req EXCEPT ![r] = q] /\ release_once(r) /\ req[r].at = "finally"
    BY <1>0, <1>10 DEF CloseGenerator, At
  <2>2. q.at = "background" /\ q.released = TRUE /\ req[r].kind = "stream" /\ ~req[r].released
    BY <1>0, <2>1 DEF RequestRecord, Shape, Streaming
  <2>3. release("stream", Principal[r])
    BY <2>1, <2>2 DEF release_once
  <2>4. (\A k : ~HoldsSlot(q, k)) /\ (\A k : HoldsSlot(req[r], k) <=> k = "stream")
    BY <2>1, <2>2
  <2> QED
    BY <1>0, <1>l, <2>1, <2>3, <2>4, SlotGiven
<1>11. ASSUME NEW r \in Requests, RunBackground(r) PROVE SlotsInv'
  <2> DEFINE q == [NewRequest EXCEPT !.at = "done", !.kind = "stream",
                                     !.job = req[r].job, !.last = req[r].last]
  <2>1. req' = [req EXCEPT ![r] = q] /\ release_once(r) /\ req[r].at = "background"
    BY <1>11 DEF RunBackground, At
  <2>2. q.at = "done" /\ req[r].kind = "stream"
    BY <1>0, <2>1 DEF NewRequest, Shape, Streaming
  <2>3. CASE req[r].released
    BY <1>k, <2>1, <2>2, <2>3 DEF release_once
  <2>4. CASE ~req[r].released
    <3>1. release("stream", Principal[r])
      BY <2>1, <2>4 DEF release_once
    <3>2. (\A k : ~HoldsSlot(q, k)) /\ (\A k : HoldsSlot(req[r], k) <=> k = "stream")
      BY <2>1, <2>2, <2>4
    <3> QED
      BY <1>0, <1>l, <2>1, <3>1, <3>2, SlotGiven
  <2> QED
    BY <2>3, <2>4
<1>12. ASSUME NEW r \in Requests, FinishHeavy(r) PROVE SlotsInv'
  <2> DEFINE q == [req[r] EXCEPT !.at = "done"]
  <2>1. req' = [req EXCEPT ![r] = q] /\ release("heavy", Principal[r]) /\ req[r].at = "work"
    BY <1>0, <1>12 DEF FinishHeavy, At
  <2>2. q.at = "done" /\ req[r].kind = "heavy"
    BY <1>0, <2>1 DEF RequestRecord, Shape
  <2>3. (\A k : ~HoldsSlot(q, k)) /\ (\A k : HoldsSlot(req[r], k) <=> k = "heavy")
    BY <2>1, <2>2
  <2> QED
    BY <1>0, <1>l, <2>1, <2>3, SlotGiven
<1>13. ASSUME NEW r \in Requests, NEW j \in Jobs, cancel_job(r, j) PROVE SlotsInv'
  <2>1. PICK q \in {[req[r] EXCEPT !.at = "done", !.kind = "cancel", !.code = 409],
                    [req[r] EXCEPT !.at = "decide", !.kind = "cancel", !.job = j]} :
          req' = [req EXCEPT ![r] = q]
    BY <1>13 DEF cancel_job
  <2>2. held' = held /\ req[r].at = "new"
    BY <1>13 DEF cancel_job, At
  <2>3. q.at \in {"done", "decide"}
    BY <1>0, <2>1, ZenonT(60) DEF RequestRecord
  <2> QED
    BY <1>k, <2>1, <2>2, <2>3
<1>14. ASSUME NEW r \in Requests, AskStore(r) PROVE SlotsInv'
  <2>1. PICK v :
          req' = [req EXCEPT ![r] = [req[r] EXCEPT !.at = "done", !.code = 202, !.view = v]]
    <3>1. PICK j \in {req[r].job} :
            req' = [req EXCEPT ![r].at = "done", ![r].code = 202, ![r].view = View(j)']
      BY <1>14 DEF AskStore
    <3> QED
      BY <1>0, <3>1, ZenonT(60)
  <2> DEFINE q == [req[r] EXCEPT !.at = "done", !.code = 202, !.view = v]
  <2>2. held' = held /\ req[r].at = "decide"
    BY <1>14 DEF AskStore
  <2>3. q.at = "done"
    BY <1>0 DEF RequestRecord
  <2> QED
    BY <1>k, <2>1, <2>2, <2>3
<1> QED
  BY <1>1, <1>2, <1>3, <1>4, <1>5, <1>6, <1>7, <1>8, <1>9, <1>10, <1>11, <1>12,
     <1>13, <1>14 DEF NextApi, Request, Serve, allVars, apiVars

(* Each limiter counts the requests that are being served, no principal    *)
(* has more than its share and all of them no more than the total, for any *)
(* number of requests, whenever clients leave and generators start or not. *)
THEOREM SlotsExact == SpecApi => []SlotsAccounted
<1>1. InitApi => SlotsInv
  <2>1. HAVE InitApi
  <2>2. /\ held = [l \in Limiters |-> [n \in Names |-> 0]]
        /\ \A r \in Requests : req[r].at = "new"
    BY <2>1 DEF InitApi, NewRequest
  <2>3. \A l \in Limiters, n \in Names : Open(l, n) = {}
    BY <2>2 DEF Open, HoldsSlot
  <2>4. \A l \in Limiters : SlotsOf(held[l]) = {}
    <3>1. 1..0 = {}
      OBVIOUS
    <3> QED
      BY <2>2, <3>1 DEF SlotsOf
  <2> QED
    BY <2>2, <2>3, <2>4, FS_EmptySet, ApiAssumption DEF SlotsInv
<1>2. ASSUME SlotsInv PROVE SlotsAccounted
  <2>1. \A l, n : {r \in Requests : Principal[r] = n /\ req[r].kind = l /\ Holding(r)} = Open(l, n)
    BY DEF Open, HoldsSlot, Holding
  <2>2. \A l \in Limiters : Held(l) <= Total[l]
    BY <1>2 DEF SlotsInv, Held, Slots, SlotsOf
  <2>3. \A l \in Limiters, n \in Names :
          held[l][n] = Cardinality(Open(l, n)) /\ Cardinality(Open(l, n)) <= PerPrincipal[l]
    BY <1>2 DEF SlotsInv
  <2> QED
    BY <2>1, <2>2, <2>3 DEF SlotsAccounted
<1> QED
  BY <1>1, <1>2, SlotsInductive, ApiInvariant, PTL DEF SpecApi
=============================================================================
