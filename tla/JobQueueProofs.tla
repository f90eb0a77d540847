--------------------------- MODULE JobQueueProofs ---------------------------
(***************************************************************************)
(* Proofs about JobQueue, for every set of jobs and workers, every         *)
(* assignment of owner names, every lease length and every lag of a        *)
(* transaction's now().  Lemmas about rows come first, then one lemma per  *)
(* question about the job table, then one per question about the workers.  *)
(***************************************************************************)
EXTENDS JobQueue, FiniteSetTheorems, TLAPS

-----------------------------------------------------------------------------
(* Rows.                                                                   *)

(* The types of a row's columns.                                           *)
LEMMA RowFields ==
    ASSUME NEW row \in Row
    PROVE  /\ row.state \in JobStates
           /\ row.owner \in Owners \cup {NoOwner}
           /\ row.expires \in Int
           /\ 0 - MaxLag <= row.expires /\ row.expires <= LeaseSeconds
           /\ row.attempts \in Nat /\ row.attempts <= MaxAttempts
           /\ row.max_attempts \in Nat /\ row.max_attempts <= MaxAttempts
           /\ row.max_attempts >= 1
           /\ row.cancel \in BOOLEAN
BY JobStoreAssumption DEF Row

(* A released row names no owner and keeps its attempts and its request.   *)
LEMMA ReleaseRow ==
    ASSUME NEW row \in Row, NEW s \in JobStates
    PROVE  /\ Release(row, s) \in Row
           /\ Release(row, s).state = s
           /\ Release(row, s).owner = NoOwner
           /\ Release(row, s).attempts = row.attempts
           /\ Release(row, s).max_attempts = row.max_attempts
           /\ Release(row, s).cancel = row.cancel
<1>1. 0 \in (0 - MaxLag)..LeaseSeconds
  BY JobStoreAssumption
<1> QED
  BY <1>1 DEF Release, Row

(* A leased row counts one more attempt.                                   *)
LEMMA LeaseToRow ==
    ASSUME NEW row \in Row, NEW o \in Owners, NEW lag \in 0..MaxLag,
           row.attempts < row.max_attempts
    PROVE  /\ LeaseTo(row, o, lag) \in Row
           /\ LeaseTo(row, o, lag).state = "leased"
           /\ LeaseTo(row, o, lag).owner = o
           /\ LeaseTo(row, o, lag).attempts = row.attempts + 1
           /\ LeaseTo(row, o, lag).max_attempts = row.max_attempts
           /\ LeaseTo(row, o, lag).cancel = row.cancel
<1>1. LeaseSeconds - lag \in (0 - MaxLag)..LeaseSeconds
  BY JobStoreAssumption
<1>2. row.attempts + 1 \in 0..MaxAttempts
  BY JobStoreAssumption, RowFields
<1> QED
  BY <1>1, <1>2 DEF LeaseTo, Row, JobStates, LeaseStates

(* An extended row changes in its state and its expiry only.               *)
LEMMA ExtendToRow ==
    ASSUME NEW row \in Row, NEW s \in LeaseStates, NEW lag \in 0..MaxLag
    PROVE  /\ ExtendTo(row, s, lag) \in Row
           /\ ExtendTo(row, s, lag).state = s
           /\ ExtendTo(row, s, lag).owner = row.owner
           /\ ExtendTo(row, s, lag).attempts = row.attempts
           /\ ExtendTo(row, s, lag).max_attempts = row.max_attempts
           /\ ExtendTo(row, s, lag).cancel = row.cancel
<1>1. LeaseSeconds - lag \in (0 - MaxLag)..LeaseSeconds
  BY JobStoreAssumption
<1> QED
  BY <1>1 DEF ExtendTo, Row, JobStates

(* Time only brings the expiry nearer.                                     *)
LEMMA LaterRow ==
    ASSUME NEW row \in Row
    PROVE  /\ Later(row) \in Row
           /\ Later(row).state = row.state
           /\ Later(row).owner = row.owner
           /\ Later(row).expires <= row.expires
           /\ Later(row).attempts = row.attempts
           /\ Later(row).max_attempts = row.max_attempts
           /\ Later(row).cancel = row.cancel
           /\ row.state \notin LeaseStates => Later(row) = row
<1>1. /\ row.expires - 1 <= row.expires
      /\ row.expires > 0 - MaxLag => row.expires - 1 \in (0 - MaxLag)..LeaseSeconds
  BY JobStoreAssumption, RowFields
<1> QED
  BY <1>1 DEF Later, Row

(* A new row is queued, unleased and not cancelled.                        *)
LEMMA QueuedRowRow ==
    ASSUME NEW m \in 1..MaxAttempts
    PROVE  /\ QueuedRow(m) \in Row
           /\ QueuedRow(m).state = "queued"
           /\ QueuedRow(m).owner = NoOwner
           /\ QueuedRow(m).attempts = 0
           /\ QueuedRow(m).max_attempts = m
           /\ QueuedRow(m).cancel = FALSE
<1>1. 0 \in (0 - MaxLag)..LeaseSeconds /\ 0 \in 0..MaxAttempts
  BY JobStoreAssumption
<1> QED
  BY <1>1 DEF QueuedRow, Absent, Row, JobStates

(* A cancelled row is flagged, and settled if it was queued.               *)
LEMMA CancelRowRow ==
    ASSUME NEW row \in Row
    PROVE  /\ CancelRow(row) \in Row
           /\ CancelRow(row).state = IF row.state = "queued" THEN "cancelled" ELSE row.state
           /\ CancelRow(row).owner = row.owner
           /\ CancelRow(row).expires = row.expires
           /\ CancelRow(row).attempts = row.attempts
           /\ CancelRow(row).max_attempts = row.max_attempts
           /\ CancelRow(row).cancel = TRUE
BY DEF CancelRow, Row, JobStates, Terminal

(* The state fail picks is one a job can be in.                            *)
LEMMA FailStateState ==
    ASSUME NEW row \in Row, NEW b \in BOOLEAN
    PROVE  FailState(row, b) \in {"cancelled", "queued", "failed"}
BY DEF FailState

-----------------------------------------------------------------------------
(* The table.  Every step of the queue runs at most one transaction, on    *)
(* behalf of a lease that it found held where the code checks for it.      *)

TxEnqueue == \E j \in Jobs, m \in 1..MaxAttempts : EnqueueJob(j, m)
TxCancel == \E j \in Jobs : CancelJob(j)
TxClaimSettles ==
    \E j \in Jobs, lag \in 0..MaxLag : ClaimCancelled(j, lag) \/ ClaimExhausted(j, lag)
TxClaimLease ==
    \E j \in Jobs, o \in Owners, lag \in 0..MaxLag : ClaimLease(j, o, lag)
TxExtend ==
    \E l \in Lease, lag \in 0..MaxLag, s \in LeaseStates :
        Holds(l, lag) /\ Extend(l, lag, s)
TxPublish == \E l \in Lease, lag \in 0..MaxLag : MayPublish(l, lag) /\ Publish(l)
TxRefuse == \E l \in Lease, lag \in 0..MaxLag : MayPublish(l, lag) /\ RefuseFull(l)
TxFail ==
    \E l \in Lease, lag \in 0..MaxLag, b \in BOOLEAN : Holds(l, lag) /\ Fail(l, b)
TxAcknowledge ==
    \E l \in Lease, lag \in 0..MaxLag : MayAcknowledge(l, lag) /\ Acknowledge(l)

OtherStep ==
    \/ TxEnqueue \/ TxCancel \/ RecordAnalysis
    \/ TxClaimSettles \/ TxClaimLease
    \/ TxPublish \/ TxRefuse \/ TxFail \/ TxAcknowledge
    \/ PassTime \/ UNCHANGED storeVars
StoreStep == OtherStep \/ TxExtend

StoreTypes ==
    jobs \in [Jobs -> Row] /\ results \subseteq Result /\ recorded \in Nat

(* The columns of every row of a well-typed table.                         *)
LEMMA TableFields ==
    ASSUME StoreTypes
    PROVE  \A j \in Jobs :
             /\ jobs[j] \in Row
             /\ jobs[j].state \in JobStates
             /\ jobs[j].expires \in Int
             /\ jobs[j].attempts \in Nat
             /\ jobs[j].max_attempts \in Nat
             /\ jobs[j].cancel \in BOOLEAN
BY RowFields DEF StoreTypes

(* What a transaction can do to the table, with what its guards tell of    *)
(* the row it writes.                                                      *)
Adds(j, m) ==
    /\ jobs[j].state = "absent"
    /\ jobs' = [jobs EXCEPT ![j] = QueuedRow(m)]
    /\ results' = results
Flags(j) ==
    /\ jobs[j].state \in {"queued"} \cup LeaseStates
    /\ jobs' = [jobs EXCEPT ![j] = CancelRow(jobs[j])]
    /\ results' = results
Releases(j, s) ==
    /\ s \in {"cancelled", "failed", "queued", "succeeded"}
    /\ jobs[j].state \in {"queued"} \cup LeaseStates
    /\ s = "cancelled" <=> jobs[j].cancel
    /\ s = "queued" => jobs[j].attempts < jobs[j].max_attempts
    /\ s = "succeeded" => jobs[j].state \in LeaseStates /\ jobs[j].attempts \in 1..MaxAttempts
    /\ jobs' = [jobs EXCEPT ![j] = Release(jobs[j], s)]
    /\ results' = IF s = "succeeded"
                  THEN results \cup {[job |-> j, attempt |-> jobs[j].attempts]} ELSE results
Leases(j, o, lag) ==
    /\ \/ jobs[j].state = "queued"
       \/ jobs[j].state \in LeaseStates /\ jobs[j].expires <= 0
    /\ ~jobs[j].cancel
    /\ jobs[j].attempts < jobs[j].max_attempts
    /\ jobs' = [jobs EXCEPT ![j] = LeaseTo(jobs[j], o, lag)]
    /\ results' = results
Extends(l, s, lag) ==
    /\ jobs[l.job].state \in LeaseStates
    /\ jobs[l.job].attempts = l.attempt
    /\ jobs' = [jobs EXCEPT ![l.job] = ExtendTo(jobs[l.job], s, lag)]
    /\ results' = results
Ages == jobs' = [j \in Jobs |-> Later(jobs[j])] /\ results' = results
Keeps == jobs' = jobs /\ results' = results

OtherEffect ==
    \/ \E j \in Jobs, m \in 1..MaxAttempts : Adds(j, m)
    \/ \E j \in Jobs : Flags(j)
    \/ \E j \in Jobs, s \in JobStates : Releases(j, s)
    \/ \E j \in Jobs, o \in Owners, lag \in 0..MaxLag : Leases(j, o, lag)
    \/ Ages
    \/ Keeps
Effect ==
    \/ OtherEffect
    \/ \E l \in Lease, s \in LeaseStates, lag \in 0..MaxLag : Extends(l, s, lag)

(* Every transaction has one of these effects.                             *)
LEMMA StoreStepEffect ==
    ASSUME StoreTypes
    PROVE  (OtherStep => OtherEffect) /\ (StoreStep => Effect)
<1>0. \A j \in Jobs : jobs[j] \in Row /\ jobs[j].expires \in Int /\ jobs[j].cancel \in BOOLEAN
  BY TableFields
<1>1. ASSUME TxEnqueue PROVE OtherEffect
  BY <1>1 DEF TxEnqueue, EnqueueJob, OtherEffect, Adds
<1>2. ASSUME TxCancel PROVE OtherEffect
  BY <1>2 DEF TxCancel, CancelJob, OtherEffect, Flags
<1>3. ASSUME RecordAnalysis PROVE OtherEffect
  BY <1>3 DEF RecordAnalysis, OtherEffect, Keeps
<1>4. ASSUME TxClaimSettles PROVE OtherEffect
  <2>1. PICK j \in Jobs, lag \in 0..MaxLag : ClaimCancelled(j, lag) \/ ClaimExhausted(j, lag)
    BY <1>4 DEF TxClaimSettles
  <2>2. CASE ClaimCancelled(j, lag)
    <3>1. Releases(j, "cancelled")
      BY <2>2 DEF ClaimCancelled, Candidate, Claimable, Releases
    <3> QED
      BY <3>1 DEF OtherEffect, JobStates, Terminal
  <2>3. CASE ClaimExhausted(j, lag)
    <3>1. Releases(j, "failed")
      BY <2>3 DEF ClaimExhausted, Candidate, Claimable, Releases
    <3> QED
      BY <3>1 DEF OtherEffect, JobStates, Terminal
  <2> QED
    BY <2>1, <2>2, <2>3
<1>5. ASSUME TxClaimLease PROVE OtherEffect
  <2>1. PICK j \in Jobs, o \in Owners, lag \in 0..MaxLag : ClaimLease(j, o, lag)
    BY <1>5 DEF TxClaimLease
  <2>2. jobs[j].expires <= 0 - lag => jobs[j].expires <= 0
    <3>1. jobs[j].expires \in Int /\ lag \in Int /\ lag >= 0
      BY <1>0, JobStoreAssumption
    <3> QED
      BY <3>1
  <2>3. \/ jobs[j].state = "queued"
        \/ jobs[j].state \in LeaseStates /\ jobs[j].expires <= 0
    BY <2>1, <2>2 DEF ClaimLease, Candidate, Claimable
  <2>4. Leases(j, o, lag)
    BY <2>1, <2>3 DEF ClaimLease, Leases
  <2> QED
    BY <2>4 DEF OtherEffect
<1>6. ASSUME TxExtend PROVE Effect
  <2>1. PICK l \in Lease, lag \in 0..MaxLag, s \in LeaseStates :
          Holds(l, lag) /\ Extend(l, lag, s)
    BY <1>6 DEF TxExtend
  <2>2. Extends(l, s, lag)
    BY <2>1 DEF Holds, Extend, Extends
  <2> QED
    BY <2>2 DEF Effect
<1>7. ASSUME TxPublish PROVE OtherEffect
  <2>1. PICK l \in Lease, lag \in 0..MaxLag : MayPublish(l, lag) /\ Publish(l)
    BY <1>7 DEF TxPublish
  <2>2. Releases(l.job, "succeeded")
    BY <2>1 DEF MayPublish, Holds, Publish, Releases, Lease
  <2>3. l.job \in Jobs
    BY DEF Lease
  <2> QED
    BY <2>2, <2>3 DEF OtherEffect, JobStates, Terminal
<1>8. ASSUME TxRefuse PROVE OtherEffect
  <2>1. PICK l \in Lease, lag \in 0..MaxLag : MayPublish(l, lag) /\ RefuseFull(l)
    BY <1>8 DEF TxRefuse
  <2>2. Releases(l.job, "failed")
    BY <2>1 DEF MayPublish, Holds, RefuseFull, Releases
  <2>3. l.job \in Jobs
    BY DEF Lease
  <2> QED
    BY <2>2, <2>3 DEF OtherEffect, JobStates, Terminal
<1>9. ASSUME TxFail PROVE OtherEffect
  <2>1. PICK l \in Lease, lag \in 0..MaxLag, b \in BOOLEAN : Holds(l, lag) /\ Fail(l, b)
    BY <1>9 DEF TxFail
  <2>2. l.job \in Jobs
    BY DEF Lease
  <2>3. Releases(l.job, FailState(jobs[l.job], b))
    BY <1>0, <2>1, <2>2 DEF Holds, Fail, FailState, Releases
  <2>4. FailState(jobs[l.job], b) \in JobStates
    BY <1>0, <2>2, FailStateState DEF JobStates, Terminal
  <2> QED
    BY <2>2, <2>3, <2>4 DEF OtherEffect
<1>10. ASSUME TxAcknowledge PROVE OtherEffect
  <2>1. PICK l \in Lease, lag \in 0..MaxLag : MayAcknowledge(l, lag) /\ Acknowledge(l)
    BY <1>10 DEF TxAcknowledge
  <2>2. Releases(l.job, "cancelled")
    BY <2>1 DEF MayAcknowledge, Holds, Acknowledge, Releases
  <2>3. l.job \in Jobs
    BY DEF Lease
  <2> QED
    BY <2>2, <2>3 DEF OtherEffect, JobStates, Terminal
<1>11. ASSUME PassTime PROVE OtherEffect
  BY <1>11 DEF PassTime, OtherEffect, Ages
<1>12. ASSUME UNCHANGED storeVars PROVE OtherEffect
  BY <1>12 DEF storeVars, OtherEffect, Keeps
<1>13. OtherStep => OtherEffect
  BY <1>1, <1>2, <1>3, <1>4, <1>5, <1>7, <1>8, <1>9, <1>10, <1>11, <1>12 DEF OtherStep
<1> QED
  BY <1>6, <1>13 DEF StoreStep, Effect

(* The tables stay well typed.                                             *)
LEMMA EffectTypes ==
    ASSUME StoreTypes, Effect
    PROVE  jobs' \in [Jobs -> Row] /\ results' \subseteq Result
<1> USE DEF StoreTypes
<1>1. ASSUME NEW j \in Jobs, NEW m \in 1..MaxAttempts, Adds(j, m)
      PROVE  jobs' \in [Jobs -> Row] /\ results' \subseteq Result
  BY <1>1, QueuedRowRow DEF Adds
<1>2. ASSUME NEW j \in Jobs, Flags(j)
      PROVE  jobs' \in [Jobs -> Row] /\ results' \subseteq Result
  BY <1>2, CancelRowRow DEF Flags
<1>3. ASSUME NEW j \in Jobs, NEW s \in JobStates, Releases(j, s)
      PROVE  jobs' \in [Jobs -> Row] /\ results' \subseteq Result
  <2>1. jobs' \in [Jobs -> Row]
    BY <1>3, ReleaseRow DEF Releases
  <2> QED
    BY <2>1, <1>3, TableFields DEF Releases, Result
<1>4. ASSUME NEW j \in Jobs, NEW o \in Owners, NEW lag \in 0..MaxLag, Leases(j, o, lag)
      PROVE  jobs' \in [Jobs -> Row] /\ results' \subseteq Result
  BY <1>4, LeaseToRow DEF Leases
<1>5. ASSUME NEW l \in Lease, NEW s \in LeaseStates, NEW lag \in 0..MaxLag,
             Extends(l, s, lag)
      PROVE  jobs' \in [Jobs -> Row] /\ results' \subseteq Result
  <2>1. l.job \in Jobs
    BY DEF Lease
  <2> QED
    BY <1>5, <2>1, ExtendToRow DEF Extends
<1>6. CASE Ages
  BY <1>6, LaterRow DEF Ages
<1>7. CASE Keeps
  BY <1>7 DEF Keeps
<1> QED
  BY <1>1, <1>2, <1>3, <1>4, <1>5, <1>6, <1>7 DEF Effect, OtherEffect

(* Attempts only grow, jobs do not vanish and a cancellation stands.       *)
LEMMA EffectMonotone ==
    ASSUME StoreTypes, Effect, NEW k \in Jobs, jobs[k].state # "absent"
    PROVE  /\ jobs'[k].state # "absent"
           /\ jobs'[k].attempts >= jobs[k].attempts
           /\ jobs[k].cancel => jobs'[k].cancel
<1> DEFINE Goal == /\ jobs'[k].state # "absent"
                   /\ jobs'[k].attempts >= jobs[k].attempts
                   /\ jobs[k].cancel => jobs'[k].cancel
<1>0. /\ \A j \in Jobs : jobs[j] \in Row /\ jobs[j].attempts \in Nat
      /\ jobs[k].attempts >= jobs[k].attempts
  BY TableFields
<1> USE <1>0 DEF StoreTypes
<1>1. ASSUME NEW j \in Jobs, NEW m \in 1..MaxAttempts, Adds(j, m) PROVE Goal
  BY <1>1 DEF Adds
<1>2. ASSUME NEW j \in Jobs, Flags(j) PROVE Goal
  BY <1>2, CancelRowRow DEF Flags
<1>3. ASSUME NEW j \in Jobs, NEW s \in JobStates, Releases(j, s) PROVE Goal
  BY <1>3, ReleaseRow DEF Releases
<1>4. ASSUME NEW j \in Jobs, NEW o \in Owners, NEW lag \in 0..MaxLag, Leases(j, o, lag)
      PROVE  Goal
  <2>1. CASE j = k
    BY <1>4, <2>1, LeaseToRow DEF Leases
  <2>2. CASE j # k
    BY <1>4, <2>2 DEF Leases
  <2> QED
    BY <2>1, <2>2
<1>5. ASSUME NEW l \in Lease, NEW s \in LeaseStates, NEW lag \in 0..MaxLag,
             Extends(l, s, lag)
      PROVE  Goal
  BY <1>5, ExtendToRow DEF Extends, Lease, LeaseStates
<1>6. CASE Ages
  BY <1>6, LaterRow DEF Ages
<1>7. CASE Keeps
  BY <1>7 DEF Keeps
<1> QED
  BY <1>1, <1>2, <1>3, <1>4, <1>5, <1>6, <1>7 DEF Effect, OtherEffect

(* The invariants of the table alone.                                      *)
LEMMA EffectStoreInv ==
    ASSUME StoreTypes, StoreInv, Effect
    PROVE  StoreInv'
<1>0. \A j \in Jobs : /\ jobs[j] \in Row /\ jobs[j].state \in JobStates
                       /\ jobs[j].attempts \in Nat /\ jobs[j].max_attempts \in Nat
                       /\ jobs[j].cancel \in BOOLEAN
  BY TableFields
<1>r. \A r \in results : r.job \in Jobs
  BY DEF StoreTypes, Result
<1> USE DEF LeaseStates
<1>1. ASSUME NEW j \in Jobs, NEW m \in 1..MaxAttempts, Adds(j, m)
      PROVE  StoreInv'
  <2>1. /\ jobs'[j] = QueuedRow(m)
        /\ \A k \in Jobs : k # j => jobs'[k] = jobs[k]
        /\ results' = results
    BY <1>1 DEF Adds, StoreTypes, Lease
  <2>2. /\ QueuedRow(m).state = "queued" /\ QueuedRow(m).owner = NoOwner
        /\ QueuedRow(m).attempts = 0 /\ QueuedRow(m).max_attempts = m
        /\ QueuedRow(m).cancel = FALSE
    BY QueuedRowRow
  <2>m. m \in Nat /\ m >= 1
    BY JobStoreAssumption
  <2>3. RowsWellFormed'
    BY <1>0, <1>1, <2>1, <2>2, <2>m DEF Adds, StoreInv, RowsWellFormed
  <2>4. CancelWins'
    BY <1>0, <1>1, <2>1, <2>2 DEF Adds, StoreInv, CancelWins
  <2>5. PublishedOnce'
    BY <1>0, <1>r, <1>1, <2>1, <2>2 DEF Adds, StoreInv, PublishedOnce
  <2> QED
    BY <2>3, <2>4, <2>5 DEF StoreInv
<1>2. ASSUME NEW j \in Jobs, Flags(j)
      PROVE  StoreInv'
  <2>1. /\ jobs'[j] = CancelRow(jobs[j])
        /\ \A k \in Jobs : k # j => jobs'[k] = jobs[k]
        /\ results' = results
    BY <1>2 DEF Flags, StoreTypes, Lease
  <2>2. /\ CancelRow(jobs[j]).state = IF jobs[j].state = "queued" THEN "cancelled"
                                       ELSE jobs[j].state
        /\ CancelRow(jobs[j]).owner = jobs[j].owner
        /\ CancelRow(jobs[j]).attempts = jobs[j].attempts
        /\ CancelRow(jobs[j]).max_attempts = jobs[j].max_attempts
        /\ CancelRow(jobs[j]).cancel = TRUE
    BY <1>0, CancelRowRow
  <2>3. RowsWellFormed'
    BY <1>0, <1>2, <2>1, <2>2, JobStoreAssumption DEF Flags, StoreInv, RowsWellFormed
  <2>4. CancelWins'
    BY <1>0, <1>2, <2>1, <2>2 DEF Flags, StoreInv, CancelWins
  <2>5. PublishedOnce'
    BY <1>0, <1>r, <1>2, <2>1, <2>2 DEF Flags, StoreInv, PublishedOnce
  <2> QED
    BY <2>3, <2>4, <2>5 DEF StoreInv
<1>3. ASSUME NEW j \in Jobs, NEW s \in JobStates, Releases(j, s)
      PROVE  StoreInv'
  <2>1. /\ jobs'[j] = Release(jobs[j], s)
        /\ \A k \in Jobs : k # j => jobs'[k] = jobs[k]
    BY <1>3 DEF Releases, StoreTypes
  <2>2. /\ Release(jobs[j], s).state = s
        /\ Release(jobs[j], s).owner = NoOwner
        /\ Release(jobs[j], s).attempts = jobs[j].attempts
        /\ Release(jobs[j], s).max_attempts = jobs[j].max_attempts
        /\ Release(jobs[j], s).cancel = jobs[j].cancel
    BY <1>0, ReleaseRow
  <2>3. RowsWellFormed'
    BY <1>0, <1>3, <2>1, <2>2 DEF Releases, StoreInv, RowsWellFormed
  <2>4. CancelWins'
    BY <1>0, <1>3, <2>1, <2>2 DEF Releases, StoreInv, CancelWins
  <2>5. PublishedOnce'
    <3>1. \A r \in results : r.job # j
      BY <1>3 DEF Releases, StoreInv, PublishedOnce
    <3>2. CASE s = "succeeded"
      <4> DEFINE new == [job |-> j, attempt |-> jobs[j].attempts]
      <4>1. new.job = j /\ new.attempt = jobs[j].attempts
        OBVIOUS
      <4>2. results' = results \cup {new}
        BY <1>3, <3>2 DEF Releases
      <4> HIDE DEF new
      <4> QED
        BY <1>r, <2>1, <2>2, <3>1, <3>2, <4>1, <4>2 DEF StoreInv, PublishedOnce
    <3>3. CASE s # "succeeded"
      <4>1. results' = results
        BY <1>3, <3>3 DEF Releases
      <4> QED
        BY <1>r, <2>1, <2>2, <3>1, <3>3, <4>1 DEF StoreInv, PublishedOnce
    <3> QED
      BY <3>2, <3>3
  <2> QED
    BY <2>3, <2>4, <2>5 DEF StoreInv
<1>4. ASSUME NEW j \in Jobs, NEW o \in Owners, NEW lag \in 0..MaxLag, Leases(j, o, lag)
      PROVE  StoreInv'
  <2>1. /\ jobs'[j] = LeaseTo(jobs[j], o, lag)
        /\ \A k \in Jobs : k # j => jobs'[k] = jobs[k]
        /\ results' = results
    BY <1>4 DEF Leases, StoreTypes, Lease
  <2>2. /\ LeaseTo(jobs[j], o, lag).state = "leased"
        /\ LeaseTo(jobs[j], o, lag).owner = o
        /\ LeaseTo(jobs[j], o, lag).attempts = jobs[j].attempts + 1
        /\ LeaseTo(jobs[j], o, lag).max_attempts = jobs[j].max_attempts
        /\ LeaseTo(jobs[j], o, lag).cancel = jobs[j].cancel
    BY <1>0, <1>4, LeaseToRow DEF Leases
  <2>3. RowsWellFormed'
    BY <1>0, <1>4, <2>1, <2>2, JobStoreAssumption DEF Leases, StoreInv, RowsWellFormed
  <2>4. CancelWins'
    BY <1>0, <1>4, <2>1, <2>2 DEF Leases, StoreInv, CancelWins
  <2>5. PublishedOnce'
    BY <1>0, <1>r, <1>4, <2>1, <2>2 DEF Leases, StoreInv, PublishedOnce
  <2> QED
    BY <2>3, <2>4, <2>5 DEF StoreInv
<1>5. ASSUME NEW l \in Lease, NEW s \in LeaseStates, NEW lag \in 0..MaxLag,
             Extends(l, s, lag)
      PROVE  StoreInv'
  <2>1. /\ jobs'[l.job] = ExtendTo(jobs[l.job], s, lag)
        /\ \A k \in Jobs : k # l.job => jobs'[k] = jobs[k]
        /\ results' = results
    BY <1>5 DEF Extends, StoreTypes, Lease
  <2>2. /\ l.job \in Jobs
        /\ ExtendTo(jobs[l.job], s, lag).state = s
        /\ ExtendTo(jobs[l.job], s, lag).owner = jobs[l.job].owner
        /\ ExtendTo(jobs[l.job], s, lag).attempts = jobs[l.job].attempts
        /\ ExtendTo(jobs[l.job], s, lag).max_attempts = jobs[l.job].max_attempts
        /\ ExtendTo(jobs[l.job], s, lag).cancel = jobs[l.job].cancel
    BY <1>0, ExtendToRow DEF Lease
  <2>3. RowsWellFormed'
    BY <1>0, <1>5, <2>1, <2>2, JobStoreAssumption DEF Extends, StoreInv, RowsWellFormed
  <2>4. CancelWins'
    BY <1>0, <1>5, <2>1, <2>2 DEF Extends, StoreInv, CancelWins
  <2>5. PublishedOnce'
    BY <1>0, <1>r, <1>5, <2>1, <2>2 DEF Extends, StoreInv, PublishedOnce
  <2> QED
    BY <2>3, <2>4, <2>5 DEF StoreInv
<1>6. CASE Ages
  <2>1. /\ \A k \in Jobs : jobs'[k] = Later(jobs[k])
        /\ results' = results
    BY <1>6 DEF Ages
  <2>2. \A k \in Jobs : /\ Later(jobs[k]).state = jobs[k].state
                         /\ Later(jobs[k]).owner = jobs[k].owner
                         /\ Later(jobs[k]).attempts = jobs[k].attempts
                         /\ Later(jobs[k]).max_attempts = jobs[k].max_attempts
                         /\ Later(jobs[k]).cancel = jobs[k].cancel
    BY <1>0, LaterRow
  <2> QED
    BY <1>r, <2>1, <2>2 DEF StoreInv, RowsWellFormed, PublishedOnce, CancelWins
<1>7. CASE Keeps
  BY <1>7 DEF Keeps, StoreInv, RowsWellFormed, PublishedOnce, CancelWins
<1> QED
  BY <1>1, <1>2, <1>3, <1>4, <1>5, <1>6, <1>7 DEF Effect, OtherEffect

(* Whether a row is held under a lease, at the present time.               *)
Live(row, l) ==
    /\ row.state \in LeaseStates
    /\ row.owner = l.owner
    /\ row.attempts = l.attempt
    /\ row.expires > 0

(* It is what _held tests with a fresh now().                              *)
LEMMA LiveHolds ==
    ASSUME NEW l
    PROVE  Live(jobs[l.job], l) <=> Holds(l, 0)
<1>1. 0 - 0 = 0
  OBVIOUS
<1> QED
  BY <1>1 DEF Live, Holds

(* A lease that is not held stays so: its attempt is never current again,  *)
(* and only an Extend could move its expiry.                               *)
LEMMA EffectNotRevived ==
    ASSUME StoreTypes, OtherEffect, NEW l \in Lease, ~Live(jobs[l.job], l),
           jobs[l.job].state # "absent", l.attempt <= jobs[l.job].attempts
    PROVE  ~Live(jobs'[l.job], l)
<1>0. /\ l.job \in Jobs /\ l.attempt \in Nat
      /\ \A k \in Jobs : jobs[k] \in Row /\ jobs[k].attempts \in Nat
  <2>1. l.attempt \in Nat /\ l.job \in Jobs
    BY JobStoreAssumption DEF Lease
  <2> QED
    BY <2>1, TableFields
<1> USE DEF Live, StoreTypes
<1>1. ASSUME NEW j \in Jobs, NEW m \in 1..MaxAttempts, Adds(j, m) PROVE ~Live(jobs'[l.job], l)
  BY <1>0, <1>1 DEF Adds
<1>2. ASSUME NEW j \in Jobs, Flags(j) PROVE ~Live(jobs'[l.job], l)
  <2>1. CASE j = l.job
    <3>1. /\ jobs'[j].state \in LeaseStates => jobs'[j].state = jobs[j].state
          /\ jobs'[j].owner = jobs[j].owner
          /\ jobs'[j].attempts = jobs[j].attempts
          /\ jobs'[j].expires = jobs[j].expires
      BY <1>0, <1>2, CancelRowRow DEF Flags, LeaseStates
    <3> QED
      BY <2>1, <3>1
  <2>2. CASE j # l.job
    BY <1>0, <1>2, <2>2 DEF Flags
  <2> QED
    BY <2>1, <2>2
<1>3. ASSUME NEW j \in Jobs, NEW s \in JobStates, Releases(j, s) PROVE ~Live(jobs'[l.job], l)
  BY <1>0, <1>3, ReleaseRow DEF Releases, LeaseStates
<1>4. ASSUME NEW j \in Jobs, NEW o \in Owners, NEW lag \in 0..MaxLag, Leases(j, o, lag)
      PROVE  ~Live(jobs'[l.job], l)
  <2>1. CASE j = l.job
    <3>1. jobs'[j].attempts = jobs[j].attempts + 1
      BY <1>0, <1>4, LeaseToRow DEF Leases
    <3> QED
      BY <1>0, <2>1, <3>1
  <2>2. CASE j # l.job
    BY <1>0, <1>4, <2>2 DEF Leases
  <2> QED
    BY <2>1, <2>2
<1>5. CASE Ages
  <2>1. /\ jobs'[l.job].state = jobs[l.job].state
        /\ jobs'[l.job].owner = jobs[l.job].owner
        /\ jobs'[l.job].attempts = jobs[l.job].attempts
        /\ jobs'[l.job].expires <= jobs[l.job].expires
    BY <1>0, <1>5, LaterRow DEF Ages
  <2>2. jobs'[l.job].expires \in Int /\ jobs[l.job].expires \in Int
    BY <1>0, <1>5, LaterRow, RowFields DEF Ages
  <2>3. jobs'[l.job].expires > 0 => jobs[l.job].expires > 0
    BY <2>1, <2>2
  <2> QED
    BY <2>1, <2>3
<1>6. CASE Keeps
  BY <1>6 DEF Keeps
<1> QED
  BY <1>1, <1>2, <1>3, <1>4, <1>5, <1>6 DEF OtherEffect

-----------------------------------------------------------------------------
(* The workers.  A step moves at most one of them; it runs a transaction   *)
(* for the lease that worker holds.                                        *)

LocalKeeps == UNCHANGED <<pc, lease, lost, cancelSeen>>

(* A step other than a lease being granted or extended.                    *)
PlainStep ==
    /\ OtherStep
    /\ \/ LocalKeeps
       \/ \E w \in Workers : Return(w)
       \/ \E w \in Workers, place \in Places \ {"idle"} :
             /\ pc[w] # "idle"
             /\ lost[w] => place \in BeatPlaces
             /\ Goto(w, place)

(* mark_running or a heartbeat that finds the lease held.                  *)
ExtendStep(w) ==
    /\ \E lag \in 0..MaxLag, s \in LeaseStates :
          Holds(lease[w], lag) /\ Extend(lease[w], lag, s)
    /\ lease[w] \in Lease
    /\ lease' = lease /\ lost' = lost
    /\ pc[w] # "idle" /\ ~lost[w]
    /\ \E place \in Places \ {"idle"} : pc' = [pc EXCEPT ![w] = place]
    /\ \/ cancelSeen' = cancelSeen
       \/ cancelSeen' = [cancelSeen EXCEPT ![w] = cancelSeen[w] \/ jobs[lease[w].job].cancel]

(* A heartbeat that finds the lease gone.                                  *)
LoseStep(w) ==
    /\ UNCHANGED storeVars
    /\ pc[w] \in BeatPlaces
    /\ \E lag \in 0..MaxLag : ~Holds(lease[w], lag)
    /\ lost' = [lost EXCEPT ![w] = TRUE]
    /\ UNCHANGED <<pc, lease, cancelSeen>>

(* Every step of the queue is one of these.                                *)
LEMMA StepShapes ==
    ASSUME TypeOK, WorkersInStep, [Next]_vars
    PROVE  \/ PlainStep
           \/ \E w \in Workers : ClaimSucceeds(w) \/ ExtendStep(w) \/ LoseStep(w)
<1> DEFINE Shape == \/ PlainStep
                    \/ \E w \in Workers : ClaimSucceeds(w) \/ ExtendStep(w) \/ LoseStep(w)
<1>0. ASSUME NEW w \in Workers
      PROVE  /\ pc[w] \in Places
             /\ pc[w] # "idle" => lease[w] \in Lease
             /\ lost[w] \in BOOLEAN
             /\ lost[w] => pc[w] \in BeatPlaces
             /\ \A n \in 0..age[w] : n \in 0..MaxLag
             /\ \A n \in 0..beatAge[w] : n \in 0..MaxLag
  <2>1. age[w] \in 0..MaxLag /\ beatAge[w] \in 0..MaxLag
    BY DEF TypeOK
  <2>2. /\ \A n \in 0..age[w] : n \in 0..MaxLag
        /\ \A n \in 0..beatAge[w] : n \in 0..MaxLag
    BY <2>1, JobStoreAssumption
  <2> QED
    BY <2>2 DEF TypeOK, WorkersInStep
<1>1. ASSUME NEW j \in Jobs, Enqueue(j) PROVE Shape
  BY <1>1 DEF Enqueue, PlainStep, OtherStep, TxEnqueue, LocalKeeps, workerVars
<1>2. ASSUME NEW j \in Jobs, Cancel(j) PROVE Shape
  BY <1>2 DEF Cancel, PlainStep, OtherStep, TxCancel, LocalKeeps, workerVars
<1>3. CASE Record
  BY <1>3 DEF Record, PlainStep, OtherStep, LocalKeeps, workerVars
<1>4. ASSUME NEW w \in Workers, ClaimSettles(w) PROVE Shape
  <2>1. TxClaimSettles
    BY <1>0, <1>4 DEF ClaimSettles, TxClaimSettles, Lags
  <2> QED
    BY <1>4, <2>1 DEF ClaimSettles, PlainStep, OtherStep, LocalKeeps
<1>5. ASSUME NEW w \in Workers, MarkRunning(w) PROVE Shape
  <2>1. PICK lag \in Lags(w) :
          \/ ~Holds(lease[w], lag) /\ UNCHANGED storeVars /\ Return(w)
          \/ /\ Holds(lease[w], lag)
             /\ Extend(lease[w], lag, "running")
             /\ Goto(w, IF jobs[lease[w].job].cancel THEN "ackStart" ELSE "run")
    BY <1>5 DEF MarkRunning
  <2>2. lag \in 0..MaxLag /\ pc[w] = "mark" /\ ~lost[w] /\ lease[w] \in Lease
    BY <1>0, <1>5 DEF MarkRunning, Lags, BeatPlaces
  <2>3. CASE UNCHANGED storeVars /\ Return(w)
    BY <2>3 DEF PlainStep, OtherStep
  <2>4. CASE /\ Holds(lease[w], lag)
             /\ Extend(lease[w], lag, "running")
             /\ Goto(w, IF jobs[lease[w].job].cancel THEN "ackStart" ELSE "run")
    <3>1. ExtendStep(w)
      BY <2>2, <2>4 DEF ExtendStep, Goto, LeaseStates, Places
    <3> QED
      BY <3>1
  <2> QED
    BY <2>1, <2>3, <2>4
<1>6. ASSUME NEW w \in Workers, Heartbeat(w) PROVE Shape
  <2>1. PICK lag \in BeatLags(w) :
          \/ /\ ~Holds(lease[w], lag)
             /\ lost' = [lost EXCEPT ![w] = TRUE]
             /\ UNCHANGED <<storeVars, cancelSeen>>
          \/ /\ Holds(lease[w], lag)
             /\ Extend(lease[w], lag, jobs[lease[w].job].state)
             /\ cancelSeen' = [cancelSeen EXCEPT ![w] = @ \/ jobs[lease[w].job].cancel]
             /\ UNCHANGED lost
    BY <1>6 DEF Heartbeat
  <2>2. /\ lag \in 0..MaxLag /\ pc[w] \in BeatPlaces /\ ~lost[w] /\ UNCHANGED <<pc, lease>>
        /\ pc[w] # "idle" /\ pc[w] \in Places
    BY <1>0, <1>6 DEF Heartbeat, BeatLags, BeatPlaces
  <2>3. CASE /\ ~Holds(lease[w], lag)
             /\ lost' = [lost EXCEPT ![w] = TRUE]
             /\ UNCHANGED <<storeVars, cancelSeen>>
    BY <2>2, <2>3 DEF LoseStep
  <2>4. CASE /\ Holds(lease[w], lag)
             /\ Extend(lease[w], lag, jobs[lease[w].job].state)
             /\ cancelSeen' = [cancelSeen EXCEPT ![w] = @ \/ jobs[lease[w].job].cancel]
             /\ UNCHANGED lost
    <3>1. pc' = [pc EXCEPT ![w] = pc[w]]
      BY <2>2 DEF TypeOK
    <3>2. jobs[lease[w].job].state \in LeaseStates
      BY <2>4 DEF Holds
    <3>3. ExtendStep(w)
      BY <1>0, <2>2, <2>4, <3>1, <3>2 DEF ExtendStep
    <3> QED
      BY <3>3
  <2> QED
    BY <2>1, <2>3, <2>4
<1>7. ASSUME NEW w \in Workers, ExecutorRaises(w) PROVE Shape
  BY <1>7 DEF ExecutorRaises, PlainStep, OtherStep, Places, BeatPlaces
<1>8. ASSUME NEW w \in Workers, ExecutorReturns(w) PROVE Shape
  <2>1. CASE lost[w]
    BY <1>8, <2>1 DEF ExecutorReturns, PlainStep, OtherStep
  <2>2. CASE ~lost[w]
    BY <1>8, <2>2 DEF ExecutorReturns, PlainStep, OtherStep, Places
  <2> QED
    BY <2>1, <2>2
<1>9. ASSUME NEW w \in Workers, FailJob(w) PROVE Shape
  <2>1. PICK lag \in Lags(w) :
          \/ ~Holds(lease[w], lag) /\ UNCHANGED storeVars
          \/ Holds(lease[w], lag) /\ Fail(lease[w], pc[w] = "transient")
    BY <1>9 DEF FailJob
  <2>2. lag \in 0..MaxLag /\ lease[w] \in Lease /\ (pc[w] = "transient") \in BOOLEAN
    BY <1>0, <1>9 DEF FailJob, Lags
  <2>3. OtherStep
    BY <2>1, <2>2 DEF OtherStep, TxFail
  <2> QED
    BY <1>9, <2>3 DEF FailJob, PlainStep
<1>10. ASSUME NEW w \in Workers, AcknowledgeCancel(w) PROVE Shape
  <2>1. PICK lag \in Lags(w) :
          \/ /\ MayAcknowledge(lease[w], lag)
             /\ Acknowledge(lease[w])
             /\ Return(w)
          \/ /\ ~MayAcknowledge(lease[w], lag)
             /\ IF pc[w] = "ackFlag" THEN Goto(w, "complete") ELSE Return(w)
             /\ UNCHANGED storeVars
    BY <1>10 DEF AcknowledgeCancel
  <2>2. lag \in 0..MaxLag /\ lease[w] \in Lease /\ pc[w] # "idle" /\ ~lost[w]
    BY <1>0, <1>10 DEF AcknowledgeCancel, Lags, BeatPlaces
  <2>3. OtherStep
    BY <2>1, <2>2 DEF OtherStep, TxAcknowledge
  <2>4. Return(w) \/ Goto(w, "complete")
    BY <2>1
  <2> QED
    BY <2>2, <2>3, <2>4 DEF PlainStep, Places
<1>11. ASSUME NEW w \in Workers, Complete(w) PROVE Shape
  <2>1. PICK lag \in Lags(w) :
          \/ MayPublish(lease[w], lag) /\ Publish(lease[w]) /\ Return(w)
          \/ MayPublish(lease[w], lag) /\ RefuseFull(lease[w]) /\ Goto(w, "ackLate")
          \/ ~MayPublish(lease[w], lag) /\ UNCHANGED storeVars /\ Goto(w, "ackLate")
    BY <1>11 DEF Complete
  <2>2. lag \in 0..MaxLag /\ lease[w] \in Lease /\ pc[w] # "idle" /\ ~lost[w]
    BY <1>0, <1>11 DEF Complete, Lags, BeatPlaces
  <2>3. OtherStep
    BY <2>1, <2>2 DEF OtherStep, TxPublish, TxRefuse
  <2>4. Return(w) \/ Goto(w, "ackLate")
    BY <2>1
  <2> QED
    BY <2>2, <2>3, <2>4 DEF PlainStep, Places
<1>12. ASSUME NEW w \in Workers, Abandon(w) PROVE Shape
  BY <1>12 DEF Abandon, PlainStep, OtherStep
<1>13. CASE Tick
  BY <1>13 DEF Tick, PlainStep, OtherStep, LocalKeeps
<1>14. CASE UNCHANGED vars
  BY <1>14 DEF vars, PlainStep, OtherStep, LocalKeeps, storeVars
<1> QED
  BY <1>1, <1>2, <1>3, <1>4, <1>5, <1>6, <1>7, <1>8, <1>9, <1>10, <1>11, <1>12,
     <1>13, <1>14 DEF Next, Claim, Proceed

(* Where a lease is granted: the worker was idle, its new lease names the  *)
(* row's new attempt and the transaction is claim's.                       *)
LEMMA ClaimShape ==
    ASSUME TypeOK, NEW w \in Workers, ClaimSucceeds(w)
    PROVE  \E j \in Jobs, lag \in 0..MaxLag, place \in {"reject", "mark"} :
             /\ Leases(j, Owner[w], lag)
             /\ OtherStep
             /\ lease' = [lease EXCEPT ![w] = [job |-> j, owner |-> Owner[w],
                                              attempt |-> jobs[j].attempts + 1]]
             /\ [job |-> j, owner |-> Owner[w], attempt |-> jobs[j].attempts + 1] \in Lease
             /\ pc' = [pc EXCEPT ![w] = place]
<1>1. PICK j \in Jobs, lag \in Lags(w) :
        /\ ClaimLease(j, Owner[w], lag)
        /\ lease' = [lease EXCEPT ![w] =
                       [job |-> j, owner |-> Owner[w], attempt |-> jobs'[j].attempts]]
        /\ \E place \in {"reject", "mark"} : pc' = [pc EXCEPT ![w] = place]
  BY DEF ClaimSucceeds
<1>2. age[w] \in 0..MaxLag
  BY DEF TypeOK
<1>3. lag \in 0..MaxLag
  BY <1>2, JobStoreAssumption DEF Lags
<1>4. Owner[w] \in Owners
  BY JobQueueAssumption
<1>5. OtherStep
  BY <1>1, <1>3, <1>4 DEF OtherStep, TxClaimLease
<1>6. jobs[j] \in Row /\ StoreTypes
  BY DEF TypeOK, StoreTypes
<1>7. jobs[j].expires <= 0 - lag => jobs[j].expires <= 0
  <2>1. jobs[j].expires \in Int /\ lag \in Int /\ lag >= 0
    BY <1>3, <1>6, RowFields, JobStoreAssumption
  <2> QED
    BY <2>1
<1>8. \/ jobs[j].state = "queued"
      \/ jobs[j].state \in LeaseStates /\ jobs[j].expires <= 0
  BY <1>1, <1>7 DEF ClaimLease, Candidate, Claimable
<1>9. Leases(j, Owner[w], lag)
  BY <1>1, <1>8 DEF ClaimLease, Leases
<1>10. jobs[j].attempts < jobs[j].max_attempts
  BY <1>9 DEF Leases
<1>11. jobs'[j] = LeaseTo(jobs[j], Owner[w], lag)
  BY <1>6, <1>9 DEF Leases, StoreTypes
<1>12. jobs'[j].attempts = jobs[j].attempts + 1
  BY <1>3, <1>4, <1>6, <1>10, <1>11, LeaseToRow
<1>13. jobs[j].attempts + 1 \in 1..MaxAttempts
  BY <1>6, <1>10, RowFields, JobStoreAssumption
<1>14. [job |-> j, owner |-> Owner[w], attempt |-> jobs[j].attempts + 1] \in Lease
  BY <1>4, <1>13 DEF Lease
<1> QED
  BY <1>1, <1>3, <1>5, <1>9, <1>12, <1>14

(* The worker variables stay well typed.                                   *)
LEMMA WorkerTypes ==
    ASSUME TypeOK, WorkersInStep, [Next]_vars
    PROVE  /\ pc' \in [Workers -> Places]
           /\ lease' \in [Workers -> Lease \cup {NoLease}]
           /\ lost' \in [Workers -> BOOLEAN]
           /\ cancelSeen' \in [Workers -> BOOLEAN]
<1> DEFINE Goal == /\ pc' \in [Workers -> Places]
                   /\ lease' \in [Workers -> Lease \cup {NoLease}]
                   /\ lost' \in [Workers -> BOOLEAN]
                   /\ cancelSeen' \in [Workers -> BOOLEAN]
<1> USE DEF TypeOK
<1>1. CASE PlainStep
  <2>1. CASE LocalKeeps
    BY <2>1 DEF LocalKeeps
  <2>2. ASSUME NEW w \in Workers, Return(w) PROVE Goal
    BY <2>2 DEF Return, Places
  <2>3. ASSUME NEW w \in Workers, NEW place \in Places, Goto(w, place) PROVE Goal
    BY <2>3 DEF Goto
  <2> QED
    BY <1>1, <2>1, <2>2, <2>3 DEF PlainStep
<1>2. ASSUME NEW w \in Workers, ClaimSucceeds(w) PROVE Goal
  <2>1. UNCHANGED <<lost, cancelSeen>>
    BY <1>2 DEF ClaimSucceeds
  <2> QED
    BY <1>2, <2>1, ClaimShape DEF Places
<1>3. ASSUME NEW w \in Workers, ExtendStep(w) PROVE Goal
  <2>1. /\ pc' \in [Workers -> Places]
        /\ lease' \in [Workers -> Lease \cup {NoLease}]
        /\ lost' \in [Workers -> BOOLEAN]
    BY <1>3 DEF ExtendStep
  <2>2. jobs[lease[w].job].cancel \in BOOLEAN
    BY <1>3, RowFields DEF ExtendStep, Lease
  <2>3. cancelSeen' \in [Workers -> BOOLEAN]
    BY <1>3, <2>2 DEF ExtendStep
  <2> QED
    BY <2>1, <2>3
<1>4. ASSUME NEW w \in Workers, LoseStep(w) PROVE Goal
  BY <1>4 DEF LoseStep
<1> QED
  BY <1>1, <1>2, <1>3, <1>4, StepShapes

(* The ages of calls in flight stay within MaxLag.                         *)
LEMMA AgeTypes ==
    ASSUME TypeOK, [Next]_vars
    PROVE  age' \in [Workers -> 0..MaxLag] /\ beatAge' \in [Workers -> 0..MaxLag]
<1> DEFINE Goal == age' \in [Workers -> 0..MaxLag] /\ beatAge' \in [Workers -> 0..MaxLag]
<1>0. /\ age \in [Workers -> 0..MaxLag] /\ beatAge \in [Workers -> 0..MaxLag]
      /\ 0 \in 0..MaxLag
      /\ \A n \in 0..MaxLag : n < MaxLag => n + 1 \in 0..MaxLag
  BY JobStoreAssumption DEF TypeOK
<1>1. ASSUME NEW w \in Workers, Return(w) PROVE Goal
  BY <1>0, <1>1 DEF Return
<1>2. ASSUME NEW w \in Workers, NEW place, Goto(w, place) PROVE Goal
  BY <1>0, <1>2 DEF Goto
<1>3. CASE Tick
  BY <1>0, <1>3 DEF Tick
<1>4. ASSUME NEW w \in Workers, ClaimSettles(w) \/ ClaimSucceeds(w) PROVE Goal
  BY <1>0, <1>4 DEF ClaimSettles, ClaimSucceeds
<1>5. ASSUME NEW w \in Workers, Heartbeat(w) PROVE Goal
  BY <1>0, <1>5 DEF Heartbeat
<1>6. ASSUME NEW w \in Workers, Proceed(w) \/ Abandon(w) PROVE Goal
  <2>1. Return(w) \/ \E place : Goto(w, place)
    BY <1>6 DEF Proceed, Abandon, MarkRunning, ExecutorRaises, ExecutorReturns, FailJob,
                AcknowledgeCancel, Complete
  <2> QED
    BY <1>1, <1>2, <2>1
<1>7. CASE UNCHANGED <<age, beatAge>>
  BY <1>0, <1>7
<1> QED
  BY <1>3, <1>4, <1>5, <1>6, <1>7
     DEF Next, Claim, Enqueue, Cancel, Record, workerVars, vars

(* A step that grants and extends no lease keeps what the workers believe. *)
LEMMA PlainWorkerInv ==
    ASSUME IInv, PlainStep
    PROVE  WorkerInv'
<1>0. /\ StoreTypes /\ OtherEffect /\ Effect
      /\ lease \in [Workers -> Lease \cup {NoLease}] /\ pc \in [Workers -> Places]
      /\ lost \in [Workers -> BOOLEAN] /\ cancelSeen \in [Workers -> BOOLEAN]
  <2>1. StoreTypes /\ OtherStep
    BY DEF IInv, TypeOK, StoreTypes, PlainStep
  <2> QED
    BY <2>1, StoreStepEffect DEF IInv, TypeOK, Effect
(* Leases that survive the step keep their facts.                          *)
<1>1. ASSUME NEW w \in Workers, lease[w] # NoLease
      PROVE  /\ jobs'[lease[w].job].state # "absent"
             /\ lease[w].attempt <= jobs'[lease[w].job].attempts
             /\ jobs[lease[w].job].cancel => jobs'[lease[w].job].cancel
             /\ ~Live(jobs[lease[w].job], lease[w]) => ~Live(jobs'[lease[w].job], lease[w])
  <2>1. /\ lease[w] \in Lease
        /\ jobs[lease[w].job].state # "absent"
        /\ lease[w].attempt <= jobs[lease[w].job].attempts
    BY <1>0, <1>1 DEF IInv, WorkerInv, WorkersInStep, LeasesFenced
  <2>2. /\ lease[w].job \in Jobs
        /\ lease[w].attempt \in Int
        /\ jobs[lease[w].job].attempts \in Int
        /\ jobs'[lease[w].job].attempts \in Int
    <3>1. lease[w].job \in Jobs /\ lease[w].attempt \in Int
      BY <2>1, JobStoreAssumption DEF Lease
    <3>2. jobs' \in [Jobs -> Row]
      BY <1>0, EffectTypes
    <3>3. jobs[lease[w].job] \in Row /\ jobs'[lease[w].job] \in Row
      BY <1>0, <3>1, <3>2 DEF StoreTypes
    <3> QED
      BY <3>1, <3>3, RowFields
  <2>3. /\ jobs'[lease[w].job].state # "absent"
        /\ jobs'[lease[w].job].attempts >= jobs[lease[w].job].attempts
        /\ jobs[lease[w].job].cancel => jobs'[lease[w].job].cancel
    BY <1>0, <2>1, <2>2, EffectMonotone
  <2>4. lease[w].attempt <= jobs'[lease[w].job].attempts
    BY <2>1, <2>2, <2>3
  <2>5. ~Live(jobs[lease[w].job], lease[w]) => ~Live(jobs'[lease[w].job], lease[w])
    BY <1>0, <2>1, EffectNotRevived
  <2> QED
    BY <2>3, <2>4, <2>5
<1>2. ASSUME NEW w \in Workers, lost[w] PROVE ~Live(jobs[lease[w].job], lease[w])
  BY <1>2, LiveHolds DEF IInv, WorkerInv, FlagsAccurate
(* Every worker keeps its lease and flags, or drops them.                  *)
<1>3. \A w \in Workers :
        \/ lease'[w] = NoLease /\ pc'[w] = "idle" /\ ~lost'[w] /\ ~cancelSeen'[w]
        \/ /\ lease'[w] = lease[w] /\ lost'[w] = lost[w] /\ cancelSeen'[w] = cancelSeen[w]
           /\ \/ pc'[w] = pc[w]
              \/ pc[w] # "idle" /\ pc'[w] # "idle" /\ (lost[w] => pc'[w] \in BeatPlaces)
  BY <1>0 DEF PlainStep, LocalKeeps, Return, Goto
<1>4. WorkersInStep'
  BY <1>0, <1>1, <1>3 DEF IInv, WorkerInv, WorkersInStep
<1>5. LeasesFenced'
  BY <1>0, <1>1, <1>3 DEF IInv, WorkerInv, LeasesFenced
<1>6. ASSUME NEW w \in Workers
      PROVE  /\ lost'[w] => ~Live(jobs'[lease'[w].job], lease'[w])
             /\ cancelSeen'[w] => jobs'[lease'[w].job].cancel
  BY <1>1, <1>2, <1>3 DEF IInv, WorkerInv, FlagsAccurate, WorkersInStep, BeatPlaces
<1>7. FlagsAccurate'
  <2>1. 0 - 0 = 0
    OBVIOUS
  <2> QED
    BY <1>6, <2>1 DEF FlagsAccurate, Holds, Live
<1> QED
  BY <1>4, <1>5, <1>7 DEF WorkerInv

(* Granting a lease: its attempt is new, so every older lease of the job   *)
(* is fenced off by it.                                                    *)
LEMMA ClaimWorkerInv ==
    ASSUME IInv, NEW w \in Workers, ClaimSucceeds(w)
    PROVE  WorkerInv'
<1>1. PICK j \in Jobs, lag \in 0..MaxLag, place \in {"reject", "mark"} :
        /\ Leases(j, Owner[w], lag)
        /\ OtherStep
        /\ lease' = [lease EXCEPT ![w] = [job |-> j, owner |-> Owner[w],
                                         attempt |-> jobs[j].attempts + 1]]
        /\ [job |-> j, owner |-> Owner[w], attempt |-> jobs[j].attempts + 1] \in Lease
        /\ pc' = [pc EXCEPT ![w] = place]
  BY ClaimShape DEF IInv
<1> DEFINE l == [job |-> j, owner |-> Owner[w], attempt |-> jobs[j].attempts + 1]
<1>2. l.job = j /\ l.attempt = jobs[j].attempts + 1 /\ l \in Lease /\ l # NoLease
  BY <1>1, JobQueueAssumption
<1>3. lease' = [lease EXCEPT ![w] = l]
  BY <1>1
<1> HIDE DEF l
<1>4. /\ StoreTypes /\ OtherEffect /\ Effect
      /\ lease \in [Workers -> Lease \cup {NoLease}] /\ pc \in [Workers -> Places]
      /\ UNCHANGED <<lost, cancelSeen>> /\ pc[w] = "idle"
  <2>1. StoreTypes
    BY DEF IInv, TypeOK, StoreTypes
  <2> QED
    BY <1>1, <2>1, StoreStepEffect DEF IInv, TypeOK, Effect, ClaimSucceeds
<1>5. lease[w] = NoLease /\ ~lost[w] /\ ~cancelSeen[w]
  BY <1>4 DEF IInv, WorkerInv, WorkersInStep, BeatPlaces
<1>6. /\ jobs'[j].attempts = jobs[j].attempts + 1 /\ jobs[j].attempts \in Nat
      /\ jobs'[j].state = "leased"
      /\ \A k \in Jobs : k # j => jobs'[k] = jobs[k]
  <2>1. /\ jobs[j] \in Row /\ jobs[j].attempts < jobs[j].max_attempts
        /\ jobs' = [jobs EXCEPT ![j] = LeaseTo(jobs[j], Owner[w], lag)]
    BY <1>1, <1>4 DEF Leases, StoreTypes
  <2>2. Owner[w] \in Owners
    BY JobQueueAssumption
  <2> QED
    BY <1>4, <2>1, <2>2, LeaseToRow, RowFields DEF StoreTypes
<1>7. ASSUME NEW v \in Workers, lease[v] # NoLease
      PROVE  /\ lease[v] \in Lease /\ lease[v].job \in Jobs
             /\ jobs'[lease[v].job].state # "absent"
             /\ lease[v].attempt <= jobs[lease[v].job].attempts
             /\ lease[v].attempt \in Nat /\ jobs[lease[v].job].attempts \in Nat
             /\ jobs[lease[v].job].cancel => jobs'[lease[v].job].cancel
             /\ ~Live(jobs[lease[v].job], lease[v]) => ~Live(jobs'[lease[v].job], lease[v])
  <2>1. /\ lease[v] \in Lease
        /\ jobs[lease[v].job].state # "absent"
        /\ lease[v].attempt <= jobs[lease[v].job].attempts
    BY <1>4, <1>7 DEF IInv, WorkerInv, WorkersInStep, LeasesFenced
  <2>2. lease[v].job \in Jobs /\ lease[v].attempt \in Nat
    BY <2>1, JobStoreAssumption DEF Lease
  <2> QED
    BY <1>4, <2>1, <2>2, TableFields, EffectMonotone, EffectNotRevived
<1>8. WorkersInStep'
  <2>1. place # "idle" /\ jobs'[l.job].state # "absent"
    BY <1>2, <1>6
  <2> QED
    BY <1>1, <1>2, <1>3, <1>4, <1>5, <1>7, <2>1 DEF IInv, WorkerInv, WorkersInStep
<1>9. ASSUME NEW v \in Workers, lease'[v] # NoLease
      PROVE  lease'[v].attempt <= jobs'[lease'[v].job].attempts
  <2>1. CASE v = w
    BY <1>2, <1>3, <1>4, <1>6, <2>1
  <2>2. CASE v # w /\ lease[v].job = j
    BY <1>3, <1>4, <1>6, <1>7, <1>9, <2>2
  <2>3. CASE v # w /\ lease[v].job # j
    BY <1>3, <1>4, <1>6, <1>7, <1>9, <2>3
  <2> QED
    BY <2>1, <2>2, <2>3
<1>10. ASSUME NEW u \in Workers, NEW v \in Workers, u # v,
              lease'[u] # NoLease, lease'[v] # NoLease, lease'[u].job = lease'[v].job
       PROVE  lease'[u].attempt # lease'[v].attempt
  <2>1. CASE u # w /\ v # w
    BY <1>3, <1>4, <1>10, <2>1 DEF IInv, WorkerInv, LeasesFenced
  <2>2. CASE u = w
    BY <1>2, <1>3, <1>4, <1>6, <1>7, <1>10, <2>2
  <2>3. CASE v = w
    BY <1>2, <1>3, <1>4, <1>6, <1>7, <1>10, <2>3
  <2> QED
    BY <2>1, <2>2, <2>3
<1>11. LeasesFenced'
  BY <1>9, <1>10 DEF LeasesFenced
<1>12. ASSUME NEW v \in Workers
       PROVE  /\ lost'[v] => ~Live(jobs'[lease'[v].job], lease'[v])
              /\ cancelSeen'[v] => jobs'[lease'[v].job].cancel
  <2>1. CASE v = w
    BY <1>4, <1>5, <2>1
  <2>2. CASE v # w /\ (lost[v] \/ cancelSeen[v])
    <3>1. lease[v] # NoLease /\ lease'[v] = lease[v]
      BY <1>3, <1>4, <2>2 DEF IInv, WorkerInv, WorkersInStep, BeatPlaces
    <3>2. lost[v] => ~Live(jobs[lease[v].job], lease[v])
      BY LiveHolds DEF IInv, WorkerInv, FlagsAccurate
    <3>3. cancelSeen[v] => jobs[lease[v].job].cancel
      BY DEF IInv, WorkerInv, FlagsAccurate
    <3> QED
      BY <1>4, <1>7, <3>1, <3>2, <3>3
  <2> QED
    BY <1>4, <2>1, <2>2
<1>13. FlagsAccurate'
  <2>1. 0 - 0 = 0
    OBVIOUS
  <2> QED
    BY <1>12, <2>1 DEF FlagsAccurate, Holds, Live
<1> QED
  BY <1>8, <1>11, <1>13 DEF WorkerInv

(* Extending a lease touches no other worker's: theirs are other attempts. *)
LEMMA ExtendWorkerInv ==
    ASSUME IInv, NEW w \in Workers, ExtendStep(w)
    PROVE  WorkerInv'
<1>1. PICK lag \in 0..MaxLag, s \in LeaseStates :
        Holds(lease[w], lag) /\ Extend(lease[w], lag, s)
  BY DEF ExtendStep
<1>2. /\ lease[w] \in Lease /\ lease[w] # NoLease /\ lease[w].job \in Jobs
      /\ lease' = lease /\ lost' = lost /\ ~lost[w] /\ pc[w] # "idle"
      /\ jobs \in [Jobs -> Row]
      /\ pc \in [Workers -> Places] /\ cancelSeen \in [Workers -> BOOLEAN]
      /\ lease \in [Workers -> Lease \cup {NoLease}]
  BY JobQueueAssumption DEF ExtendStep, IInv, TypeOK, Lease
<1>3. /\ jobs[lease[w].job].attempts = lease[w].attempt
      /\ jobs'[lease[w].job] = ExtendTo(jobs[lease[w].job], s, lag)
      /\ \A k \in Jobs : k # lease[w].job => jobs'[k] = jobs[k]
  BY <1>1, <1>2 DEF Holds, Extend
<1>4. /\ jobs'[lease[w].job].state = s
      /\ jobs'[lease[w].job].attempts = jobs[lease[w].job].attempts
      /\ jobs'[lease[w].job].cancel = jobs[lease[w].job].cancel
  BY <1>2, <1>3, ExtendToRow
<1>5. \A k \in Jobs : /\ jobs'[k].attempts = jobs[k].attempts
                      /\ jobs'[k].cancel = jobs[k].cancel
                      /\ jobs[k].state # "absent" => jobs'[k].state # "absent"
  BY <1>3, <1>4 DEF LeaseStates
<1>6. \A v \in Workers : lease[v] # NoLease => lease[v].job \in Jobs
  BY <1>2 DEF Lease
<1>k. ASSUME NEW v \in Workers, lease[v] # NoLease
      PROVE  /\ jobs'[lease[v].job].attempts = jobs[lease[v].job].attempts
             /\ jobs'[lease[v].job].cancel = jobs[lease[v].job].cancel
             /\ jobs[lease[v].job].state # "absent" => jobs'[lease[v].job].state # "absent"
  <2>1. lease[v].job \in Jobs
    BY <1>6, <1>k
  <2> QED
    BY <1>5, <2>1, Zenon
<1>p. PICK place \in Places \ {"idle"} : pc' = [pc EXCEPT ![w] = place]
  BY DEF ExtendStep
<1>c. ASSUME NEW v \in Workers, cancelSeen'[v]
      PROVE  \/ cancelSeen[v]
             \/ v = w /\ jobs[lease[w].job].cancel
  <2>1. CASE cancelSeen' = cancelSeen
    BY <1>c, <2>1
  <2>2. CASE cancelSeen' = [cancelSeen EXCEPT ![w] =
                              cancelSeen[w] \/ jobs[lease[w].job].cancel]
    <3>1. CASE v = w
      BY <1>2, <1>c, <2>2, <3>1, Zenon
    <3>2. CASE v # w
      BY <1>2, <1>c, <2>2, <3>2, Zenon
    <3> QED
      BY <3>1, <3>2
  <2> QED
    BY <2>1, <2>2 DEF ExtendStep
<1>7. WorkersInStep'
  <2> SUFFICES ASSUME NEW v \in Workers
               PROVE  /\ (pc'[v] = "idle") = (lease[v] = NoLease)
                      /\ lease[v] # NoLease => jobs'[lease[v].job].state # "absent"
                      /\ lost[v] => pc'[v] \in BeatPlaces
                      /\ cancelSeen'[v] => pc'[v] # "idle"
    BY <1>2, Zenon DEF WorkersInStep
  <2>1. /\ (pc[v] = "idle") = (lease[v] = NoLease)
        /\ lease[v] # NoLease => jobs[lease[v].job].state # "absent"
        /\ lost[v] => pc[v] \in BeatPlaces
        /\ cancelSeen[v] => pc[v] # "idle"
    BY DEF IInv, WorkerInv, WorkersInStep
  <2>2. lease[v] # NoLease => jobs'[lease[v].job].state # "absent"
    BY <1>k, <2>1
  <2>3. CASE v = w
    <3>1. pc'[v] # "idle"
      BY <1>2, <1>p, <2>3
    <3> QED
      BY <1>2, <2>2, <2>3, <3>1
  <2>4. CASE v # w
    <3>1. pc'[v] = pc[v]
      BY <1>2, <1>p, <2>4
    <3>2. cancelSeen'[v] => cancelSeen[v]
      BY <1>c, <2>4
    <3> QED
      BY <2>1, <2>2, <3>1, <3>2
  <2> QED
    BY <2>3, <2>4
<1>8. LeasesFenced'
  <2> SUFFICES ASSUME NEW u \in Workers, NEW v \in Workers
               PROVE  /\ lease[v] # NoLease =>
                           lease[v].attempt <= jobs'[lease[v].job].attempts
                      /\ u # v /\ lease[u] # NoLease /\ lease[v] # NoLease
                            /\ lease[u].job = lease[v].job
                           => lease[u].attempt # lease[v].attempt
    BY <1>2, Zenon DEF LeasesFenced
  <2>1. /\ lease[v] # NoLease => lease[v].attempt <= jobs[lease[v].job].attempts
        /\ u # v /\ lease[u] # NoLease /\ lease[v] # NoLease
              /\ lease[u].job = lease[v].job
             => lease[u].attempt # lease[v].attempt
    BY DEF IInv, WorkerInv, LeasesFenced
  <2> QED
    BY <1>k, <2>1
<1>9. ASSUME NEW v \in Workers
      PROVE  /\ lost[v] => ~Live(jobs'[lease[v].job], lease[v])
             /\ cancelSeen'[v] => jobs'[lease[v].job].cancel
  <2>1. ASSUME lost[v] PROVE ~Live(jobs'[lease[v].job], lease[v])
    <3>1. lease[v] # NoLease /\ v # w /\ ~Live(jobs[lease[v].job], lease[v])
      BY <1>2, <2>1, LiveHolds
         DEF IInv, WorkerInv, WorkersInStep, FlagsAccurate, BeatPlaces
    <3>2. CASE lease[v].job = lease[w].job
      <4>1. lease[v].attempt # lease[w].attempt
        BY <1>2, <3>1, <3>2 DEF IInv, WorkerInv, LeasesFenced
      <4> QED
        BY <1>3, <1>4, <3>2, <4>1 DEF Live
    <3>3. CASE lease[v].job # lease[w].job
      BY <1>3, <1>6, <3>1, <3>3
    <3> QED
      BY <3>2, <3>3
  <2>2. ASSUME cancelSeen'[v] PROVE jobs'[lease[v].job].cancel
    <3>1. cancelSeen[v] => lease[v] # NoLease /\ jobs[lease[v].job].cancel
      BY DEF IInv, WorkerInv, WorkersInStep, FlagsAccurate
    <3>2. \/ cancelSeen[v]
          \/ v = w /\ jobs[lease[w].job].cancel
      BY <1>c, <2>2
    <3> QED
      BY <1>2, <1>4, <1>k, <3>1, <3>2
  <2> QED
    BY <2>1, <2>2
<1>10. FlagsAccurate'
  <2>1. 0 - 0 = 0
    OBVIOUS
  <2> QED
    BY <1>2, <1>9, <2>1 DEF FlagsAccurate, Holds, Live
<1> QED
  BY <1>7, <1>8, <1>10 DEF WorkerInv

(* A heartbeat that reports "lost" is right, even with a stale now(): a    *)
(* lease that had expired by then has expired.                             *)
LEMMA LoseWorkerInv ==
    ASSUME IInv, NEW w \in Workers, LoseStep(w)
    PROVE  WorkerInv'
<1>1. PICK lag \in 0..MaxLag : ~Holds(lease[w], lag)
  BY DEF LoseStep
<1>2. lease[w] \in Lease /\ lost \in [Workers -> BOOLEAN]
  BY DEF IInv, TypeOK, WorkerInv, WorkersInStep, LoseStep, BeatPlaces
<1>3. ~Holds(lease[w], 0)
  <2>1. jobs[lease[w].job].expires \in Int
    BY <1>2, RowFields DEF IInv, TypeOK, Lease
  <2>2. lag \in Int /\ lag >= 0
    BY JobStoreAssumption
  <2>3. jobs[lease[w].job].expires > 0 - 0 => jobs[lease[w].job].expires > 0 - lag
    BY <2>1, <2>2
  <2> QED
    BY <1>1, <2>3 DEF Holds
<1>4. jobs' = jobs
  BY DEF LoseStep, storeVars
<1>5. WorkersInStep' /\ LeasesFenced'
  BY <1>2, <1>4 DEF IInv, WorkerInv, WorkersInStep, LeasesFenced, LoseStep
<1>6. FlagsAccurate'
  BY <1>2, <1>3, <1>4 DEF IInv, WorkerInv, FlagsAccurate, Holds, LoseStep
<1> QED
  BY <1>5, <1>6 DEF WorkerInv

(* Every step of the queue is at most one transaction on the table.        *)
LEMMA StepEffect ==
    ASSUME IInv, [Next]_vars
    PROVE  StoreTypes /\ StoreStep /\ Effect
<1>1. TypeOK /\ WorkersInStep /\ StoreTypes
  BY DEF IInv, WorkerInv, TypeOK, StoreTypes
<1>2. CASE PlainStep
  BY <1>1, <1>2, StoreStepEffect DEF PlainStep, StoreStep
<1>3. ASSUME NEW w \in Workers, ClaimSucceeds(w) PROVE StoreStep
  BY <1>1, <1>3, ClaimShape DEF StoreStep
<1>4. ASSUME NEW w \in Workers, ExtendStep(w) PROVE StoreStep
  BY <1>4 DEF ExtendStep, StoreStep, TxExtend
<1>5. ASSUME NEW w \in Workers, LoseStep(w) PROVE StoreStep
  BY <1>5 DEF LoseStep, StoreStep, OtherStep
<1>6. StoreStep
  BY <1>1, <1>2, <1>3, <1>4, <1>5, StepShapes DEF PlainStep, StoreStep
<1> QED
  BY <1>1, <1>6, StoreStepEffect

(* The invariant is inductive.                                             *)
LEMMA IInvInductive ==
    ASSUME IInv, [Next]_vars
    PROVE  IInv'
<1>1. TypeOK /\ WorkersInStep /\ StoreTypes
  BY DEF IInv, WorkerInv, TypeOK, StoreTypes
<1>2. StoreStep
  BY StepEffect
<1>3. Effect
  BY StepEffect
<1>4. recorded' \in Nat
  BY <1>1, <1>2 DEF StoreTypes, StoreStep, OtherStep, TxEnqueue, EnqueueJob, TxCancel,
     CancelJob, RecordAnalysis, TxClaimSettles, ClaimCancelled, ClaimExhausted,
     TxClaimLease, ClaimLease, TxPublish, Publish, TxRefuse, RefuseFull, TxFail, Fail,
     TxAcknowledge, Acknowledge, PassTime, TxExtend, Extend, storeVars
<1>5. TypeOK'
  BY <1>1, <1>3, <1>4, EffectTypes, WorkerTypes, AgeTypes DEF TypeOK
<1>6. StoreInv'
  BY <1>1, <1>3, EffectStoreInv DEF IInv
<1>7. WorkerInv'
  BY <1>1, StepShapes, PlainWorkerInv, ClaimWorkerInv, ExtendWorkerInv, LoseWorkerInv
<1> QED
  BY <1>5, <1>6, <1>7 DEF IInv

(* The invariant holds initially.                                          *)
LEMMA IInvInit == Init => IInv
<1> SUFFICES ASSUME Init PROVE IInv
  OBVIOUS
<1>1. Absent \in Row
  <2>1. 0 \in (0 - MaxLag)..LeaseSeconds /\ 0 \in 0..MaxAttempts /\ 1 \in 1..MaxAttempts
    BY JobStoreAssumption
  <2> QED
    BY <2>1 DEF Absent, Row, JobStates
<1>2. TypeOK
  <2>1. 0 \in 0..MaxLag
    BY JobStoreAssumption
  <2> QED
    BY <1>1, <2>1 DEF Init, StoreInit, TypeOK, Places
<1>3. StoreInv
  BY DEF Init, StoreInit, StoreInv, RowsWellFormed, PublishedOnce, CancelWins, Absent,
         LeaseStates
<1>4. WorkerInv
  BY DEF Init, WorkerInv, WorkersInStep, LeasesFenced, FlagsAccurate
<1> QED
  BY <1>2, <1>3, <1>4 DEF IInv

-----------------------------------------------------------------------------
(* The results.                                                            *)

(* In every behaviour of the queue the tables and the workers' variables   *)
(* keep their types and the inductive invariant holds.                     *)
THEOREM QueueInvariant == Spec => []IInv
<1>1. IInv /\ [Next]_vars => IInv'
  BY IInvInductive
<1> QED
  BY <1>1, IInvInit, PTL DEF Spec

(* Type correctness of the queue.                                          *)
THEOREM TypeCorrect == Spec => []TypeOK
<1>1. IInv => TypeOK
  BY DEF IInv
<1> QED
  BY <1>1, QueueInvariant, PTL

(* The table's CHECK constraints never fire: every transaction of          *)
(* storage.py leaves rows that satisfy them.                               *)
THEOREM ConstraintsHold == Spec => []RowsWellFormed
<1>1. IInv => RowsWellFormed
  BY DEF IInv, StoreInv
<1> QED
  BY <1>1, QueueInvariant, PTL

(* Fencing by attempt number, also of workers with one owner name.         *)
THEOREM Fencing == Spec => []LeasesFenced
<1>1. IInv => LeasesFenced
  BY DEF IInv, WorkerInv
<1> QED
  BY <1>1, QueueInvariant, PTL

(* A job has a result exactly when it succeeded, one, of its last attempt. *)
THEOREM Publication == Spec => []PublishedOnce
<1>1. IInv => PublishedOnce
  BY DEF IInv, StoreInv
<1> QED
  BY <1>1, QueueInvariant, PTL

(* A job whose cancellation was accepted neither succeeds nor fails.       *)
THEOREM Cancellation == Spec => []CancelWins
<1>1. IInv => CancelWins
  BY DEF IInv, StoreInv
<1> QED
  BY <1>1, QueueInvariant, PTL

(* The flags a heartbeat thread sets are still true when they are read.    *)
THEOREM HeartbeatFlags == Spec => []FlagsAccurate
<1>1. IInv => FlagsAccurate
  BY DEF IInv, WorkerInv
<1> QED
  BY <1>1, QueueInvariant, PTL

(* No transaction touches a settled row.                                   *)
LEMMA EffectSettled ==
    ASSUME StoreTypes, Effect, NEW k \in Jobs, jobs[k].state \in Terminal
    PROVE  jobs'[k] = jobs[k]
<1>0. /\ \A j \in Jobs : jobs[j] \in Row
      /\ jobs[k].state \notin {"absent", "queued"} \cup LeaseStates
  BY TableFields DEF Terminal, LeaseStates
<1>1. ASSUME NEW j \in Jobs, NEW m \in 1..MaxAttempts, Adds(j, m) PROVE jobs'[k] = jobs[k]
  BY <1>0, <1>1 DEF Adds, StoreTypes
<1>2. ASSUME NEW j \in Jobs, Flags(j) PROVE jobs'[k] = jobs[k]
  BY <1>0, <1>2 DEF Flags, StoreTypes
<1>3. ASSUME NEW j \in Jobs, NEW s \in JobStates, Releases(j, s) PROVE jobs'[k] = jobs[k]
  BY <1>0, <1>3 DEF Releases, StoreTypes
<1>4. ASSUME NEW j \in Jobs, NEW o \in Owners, NEW lag \in 0..MaxLag, Leases(j, o, lag)
      PROVE  jobs'[k] = jobs[k]
  BY <1>0, <1>4 DEF Leases, StoreTypes
<1>5. ASSUME NEW l \in Lease, NEW s \in LeaseStates, NEW lag \in 0..MaxLag,
             Extends(l, s, lag)
      PROVE  jobs'[k] = jobs[k]
  <2>1. l.job \in Jobs
    BY DEF Lease
  <2> QED
    BY <1>0, <1>5, <2>1 DEF Extends, StoreTypes
<1>6. CASE Ages
  BY <1>0, <1>6, LaterRow DEF Ages
<1>7. CASE Keeps
  BY <1>7 DEF Keeps
<1> QED
  BY <1>1, <1>2, <1>3, <1>4, <1>5, <1>6, <1>7 DEF Effect, OtherEffect

(* A decided job's row never changes again.                                *)
THEOREM Settlement == Spec => SettledForever
<1>1. IInv /\ [Next]_vars =>
        [\A j \in Jobs : jobs[j].state \in Terminal => jobs'[j] = jobs[j]]_vars
  BY StepEffect, EffectSettled
<1> QED
  BY <1>1, QueueInvariant, PTL DEF Spec, SettledForever

(* A transaction that changes a leased row's attempt found it expired.     *)
LEMMA EffectNotStolen ==
    ASSUME StoreTypes, Effect, NEW k \in Jobs, jobs[k].state \in LeaseStates,
           jobs'[k].attempts # jobs[k].attempts
    PROVE  jobs[k].expires <= 0
<1>0. \A j \in Jobs : jobs[j] \in Row
  BY TableFields
<1> USE DEF StoreTypes
<1>1. ASSUME NEW j \in Jobs, NEW m \in 1..MaxAttempts, Adds(j, m) PROVE jobs[k].expires <= 0
  BY <1>0, <1>1 DEF Adds, LeaseStates
<1>2. ASSUME NEW j \in Jobs, Flags(j) PROVE jobs[k].expires <= 0
  BY <1>0, <1>2, CancelRowRow DEF Flags
<1>3. ASSUME NEW j \in Jobs, NEW s \in JobStates, Releases(j, s) PROVE jobs[k].expires <= 0
  BY <1>0, <1>3, ReleaseRow DEF Releases
<1>4. ASSUME NEW j \in Jobs, NEW o \in Owners, NEW lag \in 0..MaxLag, Leases(j, o, lag)
      PROVE  jobs[k].expires <= 0
  BY <1>0, <1>4 DEF Leases, LeaseStates
<1>5. ASSUME NEW l \in Lease, NEW s \in LeaseStates, NEW lag \in 0..MaxLag,
             Extends(l, s, lag)
      PROVE  jobs[k].expires <= 0
  <2>1. l.job \in Jobs
    BY DEF Lease
  <2> QED
    BY <1>0, <1>5, <2>1, ExtendToRow DEF Extends
<1>6. CASE Ages
  BY <1>0, <1>6, LaterRow DEF Ages
<1>7. CASE Keeps
  BY <1>7 DEF Keeps
<1> QED
  BY <1>1, <1>2, <1>3, <1>4, <1>5, <1>6, <1>7 DEF Effect, OtherEffect

(* However stale a claiming transaction's now() is, no lease is taken      *)
(* over before it expired.                                                 *)
THEOREM Exclusion == Spec => NoLeaseStolen
<1>1. IInv /\ [Next]_vars =>
        [\A j \in Jobs :
            /\ jobs[j].state \in LeaseStates
            /\ jobs'[j].state \in LeaseStates
            /\ jobs'[j].attempts # jobs[j].attempts
            => jobs[j].expires <= 0]_vars
  BY StepEffect, EffectNotStolen
<1> QED
  BY <1>1, QueueInvariant, PTL DEF Spec, NoLeaseStolen

(* Whoever adds a result, a worker or a synchronous analysis, checked the  *)
(* cap against the results of both.                                        *)
THEOREM ResultCap == Spec => []ResultsBounded
<1> DEFINE Capped == IsFiniteSet(results) /\ ResultsBounded
<1>1. Init => Capped
  BY JobStoreAssumption, FS_EmptySet DEF Init, StoreInit, ResultsBounded, ResultCount
<1>2. ASSUME IInv, Capped, [Next]_vars PROVE Capped'
  <2>0. /\ StoreStep /\ recorded \in Nat /\ Cardinality(results) \in Nat
        /\ IsFiniteSet(results) /\ MaxResults \in Nat
    BY <1>2, StepEffect, FS_CardinalityType, JobStoreAssumption DEF StoreTypes
  <2>1. CASE TxPublish
    <3>1. PICK l \in Lease : Publish(l)
      BY <2>1 DEF TxPublish
    <3>2. /\ results' = results \cup {[job |-> l.job, attempt |-> l.attempt]}
          /\ recorded' = recorded
          /\ Cardinality(results) + recorded < MaxResults
      BY <3>1 DEF Publish, ResultCount
    <3>3. /\ IsFiniteSet(results')
          /\ \/ Cardinality(results') = Cardinality(results)
             \/ Cardinality(results') = Cardinality(results) + 1
      BY <2>0, <3>2, FS_AddElement
    <3> QED
      BY <2>0, <3>2, <3>3 DEF ResultsBounded, ResultCount
  <2>2. CASE RecordAnalysis
    BY <2>0, <2>2 DEF RecordAnalysis, ResultsBounded, ResultCount
  <2>3. CASE results' = results /\ recorded' = recorded
    BY <1>2, <2>3 DEF ResultsBounded, ResultCount
  <2> QED
    BY <2>0, <2>1, <2>2, <2>3 DEF StoreStep, OtherStep, TxEnqueue, EnqueueJob, TxCancel,
       CancelJob, TxClaimSettles, ClaimCancelled, ClaimExhausted, TxClaimLease, ClaimLease,
       TxRefuse, RefuseFull, TxFail, Fail, TxAcknowledge, Acknowledge, PassTime,
       TxExtend, Extend, storeVars
<1>3. Capped => ResultsBounded
  OBVIOUS
<1> QED
  BY <1>1, <1>2, <1>3, QueueInvariant, PTL DEF Spec

-----------------------------------------------------------------------------
(* The refinement of JobLifecycle.                                         *)

(* What a client sees of a row.                                            *)
Status(row) ==
    IF row.state \in {"queued"} \cup LeaseStates THEN "active" ELSE row.state

(* A step that changes the visible state of one job at most, seen through  *)
(* the refinement mapping.                                                 *)
LEMMA MappedStep ==
    ASSUME StoreTypes, jobs' \in [Jobs -> Row],
           NEW j \in Jobs, \A k \in Jobs : k # j => jobs'[k] = jobs[k]
    PROVE  /\ [k \in Jobs |-> Status(jobs'[k])] =
                [[k \in Jobs |-> Status(jobs[k])] EXCEPT ![j] = Status(jobs'[j])]
           /\ jobs'[j].cancel = jobs[j].cancel =>
                {k \in Jobs : jobs'[k].cancel} = {k \in Jobs : jobs[k].cancel}
           /\ jobs'[j].cancel =>
                {k \in Jobs : jobs'[k].cancel} = {k \in Jobs : jobs[k].cancel} \cup {j}
<1>1. [k \in Jobs |-> Status(jobs'[k])] =
        [[k \in Jobs |-> Status(jobs[k])] EXCEPT ![j] = Status(jobs'[j])]
  OBVIOUS
<1>2. ASSUME jobs'[j].cancel = jobs[j].cancel
      PROVE  {k \in Jobs : jobs'[k].cancel} = {k \in Jobs : jobs[k].cancel}
  BY <1>2
<1>3. ASSUME jobs'[j].cancel
      PROVE  {k \in Jobs : jobs'[k].cancel} = {k \in Jobs : jobs[k].cancel} \cup {j}
  BY <1>3
<1> QED
  BY <1>1, <1>2, <1>3

(* Every transaction is a step of JobLifecycle or invisible to it.         *)
LEMMA EffectRefines ==
    ASSUME StoreTypes, StoreInv, Effect
    PROVE  Lifecycle!Next \/ UNCHANGED Lifecycle!lifecycleVars
<1> DEFINE status == [k \in Jobs |-> Status(jobs[k])]
           cancelling == {k \in Jobs : jobs[k].cancel}
           published == {r.job : r \in results}
           Goal == Lifecycle!Next \/ UNCHANGED Lifecycle!lifecycleVars
<1>0. /\ \A j \in Jobs : jobs[j] \in Row /\ jobs[j].cancel \in BOOLEAN
      /\ jobs' \in [Jobs -> Row]
      /\ \A j \in Jobs : jobs'[j] \in Row /\ jobs'[j].cancel \in BOOLEAN
      /\ jobs \in [Jobs -> Row]
  <2>1. jobs' \in [Jobs -> Row]
    BY EffectTypes
  <2> QED
    BY <2>1, TableFields, RowFields DEF StoreTypes
<1>1. ASSUME NEW j \in Jobs, NEW m \in 1..MaxAttempts, Adds(j, m) PROVE Goal
  <2>1. /\ \A k \in Jobs : k # j => jobs'[k] = jobs[k]
        /\ jobs'[j] = QueuedRow(m) /\ Status(jobs[j]) = "absent" /\ results' = results
    BY <1>0, <1>1 DEF Adds, Status, LeaseStates
  <2>2. Status(jobs'[j]) = "active" /\ jobs'[j].cancel = FALSE
    BY <2>1, QueuedRowRow DEF Status
  <2>3. jobs[j].cancel = FALSE
    BY <1>0, <1>1 DEF StoreInv, CancelWins, Adds, LeaseStates
  <2>4. /\ [k \in Jobs |-> Status(jobs'[k])] = [status EXCEPT ![j] = "active"]
        /\ {k \in Jobs : jobs'[k].cancel} = cancelling
    BY <1>0, <2>1, <2>2, <2>3, MappedStep
  <2>5. Lifecycle!Submit(j)
    BY <2>1, <2>4 DEF Lifecycle!Submit, Status
  <2> QED
    BY <2>5 DEF Lifecycle!Next
<1>2. ASSUME NEW j \in Jobs, Flags(j) PROVE Goal
  <2>1. /\ \A k \in Jobs : k # j => jobs'[k] = jobs[k]
        /\ jobs'[j] = CancelRow(jobs[j]) /\ Status(jobs[j]) = "active" /\ results' = results
    BY <1>0, <1>2 DEF Flags, Status
  <2>2. jobs'[j].cancel /\ Status(jobs'[j]) \in {"active", "cancelled"}
    <3>1. /\ jobs'[j].cancel = TRUE
          /\ jobs'[j].state = IF jobs[j].state = "queued" THEN "cancelled" ELSE jobs[j].state
          /\ jobs[j].state \in {"queued"} \cup LeaseStates
      BY <1>0, <1>2, <2>1, CancelRowRow DEF Flags
    <3> QED
      BY <3>1 DEF Status, LeaseStates
  <2>3. /\ [k \in Jobs |-> Status(jobs'[k])] = [status EXCEPT ![j] = Status(jobs'[j])]
        /\ {k \in Jobs : jobs'[k].cancel} = cancelling \cup {j}
    BY <1>0, <2>1, <2>2, MappedStep
  <2>4. [status EXCEPT ![j] = Status(jobs'[j])]
           \in {status, [status EXCEPT ![j] = "cancelled"]}
    BY <2>1, <2>2
  <2>5. Lifecycle!RequestCancel(j)
    BY <2>1, <2>3, <2>4 DEF Lifecycle!RequestCancel, Status
  <2> QED
    BY <2>5 DEF Lifecycle!Next
<1>3. ASSUME NEW j \in Jobs, NEW s \in JobStates, Releases(j, s) PROVE Goal
  <2>1. /\ \A k \in Jobs : k # j => jobs'[k] = jobs[k]
        /\ jobs'[j].cancel = jobs[j].cancel /\ jobs'[j].state = s
        /\ Status(jobs[j]) = "active"
        /\ s = "cancelled" <=> jobs[j].cancel
    BY <1>0, <1>3, ReleaseRow DEF Releases, Status
  <2>2. /\ [k \in Jobs |-> Status(jobs'[k])] = [status EXCEPT ![j] = Status(jobs'[j])]
        /\ {k \in Jobs : jobs'[k].cancel} = cancelling
    BY <1>0, <2>1, MappedStep
  <2>3. CASE s = "queued"
    <3>1. Status(jobs'[j]) = "active" /\ results' = results
      BY <1>3, <2>1, <2>3 DEF Status, Releases
    <3>2. [k \in Jobs |-> Status(jobs'[k])] = status
      BY <2>1, <2>2, <3>1
    <3> QED
      BY <2>2, <3>1, <3>2 DEF Lifecycle!lifecycleVars, Status
  <2>4. CASE s = "succeeded"
    <3>1. Status(jobs'[j]) = "succeeded" /\ j \notin cancelling
      BY <2>1, <2>4 DEF Status, LeaseStates
    <3>2. results' = results \cup {[job |-> j, attempt |-> jobs[j].attempts]}
      BY <1>3, <2>4 DEF Releases
    <3>3. {r.job : r \in results'} = published \cup {j}
      <4> DEFINE new == [job |-> j, attempt |-> jobs[j].attempts]
      <4>1. results' = results \cup {new} /\ new.job = j
        BY <3>2
      <4> HIDE DEF new
      <4> QED
        BY <4>1
    <3>4. Lifecycle!Succeed(j)
      BY <2>1, <2>2, <3>1, <3>3 DEF Lifecycle!Succeed, Status
    <3> QED
      BY <3>4 DEF Lifecycle!Next, Lifecycle!Decide
  <2>5. CASE s = "failed"
    <3>1. Status(jobs'[j]) = "failed" /\ j \notin cancelling /\ results' = results
      BY <1>3, <2>1, <2>5 DEF Status, LeaseStates, Releases
    <3>2. Lifecycle!GiveUp(j)
      BY <2>1, <2>2, <3>1 DEF Lifecycle!GiveUp, Status
    <3> QED
      BY <3>2 DEF Lifecycle!Next, Lifecycle!Decide
  <2>6. CASE s = "cancelled"
    <3>1. Status(jobs'[j]) = "cancelled" /\ j \in cancelling /\ results' = results
      BY <1>3, <2>1, <2>6 DEF Status, LeaseStates, Releases
    <3>2. Lifecycle!GrantCancel(j)
      BY <2>1, <2>2, <3>1 DEF Lifecycle!GrantCancel, Status
    <3> QED
      BY <3>2 DEF Lifecycle!Next, Lifecycle!Decide
  <2> QED
    BY <1>3, <2>3, <2>4, <2>5, <2>6 DEF Releases
<1>4. ASSUME \A k \in Jobs : Status(jobs'[k]) = Status(jobs[k]) /\ jobs'[k].cancel = jobs[k].cancel,
             results' = results
      PROVE  Goal
  <2>1. /\ [k \in Jobs |-> Status(jobs'[k])] = status
        /\ {k \in Jobs : jobs'[k].cancel} = cancelling
    BY <1>4
  <2> QED
    BY <1>4, <2>1 DEF Lifecycle!lifecycleVars, Status
<1>5. ASSUME NEW j \in Jobs, NEW o \in Owners, NEW lag \in 0..MaxLag, Leases(j, o, lag)
      PROVE  Goal
  <2>1. /\ \A k \in Jobs : k # j => jobs'[k] = jobs[k]
        /\ jobs'[j].cancel = jobs[j].cancel /\ jobs'[j].state = "leased"
        /\ Status(jobs[j]) = "active" /\ results' = results
    BY <1>0, <1>5, LeaseToRow DEF Leases, Status
  <2>2. Status(jobs'[j]) = "active"
    BY <2>1 DEF Status, LeaseStates
  <2> QED
    BY <1>4, <2>1, <2>2
<1>6. ASSUME NEW l \in Lease, NEW s \in LeaseStates, NEW lag \in 0..MaxLag,
             Extends(l, s, lag)
      PROVE  Goal
  <2>0. l.job \in Jobs
    BY DEF Lease
  <2>1. /\ \A k \in Jobs : k # l.job => jobs'[k] = jobs[k]
        /\ jobs'[l.job].cancel = jobs[l.job].cancel /\ jobs'[l.job].state = s
        /\ Status(jobs[l.job]) = "active" /\ results' = results
    BY <1>0, <1>6, <2>0, ExtendToRow DEF Extends, Status
  <2>2. Status(jobs'[l.job]) = "active"
    BY <2>1 DEF Status
  <2> QED
    BY <1>4, <2>0, <2>1, <2>2
<1>7. CASE Ages
  <2>1. \A k \in Jobs : Status(jobs'[k]) = Status(jobs[k]) /\ jobs'[k].cancel = jobs[k].cancel
    BY <1>0, <1>7, LaterRow DEF Ages, Status
  <2> QED
    BY <1>4, <1>7, <2>1 DEF Ages
<1>8. CASE Keeps
  BY <1>4, <1>8 DEF Keeps
<1> QED
  BY <1>1, <1>2, <1>3, <1>5, <1>6, <1>7, <1>8 DEF Effect, OtherEffect

(* The queue implements JobLifecycle: for every number of jobs and         *)
(* workers, whatever crashes, a client sees each job decided once.         *)
THEOREM Refinement == Spec => ImplementsLifecycle
<1>1. Init => Lifecycle!Init
  BY DEF Init, StoreInit, Absent, LeaseStates, Lifecycle!Init
<1>2. IInv /\ [Next]_vars => [Lifecycle!Next]_(Lifecycle!lifecycleVars)
  BY StepEffect, EffectRefines DEF IInv
<1> QED
  BY <1>1, <1>2, QueueInvariant, PTL DEF Spec, ImplementsLifecycle, Lifecycle!Spec
=============================================================================
