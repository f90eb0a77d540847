---------------------------- MODULE JobLifecycle ----------------------------
(***************************************************************************)
(* What the job queue promises a client of the API, without workers,       *)
(* leases, retries or time: a submitted job is decided exactly once, a     *)
(* result exists exactly when it succeeded, and a cancellation accepted    *)
(* before the decision is the decision.  (The job state machine and the    *)
(* publication invariant in the docstring of storage.py.)                  *)
(***************************************************************************)
CONSTANT Jobs

VARIABLES status,      \* absent, active, or how the job was decided
          cancelling,  \* the jobs whose cancellation was accepted
          published    \* the jobs that have a result

lifecycleVars == <<status, cancelling, published>>

Decided == {"succeeded", "failed", "cancelled"}

Init ==
    /\ status = [j \in Jobs |-> "absent"]
    /\ cancelling = {}
    /\ published = {}

Submit(j) ==
    /\ status[j] = "absent"
    /\ status' = [status EXCEPT ![j] = "active"]
    /\ UNCHANGED <<cancelling, published>>

(* A request for a job no worker has yet is granted on the spot.           *)
RequestCancel(j) ==
    /\ status[j] = "active"
    /\ cancelling' = cancelling \cup {j}
    /\ status' \in {status, [status EXCEPT ![j] = "cancelled"]}
    /\ UNCHANGED published

Succeed(j) ==
    /\ status[j] = "active"
    /\ j \notin cancelling
    /\ status' = [status EXCEPT ![j] = "succeeded"]
    /\ published' = published \cup {j}
    /\ UNCHANGED cancelling

GiveUp(j) ==
    /\ status[j] = "active"
    /\ j \notin cancelling
    /\ status' = [status EXCEPT ![j] = "failed"]
    /\ UNCHANGED <<cancelling, published>>

GrantCancel(j) ==
    /\ status[j] = "active"
    /\ j \in cancelling
    /\ status' = [status EXCEPT ![j] = "cancelled"]
    /\ UNCHANGED <<cancelling, published>>

Decide(j) == Succeed(j) \/ GiveUp(j) \/ GrantCancel(j)

Next == \E j \in Jobs : Submit(j) \/ RequestCancel(j) \/ Decide(j)

Spec == Init /\ [][Next]_lifecycleVars

(* Every submitted job is decided.                                         *)
FairSpec == Spec /\ \A j \in Jobs : WF_lifecycleVars(Decide(j))
=============================================================================
