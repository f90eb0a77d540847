----------------------------- MODULE MCJobQueue -----------------------------
(* Instances of JobQueue for TLC. *)
EXTENDS JobQueue

CONSTANTS w1, w2, shared

(* Two workers under one owner name: only the attempt number fences them.  *)
SameOwner == [w \in Workers |-> shared]

=============================================================================
