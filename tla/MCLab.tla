------------------------------- MODULE MCLab -------------------------------
(* A session of the laboratory: create, a collect or repeated spikes, and  *)
(* what comes after them, with one cluster swapped behind the context.     *)
EXTENDS Lab
=============================================================================
