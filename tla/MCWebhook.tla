----------------------------- MODULE MCWebhook -----------------------------
(* Instances of Webhook for TLC. *)
EXTENDS Webhook, TLC

CONSTANTS a, b, c, d, h1, h2

(* b comes in two batches, d is refused in Webhook_intake, and one batch   *)
(* holds an item that is no event.                                         *)
Overlapping == {<<a, b>>, <<d, b>>, <<c, Malformed>>}

Separate == {<<a>>, <<b>>}

(* Lines that are short against the byte reserve, and one that is longer   *)
(* than it.                                                                *)
ShortLines == [e \in Events |-> 2]
OneLongLine == [e \in Events |-> IF e = c THEN 9 ELSE 2]

HandlerSymmetry == Permutations(Handlers)
=============================================================================
