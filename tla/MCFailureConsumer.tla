-------------------------- MODULE MCFailureConsumer --------------------------
(* FailureConsumer for TLC.  No symmetry, because of the temporal properties. *)
EXTENDS FailureConsumer

(* A dead-letter topic that may refuse a write, or take it and not say so. *)
Unreliable == {"written", "refused", "unacknowledged"}
=============================================================================
