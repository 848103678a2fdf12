-------------------------- MODULE MCFailurePublishing --------------------------
(* FailurePublishing for TLC.                                              *)
EXTENDS FailurePublishing

=============================================================================
