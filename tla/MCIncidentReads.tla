---------------------------- MODULE MCIncidentReads ----------------------------
(***************************************************************************)
(* IncidentReads for TLC: two dates for up to three rows, so that rows     *)
(* tie; of the incidents the first does not resemble the failure, and the  *)
(* second resembles it more than the third.                                *)
(***************************************************************************)
EXTENDS IncidentReads

MCScore == <<2, 5, 3>>
=============================================================================
