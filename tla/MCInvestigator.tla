----------------------------- MODULE MCInvestigator -----------------------------
(* Investigator on small instances: two deliveries of a failure that a       *)
(* rebalance or a crash makes overlap, and a replay.                         *)
EXTENDS Investigator, TLC

DeliverySymmetry == Permutations(Deliveries)

=============================================================================
