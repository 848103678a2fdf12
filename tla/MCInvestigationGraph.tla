------------------------ MODULE MCInvestigationGraph ------------------------
(***************************************************************************)
(* InvestigationGraph for TLC.  Tools are interchangeable: the safety run  *)
(* uses symmetry, the run with a temporal property does not.               *)
(***************************************************************************)
EXTENDS InvestigationGraph

ToolSymmetry == Permutations(Tools)

(* No pattern, an ambiguous one, and the one decisive pattern of           *)
(* KNOWN_SIGNATURES.                                                       *)
MCStrengths == {0, 5500, 10000}
=============================================================================
