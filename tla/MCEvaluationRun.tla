--------------------------- MODULE MCEvaluationRun ---------------------------
(***************************************************************************)
(* EvaluationRun for TLC: a diagnosis is inconclusive, or blames the wrong *)
(* task, or has the wrong category.                                        *)
(***************************************************************************)
EXTENDS EvaluationRun

MCDiagnoses ==
  {[conclusive |-> FALSE, category |-> TRUE, task |-> TRUE],
   [conclusive |-> TRUE, category |-> TRUE, task |-> FALSE],
   [conclusive |-> TRUE, category |-> FALSE, task |-> TRUE]}
=============================================================================
