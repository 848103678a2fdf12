--------------------------- MODULE Investigation ---------------------------
(***************************************************************************)
(* What one investigation promises the worker that asked for it: it stays  *)
(* within its two budgets, and it ends with exactly one outcome.  The      *)
(* worker (Investigator) only ever looks at the outcome, so this module is *)
(* the interface between the graph and the rest of the system.             *)
(*                                                                         *)
(* InvestigationGraph is shown to implement it.                            *)
(***************************************************************************)
EXTENDS Integers

CONSTANTS
  MaxIterations,  \* BudgetSettings.max_iterations
  MaxToolCalls    \* BudgetSettings.max_tool_calls

VARIABLES
  iterations,     \* gather rounds spent
  toolCalls,      \* tool calls charged to the budget
  outcome         \* "running", or how the investigation ended

vars == <<iterations, toolCalls, outcome>>

-----------------------------------------------------------------------------
(* How an investigation can end, as Investigator._status_for and the       *)
(* consumer tell endings apart:                                            *)
(*   conclusive    a cause is asserted                                     *)
(*   inconclusive  a diagnosis is given that asserts none                  *)
(*   broken        a diagnosis is given, after an INVESTIGATION_ERROR      *)
(*   undiagnosed   the graph ended without a diagnosis                     *)
(*   raised        an exception escaped the graph                          *)
Outcomes == {"conclusive", "inconclusive", "broken", "undiagnosed", "raised"}

Init ==
  /\ iterations = 0
  /\ toolCalls = 0
  /\ outcome = "running"

(* One round of evidence: an iteration and some of the remaining calls.    *)
Gather ==
  /\ outcome = "running"
  /\ iterations < MaxIterations
  /\ iterations' = iterations + 1
  /\ toolCalls' \in toolCalls .. MaxToolCalls
  /\ UNCHANGED outcome

(* One test of one hypothesis: a single tool call.                         *)
Test ==
  /\ outcome = "running"
  /\ toolCalls < MaxToolCalls
  /\ toolCalls' = toolCalls + 1
  /\ UNCHANGED <<iterations, outcome>>

(* The investigation ends.  A cause is asserted only without an error.     *)
Finish ==
  /\ outcome = "running"
  /\ outcome' \in Outcomes
  /\ UNCHANGED <<iterations, toolCalls>>

Next == Gather \/ Test \/ Finish

Safety == Init /\ [][Next]_vars

Spec == Safety /\ WF_vars(Finish)

=============================================================================
