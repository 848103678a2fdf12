------------------------- MODULE InvestigationGraph -------------------------
(***************************************************************************)
(* The LangGraph state machine that turns one task failure into a          *)
(* diagnosis (src/dag_doctor/graph): six nodes, the conditional edges      *)
(* between them, the two budgets, and the confidence computed in code.     *)
(*                                                                         *)
(* One action per node.  An action is the whole of the node's __call__,    *)
(* followed by the conditional edge, which LangGraph evaluates on the      *)
(* state the node left behind: `node' = AfterX'.  Whatever a language      *)
(* model or a tool answers is a nondeterministic choice.                   *)
(*                                                                         *)
(* Numbers in 0..1 are counted in ten-thousandths, the precision the code  *)
(* rounds a confidence to.                                                 *)
(***************************************************************************)
EXTENDS Integers, SequencesExt

CONSTANTS
  Tools,            \* names the toolbox holds
  UnknownTools,     \* names a model may ask for that it does not hold
  Inputs,           \* fingerprints of resolved tool arguments
  NoInput,          \* fingerprint of the empty arguments of an unknown tool
  Strengths,        \* strengths in KNOWN_SIGNATURES; 0 is "no pattern matched"
  MaxIterations,    \* BudgetSettings.max_iterations
  MaxToolCalls,     \* BudgetSettings.max_tool_calls
  CallsPerRound,    \* MAX_CALLS_PER_ITERATION
  MaxHypotheses,    \* MAX_HYPOTHESES
  TriageShortcut,   \* BudgetSettings.triage_shortcut_confidence
  MinConclude       \* BudgetSettings.min_conclude_confidence

ASSUME BudgetsArePositive ==
  /\ MaxIterations \in Nat \ {0}
  /\ MaxToolCalls  \in Nat \ {0}
  /\ CallsPerRound \in Nat \ {0}
  /\ MaxHypotheses \in Nat \ {0}

ASSUME ThresholdsAreOrdered ==
  /\ Strengths \subseteq 0 .. 10000
  /\ TriageShortcut \in 0 .. 10000
  /\ MinConclude \in 0 .. TriageShortcut

ASSUME ToolNamesAreDisjoint == Tools \cap UnknownTools = {}

VARIABLES
  node,                \* the node about to run, END, or RAISED
  signature,           \* strength of the pattern the exception matches
  triage,              \* TriageResult, or NoTriage
  evidence,            \* tool observations, oldest first
  hypotheses,          \* hypotheses in rank order
  current,             \* index in hypotheses of current_hypothesis; 0 is None
  iteration,
  tool_calls_made,
  evidence_exhausted,
  halt_reason,         \* HaltReason, or NONE
  diagnosis,           \* the Diagnosis, or NoDiagnosis
  steps,               \* the trace: the nodes that ran, in order
  toolRuns             \* history: tool executions, recorded or not

vars == <<node, signature, triage, evidence, hypotheses, current, iteration,
          tool_calls_made, evidence_exhausted, halt_reason, diagnosis, steps,
          toolRuns>>

-----------------------------------------------------------------------------
(* Data *)

END    == "__end__"
RAISED == "raised"
NONE   == "none"

ModelNodes == {"triage", "gather_evidence", "form_hypothesis",
               "test_hypothesis", "conclude"}
NodeNames  == ModelNodes \cup {"escalate"}

HaltReasons == {"concluded", "iteration_budget_exhausted",
                "tool_call_budget_exhausted", "confidence_too_low",
                "no_hypothesis_formed", "investigation_error"}

HypothesisOutcomes == {"untested", "confirmed", "refuted", "inconclusive"}

Triages  == [confidence : 0 .. 10000, needs_investigation : BOOLEAN]
NoTriage == [confidence |-> 0, needs_investigation |-> TRUE]

(* A tool that is not in the toolbox still leaves a failed observation.    *)
Observations ==
  [tool : Tools, input : Inputs, succeeded : BOOLEAN]
    \cup [tool : UnknownTools, input : {NoInput}, succeeded : {FALSE}]

Hypotheses == [test_tool : Tools \cup UnknownTools, outcome : HypothesisOutcomes]

Diagnoses   == [category : {"cause", "unknown"}, halt_reason : HaltReasons,
                confidence : 0 .. 10000]
NoDiagnosis == [category |-> "unknown", halt_reason |-> NONE, confidence |-> 0]

Call(o) == <<o.tool, o.input>>

-----------------------------------------------------------------------------
(* InvestigationState *)

IterationsRemaining ==
  IF iteration < MaxIterations THEN MaxIterations - iteration ELSE 0

ToolCallsRemaining ==
  IF tool_calls_made < MaxToolCalls THEN MaxToolCalls - tool_calls_made ELSE 0

BudgetExhausted == IterationsRemaining = 0 \/ ToolCallsRemaining = 0

ExhaustionReason_Swapped ==
  IF ToolCallsRemaining = 0 THEN "tool_call_budget_exhausted"
  ELSE IF IterationsRemaining = 0 THEN "iteration_budget_exhausted"
  ELSE NONE

ExhaustionReason ==
  IF IterationsRemaining = 0 THEN "iteration_budget_exhausted"
  ELSE IF ToolCallsRemaining = 0 THEN "tool_call_budget_exhausted"
  ELSE NONE

SuccessfulEvidence == {i \in DOMAIN evidence : evidence[i].succeeded}

Refuted == {h \in DOMAIN hypotheses : hypotheses[h].outcome = "refuted"}

Confirmed == current # 0 /\ hypotheses[current].outcome = "confirmed"

-----------------------------------------------------------------------------
(* Confidence, in ten-thousandths *)

IndependentTools_CountsItems == Cardinality(SuccessfulEvidence)

IndependentTools == Cardinality({evidence[i].tool : i \in SuccessfulEvidence})

HypothesisTerm ==
  IF current = 0 THEN 0
  ELSE CASE hypotheses[current].outcome = "confirmed"    -> 3000
         [] hypotheses[current].outcome = "inconclusive" -> 600
         [] OTHER                                        -> 0

EvidenceTerm == 875 * (IF IndependentTools < 4 THEN IndependentTools ELSE 4)

RefutationPenalty ==
  LET refutations == Cardinality(Refuted)
  IN  IF refutations < 3 THEN 500 * refutations ELSE 1500

ComputedConfidence ==
  LET total == 1500 + (signature \div 5) + HypothesisTerm + EvidenceTerm
                 - RefutationPenalty
  IN  IF total < 0 THEN 0 ELSE IF total > 10000 THEN 10000 ELSE total

TriageConfidence(agrees) == IF agrees THEN signature ELSE signature \div 2

-----------------------------------------------------------------------------
(* Routing *)

Halted == halt_reason \notin {NONE, "concluded"}

AfterTriage ==
  IF Halted THEN "escalate"
  ELSE IF ~triage.needs_investigation /\ triage.confidence >= TriageShortcut
    THEN "conclude"
  ELSE IF BudgetExhausted THEN "escalate" ELSE "gather_evidence"

AfterGatherEvidence ==
  IF Halted \/ BudgetExhausted THEN "escalate"
  ELSE IF evidence_exhausted /\ hypotheses # <<>> THEN "conclude"
  ELSE "form_hypothesis"

AfterFormHypothesis ==
  IF Halted \/ current = 0 THEN "escalate" ELSE "test_hypothesis"

AfterTestHypothesis_NoBar ==
  IF Halted THEN "escalate"
  ELSE IF Confirmed THEN "conclude"
  ELSE IF BudgetExhausted THEN "escalate" ELSE "gather_evidence"

AfterTestHypothesis ==
  IF Halted THEN "escalate"
  ELSE IF Confirmed
    THEN IF ComputedConfidence >= MinConclude THEN "conclude" ELSE "escalate"
  ELSE IF BudgetExhausted THEN "escalate" ELSE "gather_evidence"

HaltReasonForRoute ==
  IF Halted THEN halt_reason
  ELSE IF ExhaustionReason # NONE THEN ExhaustionReason
  ELSE IF current = 0 THEN "no_hypothesis_formed"
  ELSE "confidence_too_low"

-----------------------------------------------------------------------------
(* Nodes *)

Init ==
  /\ node = "triage"
  /\ signature \in Strengths
  /\ triage = NoTriage
  /\ evidence = <<>> /\ hypotheses = <<>> /\ current = 0
  /\ iteration = 0 /\ tool_calls_made = 0 /\ toolRuns = 0
  /\ evidence_exhausted = FALSE
  /\ halt_reason = NONE /\ diagnosis = NoDiagnosis
  /\ steps = <<>>

(* InvestigationNode.__call__ appends a step whatever the node did.        *)
RecordStep == steps' = Append(steps, node)

(* The calls a plan can add: at most the cap, each new to the evidence and *)
(* to the plan.  Repeats are skipped and cost nothing.                     *)
CallsAllowed_IgnoresSpent == CallsPerRound

CallsAllowed ==
  IF ToolCallsRemaining < CallsPerRound THEN ToolCallsRemaining
                                        ELSE CallsPerRound

IsNewRound(gathered) ==
  /\ \A i, j \in DOMAIN gathered :
        Call(gathered[i]) = Call(gathered[j]) => i = j
  /\ \A i \in DOMAIN gathered, k \in DOMAIN evidence :
        Call(gathered[i]) # Call(evidence[k])

(* The hypothesis to test next: the best-ranked of those just proposed.    *)
Leading_RanksFromOne(tests) == IF tests = <<>> THEN 0 ELSE 1

Leading(tests) == IF tests = <<>> THEN 0 ELSE Len(hypotheses) + 1

(* Whether the hypothesis under test can still be charged a tool call.     *)
RunsTest == ToolCallsRemaining > 0

Triage ==
  /\ node = "triage"
  /\ \E agrees, needs \in BOOLEAN :
        /\ agrees => signature # 0
        /\ triage' = [confidence |-> TriageConfidence(agrees),
                      needs_investigation |-> needs \/ ~agrees]
  /\ RecordStep
  /\ UNCHANGED <<signature, evidence, hypotheses, current, iteration,
                 tool_calls_made, evidence_exhausted, halt_reason, diagnosis,
                 toolRuns>>
  /\ node' = AfterTriage'

GatherEvidence ==
  /\ node = "gather_evidence"
  /\ \E gathered \in BoundedSeq(Observations, CallsAllowed) :
        /\ IsNewRound(gathered)
        /\ evidence' = evidence \o gathered
        /\ tool_calls_made' = tool_calls_made + Len(gathered)
        /\ toolRuns' = toolRuns + Len(gathered)
        /\ evidence_exhausted' = (gathered = <<>>)
  /\ iteration' = iteration + 1
  /\ RecordStep
  /\ UNCHANGED <<signature, triage, hypotheses, current, halt_reason,
                 diagnosis>>
  /\ node' = AfterGatherEvidence'

FormHypothesis ==
  /\ node = "form_hypothesis"
  /\ \E tests \in BoundedSeq(Tools \cup UnknownTools, MaxHypotheses) :
        /\ hypotheses' = hypotheses \o
             [i \in 1 .. Len(tests) |->
                [test_tool |-> tests[i], outcome |-> "untested"]]
        /\ current' = Leading(tests)
  /\ RecordStep
  /\ UNCHANGED <<signature, triage, evidence, iteration, tool_calls_made,
                 evidence_exhausted, halt_reason, diagnosis, toolRuns>>
  /\ node' = AfterFormHypothesis'

(* A test is run even when its call is already in the evidence.            *)
TestHypothesis ==
  /\ node = "test_hypothesis"
  /\ \E outcome \in HypothesisOutcomes :
        hypotheses' = [hypotheses EXCEPT ![current].outcome = outcome]
  /\ IF RunsTest
       THEN /\ \E o \in Observations :
                  /\ o.tool = hypotheses[current].test_tool
                  /\ evidence' = Append(evidence, o)
            /\ tool_calls_made' = tool_calls_made + 1
            /\ toolRuns' = toolRuns + 1
       ELSE UNCHANGED <<evidence, tool_calls_made, toolRuns>>
  /\ RecordStep
  /\ UNCHANGED <<signature, triage, current, iteration, evidence_exhausted,
                 halt_reason, diagnosis>>
  /\ node' = AfterTestHypothesis'

Conclude ==
  /\ node = "conclude"
  /\ \E category \in {"cause", "unknown"} :
        diagnosis' = [category |-> category, halt_reason |-> "concluded",
                      confidence |-> ComputedConfidence]
  /\ halt_reason' = "concluded"
  /\ RecordStep
  /\ UNCHANGED <<signature, triage, evidence, hypotheses, current, iteration,
                 tool_calls_made, evidence_exhausted, toolRuns>>
  /\ node' = END

Escalate ==
  /\ node = "escalate"
  /\ diagnosis' = [category |-> "unknown", halt_reason |-> HaltReasonForRoute,
                   confidence |-> ComputedConfidence]
  /\ halt_reason' = HaltReasonForRoute
  /\ RecordStep
  /\ UNCHANGED <<signature, triage, evidence, hypotheses, current, iteration,
                 tool_calls_made, evidence_exhausted, toolRuns>>
  /\ node' = END

-----------------------------------------------------------------------------
(* Failures *)

(* Where each edge leads when the node before it halted.                   *)
AfterHalt == IF node = "conclude" THEN END ELSE "escalate"

(* A DagDoctorError inside a node, a model that fails or answers badly:    *)
(* the node's updates are replaced by a halt.  test_hypothesis asks the    *)
(* model only after running its tool, whose observation is then dropped.   *)
HaltNode ==
  /\ node \in ModelNodes
  /\ halt_reason' = "investigation_error"
  /\ toolRuns' = IF node = "test_hypothesis" /\ RunsTest THEN toolRuns + 1
                                                         ELSE toolRuns
  /\ RecordStep
  /\ UNCHANGED <<signature, triage, evidence, hypotheses, current, iteration,
                 tool_calls_made, evidence_exhausted, diagnosis>>
  /\ node' = AfterHalt

(* Any other exception is not caught by __call__ and ends the graph run;   *)
(* the tools of the node may have run by then.                             *)
RaiseOut ==
  /\ node \in ModelNodes
  /\ \E ran \in 0 .. MaxToolCalls :
        /\ ran <= CASE node = "gather_evidence" -> CallsAllowed
                    [] node = "test_hypothesis" /\ RunsTest -> 1
                    [] OTHER -> 0
        /\ toolRuns' = toolRuns + ran
  /\ node' = RAISED
  /\ UNCHANGED <<signature, triage, evidence, hypotheses, current, iteration,
                 tool_calls_made, evidence_exhausted, halt_reason, diagnosis,
                 steps>>

-----------------------------------------------------------------------------
Next ==
  \/ Triage
  \/ GatherEvidence
  \/ FormHypothesis
  \/ TestHypothesis
  \/ Conclude
  \/ Escalate
  \/ HaltNode
  \/ RaiseOut

(* LangGraph runs a compiled graph until it reaches END: the next node is  *)
(* always started, and every node returns (tools and model calls are under *)
(* timeouts).                                                              *)
Spec == Init /\ [][Next]_vars /\ WF_vars(Next)

-----------------------------------------------------------------------------
(* Properties *)

(* Every variable keeps the type the pydantic model gives it; current and  *)
(* diagnosis keep their None as a value of their own.                      *)
TypeOK ==
  /\ node \in NodeNames \cup {END, RAISED}
  /\ signature \in Strengths
  /\ triage \in Triages
  /\ evidence \in Seq(Observations)
  /\ hypotheses \in Seq(Hypotheses)
  /\ current \in 0 .. Len(hypotheses)
  /\ iteration \in Nat /\ tool_calls_made \in Nat /\ toolRuns \in Nat
  /\ evidence_exhausted \in BOOLEAN
  /\ halt_reason \in HaltReasons \cup {NONE}
  /\ diagnosis \in Diagnoses \cup {NoDiagnosis}
  /\ steps \in Seq(NodeNames)

(* The budgets are hard limits: the counter the routing reads is exactly   *)
(* the evidence on record, it never passes its limit, and neither do the   *)
(* tools that really ran, those whose observation a failing test dropped   *)
(* included.                                                               *)
BudgetsRespected ==
  /\ tool_calls_made = Len(evidence)
  /\ iteration <= MaxIterations
  /\ toolRuns <= MaxToolCalls

(* test_hypothesis "runs the test, then asks the model to judge the        *)
(* result": whenever the graph reaches it there is a hypothesis to test    *)
(* and a tool call left to test it with, so no hypothesis is ever judged   *)
(* on a test that did not run.                                             *)
TestIsRunnable ==
  node = "test_hypothesis" => current # 0 /\ RunsTest

(* A diagnosis that concludes rests on one of three things: a decisive     *)
(* signature and no investigation at all, a confirmed hypothesis above the *)
(* confidence bar, or a round that found nothing new after at least one    *)
(* hypothesis had been tested.                                             *)
ConclusionIsEarned ==
  diagnosis.halt_reason = "concluded" =>
    \/ evidence = <<>> /\ current = 0 /\ signature >= TriageShortcut
    \/ Confirmed /\ diagnosis.confidence >= MinConclude
    \/ /\ evidence_exhausted /\ ~Confirmed
       /\ \E i, j \in DOMAIN steps : i < j /\ steps[i] = "test_hypothesis"
                                           /\ steps[j] = "gather_evidence"

(* The reason an escalated diagnosis records is true of the investigation: *)
(* each budget is named only when it is the one that ran out, and          *)
(* "confidence too low" only for a hypothesis that did survive its test.   *)
EscalationReasonIsTrue ==
  /\ diagnosis.halt_reason = "iteration_budget_exhausted" =>
        iteration = MaxIterations
  /\ diagnosis.halt_reason = "tool_call_budget_exhausted" =>
        tool_calls_made = MaxToolCalls /\ iteration < MaxIterations
  /\ diagnosis.halt_reason = "no_hypothesis_formed" =>
        current = 0 /\ ~BudgetExhausted
  /\ diagnosis.halt_reason = "confidence_too_low" =>
        Confirmed /\ diagnosis.confidence < MinConclude /\ ~BudgetExhausted

(* Whatever the models answer, an investigation takes at most three nodes  *)
(* per iteration of its budget.                                            *)
TraceIsBounded == Len(steps) <= 3 * MaxIterations

(* "A diagnosis can only reach certainty by matching a known signature,    *)
(* surviving its test, and being supported by several independent tools"   *)
(* (confidence.py:25-27), and with no hypothesis refuted on the way.       *)
CertaintyIsEarned ==
  diagnosis.confidence = 10000 =>
    /\ signature = 10000
    /\ Confirmed /\ Refuted = {}
    /\ Cardinality({evidence[i].tool : i \in SuccessfulEvidence}) >= 4

(* A verdict is final: once a hypothesis was judged, no later step of the  *)
(* loop retests, edits or drops it, and evidence is never rewritten.       *)
RecordIsAppendOnly ==
  [][/\ IsPrefix(evidence, evidence')
     /\ \A h \in DOMAIN hypotheses :
           hypotheses[h].outcome # "untested" => hypotheses'[h] = hypotheses[h]
    ]_vars

(* How the investigation ended, as the worker sees it.                     *)
Outcome ==
  IF node = RAISED THEN "raised"
  ELSE IF node # END THEN "running"
  ELSE IF diagnosis = NoDiagnosis THEN "undiagnosed"
  ELSE IF halt_reason = "investigation_error" THEN "broken"
  ELSE IF diagnosis.halt_reason = "concluded" /\ diagnosis.category # "unknown"
    THEN "conclusive" ELSE "inconclusive"

Promise == INSTANCE Investigation
             WITH iterations <- iteration, toolCalls <- tool_calls_made,
                  outcome <- Outcome

(* The graph keeps the promise the worker relies on: budgets, one outcome, *)
(* and, as "an agent without a budget is an agent that loops forever", an  *)
(* outcome that always comes, whatever the models and the tools answer.    *)
ImplementsInvestigation == Promise!Spec

=============================================================================
