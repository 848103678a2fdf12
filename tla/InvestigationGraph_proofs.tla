---------------------- MODULE InvestigationGraph_proofs ----------------------
(***************************************************************************)
(* Proofs about InvestigationGraph, for every set of tools, every budget   *)
(* and every pair of ordered thresholds.                                   *)
(***************************************************************************)
EXTENDS InvestigationGraph, FiniteSetTheorems, SequenceTheorems, TLAPS

-----------------------------------------------------------------------------
(* Lemmas about the data *)

(* The tools named by any part of the evidence are finitely many.          *)
LEMMA ToolsAreFinite ==
  ASSUME NEW e \in Seq(Observations), NEW D \in SUBSET DOMAIN e
  PROVE  Cardinality({e[i].tool : i \in D}) \in Nat
<1> DEFINE T == {e[i].tool : i \in D}
           f == [i \in D |-> e[i].tool]
<1>1. IsFiniteSet(D)
  <2>1. DOMAIN e = 1 .. Len(e) /\ Len(e) \in Nat
    BY LenProperties
  <2>2. IsFiniteSet(1 .. Len(e))
    BY <2>1, FS_Interval
  <2> QED BY <2>1, <2>2, FS_Subset
<1>2. f \in Surjection(D, T)
  BY DEF Surjection
<1>3. IsFiniteSet(T)
  BY <1>1, <1>2, FS_Surjection
<1> QED BY <1>3, FS_CardinalityType

(* A bounded sequence is a sequence, no longer than its bound.             *)
LEMMA BoundedSeqType ==
  ASSUME NEW S, NEW n \in Nat, NEW s \in BoundedSeq(S, n)
  PROVE  s \in Seq(S) /\ Len(s) \in 0 .. n
<1>1. PICK m \in 0 .. n : s \in [1 .. m -> S]
  BY DEF BoundedSeq, SeqOf
<1>2. s \in Seq(S) /\ Len(s) = m
  BY <1>1
<1> QED BY <1>2

(* The strength of a signature lies on the scale of confidences.           *)
LEMMA StrengthOnScale ==
  ASSUME TypeOK PROVE signature \in 0 .. 10000
<1>1. Strengths \subseteq 0 .. 10000
  BY ThresholdsAreOrdered
<1>2. signature \in Strengths
  BY DEF TypeOK
<1> QED BY <1>1, <1>2

(* So does what the triage makes of it.                                    *)
LEMMA TriageConfidenceType ==
  ASSUME TypeOK, NEW agrees \in BOOLEAN
  PROVE  TriageConfidence(agrees) \in 0 .. 10000
<1> DEFINE h == signature \div 2
<1>1. signature \in 0 .. 10000
  BY StrengthOnScale
<1>2. h \in 0 .. 10000
  BY <1>1
<1>3. TriageConfidence(agrees) = IF agrees THEN signature ELSE h
  BY DEF TriageConfidence
<1> HIDE DEF h
<1> QED BY <1>1, <1>2, <1>3

LEMMA FifthType == ASSUME NEW n \in Int PROVE n \div 5 \in Int
  OBVIOUS

(* Whatever the evidence and the hypotheses, a confidence is a fraction.   *)
LEMMA ConfidenceType ==
  ASSUME TypeOK
  PROVE  ComputedConfidence \in 0 .. 10000
<1>1. IndependentTools \in Nat
  <2>1. SuccessfulEvidence \in SUBSET DOMAIN evidence
    BY DEF SuccessfulEvidence
  <2> QED BY <2>1, ToolsAreFinite DEF IndependentTools, TypeOK
<1>2. Cardinality(Refuted) \in Nat
  <2>1. IsFiniteSet(DOMAIN hypotheses)
    BY LenProperties, FS_Interval DEF TypeOK
  <2>2. Refuted \in SUBSET DOMAIN hypotheses
    BY DEF Refuted
  <2> QED BY <2>1, <2>2, FS_Subset, FS_CardinalityType
<1>3. EvidenceTerm \in Int
  BY <1>1 DEF EvidenceTerm
<1>4. RefutationPenalty \in Int
  BY <1>2 DEF RefutationPenalty
<1>5. HypothesisTerm \in Int
  BY DEF HypothesisTerm
<1>6. signature \div 5 \in Int
  <2>1. signature \in 0 .. 10000
    BY StrengthOnScale
  <2>2. signature \in Int
    BY <2>1
  <2> QED BY <2>2, FifthType
<1> DEFINE total == 1500 + (signature \div 5) + HypothesisTerm
                      + EvidenceTerm - RefutationPenalty
<1>7. total \in Int
  BY <1>3, <1>4, <1>5, <1>6
<1>8. ComputedConfidence = IF total < 0 THEN 0
                           ELSE IF total > 10000 THEN 10000 ELSE total
  BY DEF ComputedConfidence
<1> HIDE DEF total
<1> QED BY <1>7, <1>8

LEMMA HaltReasonType ==
  ASSUME halt_reason \in HaltReasons \cup {NONE}
  PROVE  HaltReasonForRoute \in HaltReasons
  BY DEF HaltReasonForRoute, Halted, ExhaustionReason, HaltReasons

-----------------------------------------------------------------------------
(* Types *)

LEMMA InitTypeOK == Init => TypeOK
<1> SUFFICES ASSUME Init PROVE TypeOK
  OBVIOUS
<1> USE DEF Init
<1>1. /\ evidence \in Seq(Observations)
      /\ hypotheses \in Seq(Hypotheses)
      /\ steps \in Seq(NodeNames)
      /\ current \in 0 .. Len(hypotheses)
  BY EmptySeq
<1>2. triage \in Triages
  BY DEF Triages, NoTriage
<1>3. node \in NodeNames
  BY DEF NodeNames, ModelNodes
<1>4. halt_reason \in HaltReasons \cup {NONE}
  OBVIOUS
<1>5. diagnosis \in Diagnoses \cup {NoDiagnosis}
  OBVIOUS
<1>6. /\ iteration \in Nat /\ tool_calls_made \in Nat /\ toolRuns \in Nat
      /\ evidence_exhausted \in BOOLEAN
      /\ signature \in Strengths
  OBVIOUS
<1> QED BY <1>1, <1>2, <1>3, <1>4, <1>5, <1>6 DEF TypeOK

LEMMA RecordStepType ==
  ASSUME steps \in Seq(NodeNames), node \in NodeNames, RecordStep
  PROVE  steps' \in Seq(NodeNames) /\ Len(steps') = Len(steps) + 1
  BY AppendProperties DEF RecordStep

(* Every node leaves a state of the declared type behind.                  *)
LEMMA NextTypeOK == TypeOK /\ [Next]_vars => TypeOK'
<1> SUFFICES ASSUME TypeOK, [Next]_vars PROVE TypeOK'
  OBVIOUS
<1> USE DEF TypeOK
<1>1. CASE Triage
  <2>1. triage' \in Triages
    <3> HIDE DEF TypeOK
    <3>1. PICK agrees \in BOOLEAN, needs \in BOOLEAN :
             triage' = [confidence |-> TriageConfidence(agrees),
                        needs_investigation |-> needs \/ ~agrees]
      BY <1>1 DEF Triage
    <3>2. TriageConfidence(agrees) \in 0 .. 10000
      BY TriageConfidenceType
    <3> DEFINE c == TriageConfidence(agrees)
               n == needs \/ ~agrees
    <3>3. n \in BOOLEAN
      OBVIOUS
    <3>4. triage' = [confidence |-> c, needs_investigation |-> n]
      BY <3>1
    <3>5. c \in 0 .. 10000
      BY <3>2
    <3> HIDE DEF c, n
    <3>6. [confidence |-> c, needs_investigation |-> n] \in Triages
      BY <3>3, <3>5 DEF Triages
    <3> QED BY <3>4, <3>6
  <2>2. node' \in NodeNames
    BY <1>1 DEF Triage, AfterTriage, NodeNames, ModelNodes
  <2>3. steps' \in Seq(NodeNames)
    BY <1>1, RecordStepType DEF Triage, NodeNames, ModelNodes
  <2> QED BY <1>1, <2>1, <2>2, <2>3 DEF Triage
<1>2. CASE GatherEvidence
  <2>1. CallsAllowed \in Nat
    BY BudgetsArePositive DEF CallsAllowed, ToolCallsRemaining
  <2>2. PICK gathered \in BoundedSeq(Observations, CallsAllowed) :
           /\ evidence' = evidence \o gathered
           /\ tool_calls_made' = tool_calls_made + Len(gathered)
           /\ toolRuns' = toolRuns + Len(gathered)
           /\ evidence_exhausted' = (gathered = <<>>)
    BY <1>2 DEF GatherEvidence
  <2>3. gathered \in Seq(Observations) /\ Len(gathered) \in Nat
    BY <2>1, BoundedSeqType
  <2>4. evidence' \in Seq(Observations)
    BY <2>2, <2>3, ConcatProperties
  <2>5. tool_calls_made' \in Nat /\ toolRuns' \in Nat /\ iteration' \in Nat
    BY <1>2, <2>2, <2>3 DEF GatherEvidence
  <2>6. evidence_exhausted' \in BOOLEAN
    BY <2>2
  <2>7. node' \in NodeNames
    BY <1>2 DEF GatherEvidence, AfterGatherEvidence, NodeNames, ModelNodes
  <2>8. steps' \in Seq(NodeNames)
    BY <1>2, RecordStepType DEF GatherEvidence, NodeNames, ModelNodes
  <2> QED BY <1>2, <2>4, <2>5, <2>6, <2>7, <2>8 DEF GatherEvidence
<1>3. CASE FormHypothesis
  <2>1. PICK tests \in BoundedSeq(Tools \cup UnknownTools, MaxHypotheses) :
           /\ hypotheses' = hypotheses \o
                [i \in 1 .. Len(tests) |->
                   [test_tool |-> tests[i], outcome |-> "untested"]]
           /\ current' = Leading(tests)
    BY <1>3 DEF FormHypothesis
  <2> DEFINE new == [i \in 1 .. Len(tests) |->
                       [test_tool |-> tests[i], outcome |-> "untested"]]
  <2>2. tests \in Seq(Tools \cup UnknownTools) /\ Len(tests) \in Nat
    BY BudgetsArePositive, BoundedSeqType
  <2>3. new \in Seq(Hypotheses) /\ Len(new) = Len(tests)
    <3>1. \A i \in 1 .. Len(tests) : tests[i] \in Tools \cup UnknownTools
      BY <2>2, ElementOfSeq
    <3>2. \A i \in 1 .. Len(tests) :
             [test_tool |-> tests[i], outcome |-> "untested"] \in Hypotheses
      BY <3>1 DEF Hypotheses, HypothesisOutcomes
    <3> QED BY <2>2, <3>2
  <2>4. /\ hypotheses' \in Seq(Hypotheses)
        /\ Len(hypotheses') = Len(hypotheses) + Len(tests)
    BY <2>1, <2>3, ConcatProperties
  <2>5. current' \in 0 .. Len(hypotheses')
    <3>1. tests # <<>> => Len(tests) >= 1
      BY <2>2, EmptySeq
    <3>2. Len(hypotheses) \in Nat
      BY LenProperties
    <3> QED BY <2>1, <2>2, <2>4, <3>1, <3>2 DEF Leading
  <2>6. node' \in NodeNames
    BY <1>3 DEF FormHypothesis, AfterFormHypothesis, NodeNames, ModelNodes
  <2>7. steps' \in Seq(NodeNames)
    BY <1>3, RecordStepType DEF FormHypothesis, NodeNames, ModelNodes
  <2> QED BY <1>3, <2>4, <2>5, <2>6, <2>7 DEF FormHypothesis
<1>4. CASE TestHypothesis
  <2>1. PICK outcome \in HypothesisOutcomes :
           hypotheses' = [hypotheses EXCEPT ![current].outcome = outcome]
    BY <1>4 DEF TestHypothesis
  <2>2. /\ hypotheses' \in Seq(Hypotheses)
        /\ Len(hypotheses') = Len(hypotheses)
    <3>1. CASE current = 0
      <4>1. current \notin DOMAIN hypotheses
        BY <3>1, LenProperties
      <4>2. hypotheses' = hypotheses
        BY <2>1, <4>1, LenProperties
      <4> QED BY <4>2
    <3>2. CASE current # 0
      <4> DEFINE h == [hypotheses[current] EXCEPT !.outcome = outcome]
      <4>1. current \in 1 .. Len(hypotheses)
        BY <3>2, LenProperties
      <4>2. h \in Hypotheses
        <5>1. hypotheses[current] \in Hypotheses
          BY <4>1, ElementOfSeq
        <5> QED BY <5>1 DEF Hypotheses
      <4>3. hypotheses' = [hypotheses EXCEPT ![current] = h]
        BY <2>1
      <4> QED BY <4>1, <4>2, <4>3, ExceptSeq
    <3> QED BY <3>1, <3>2
  <2>3. /\ evidence' \in Seq(Observations)
        /\ tool_calls_made' \in Nat /\ toolRuns' \in Nat
    <3>1. CASE RunsTest
      <4>1. /\ \E o \in Observations : evidence' = Append(evidence, o)
            /\ tool_calls_made' = tool_calls_made + 1
            /\ toolRuns' = toolRuns + 1
        BY <1>4, <3>1 DEF TestHypothesis
      <4> QED BY <4>1, AppendProperties
    <3>2. CASE ~RunsTest
      BY <1>4, <3>2 DEF TestHypothesis
    <3> QED BY <3>1, <3>2
  <2>4. node' \in NodeNames
    BY <1>4 DEF TestHypothesis, AfterTestHypothesis, NodeNames, ModelNodes
  <2>5. steps' \in Seq(NodeNames)
    BY <1>4, RecordStepType DEF TestHypothesis, NodeNames, ModelNodes
  <2> QED BY <1>4, <2>2, <2>3, <2>4, <2>5 DEF TestHypothesis
<1>5. CASE Conclude
  <2>1. diagnosis' \in Diagnoses
    <3>1. PICK k \in {"cause", "unknown"} :
             diagnosis' = [category |-> k, halt_reason |-> "concluded",
                           confidence |-> ComputedConfidence]
      BY <1>5 DEF Conclude
    <3>2. ComputedConfidence \in 0 .. 10000
      BY ConfidenceType
    <3> DEFINE c == ComputedConfidence
    <3> HIDE DEF TypeOK, c
    <3>3. [category |-> k, halt_reason |-> "concluded", confidence |-> c]
            \in Diagnoses
      <4>1. c \in 0 .. 10000
        BY <3>2 DEF c
      <4> QED BY <4>1 DEF Diagnoses, HaltReasons
    <3> QED BY <3>1, <3>3 DEF c
  <2>2. steps' \in Seq(NodeNames)
    BY <1>5, RecordStepType DEF Conclude, NodeNames, ModelNodes
  <2> QED BY <1>5, <2>1, <2>2 DEF Conclude, HaltReasons
<1>6. CASE Escalate
  <2>1. HaltReasonForRoute \in HaltReasons
    BY HaltReasonType
  <2>2. diagnosis' \in Diagnoses
    <3>1. diagnosis' = [category |-> "unknown", halt_reason |-> HaltReasonForRoute,
                        confidence |-> ComputedConfidence]
      BY <1>6 DEF Escalate
    <3>2. ComputedConfidence \in 0 .. 10000
      BY ConfidenceType
    <3> DEFINE c == ComputedConfidence
               r == HaltReasonForRoute
    <3>3. r \in HaltReasons /\ c \in 0 .. 10000
      BY <2>1, <3>2
    <3> HIDE DEF TypeOK, c, r
    <3>4. [category |-> "unknown", halt_reason |-> r, confidence |-> c]
            \in Diagnoses
      BY <3>3 DEF Diagnoses
    <3> QED BY <3>1, <3>4 DEF c, r
  <2>3. steps' \in Seq(NodeNames)
    BY <1>6, RecordStepType DEF Escalate, NodeNames
  <2> QED BY <1>6, <2>1, <2>2, <2>3 DEF Escalate
<1>7. CASE HaltNode
  <2>1. steps' \in Seq(NodeNames)
    BY <1>7, RecordStepType DEF HaltNode, NodeNames
  <2>2. node' \in NodeNames \cup {END}
    BY <1>7 DEF HaltNode, AfterHalt, NodeNames
  <2> QED BY <1>7, <2>1, <2>2 DEF HaltNode, HaltReasons
<1>8. CASE RaiseOut
  BY <1>8 DEF RaiseOut
<1>9. CASE UNCHANGED vars
  BY <1>9 DEF vars
<1> QED
  BY <1>1, <1>2, <1>3, <1>4, <1>5, <1>6, <1>7, <1>8, <1>9 DEF Next

(* Whatever the models and the tools answer, the state stays well typed:   *)
(* in particular every recorded confidence is a fraction of one and the    *)
(* current hypothesis is one of those on record.                           *)
THEOREM TypeCorrect == Spec => []TypeOK
<1>1. Init => TypeOK
  BY InitTypeOK
<1>2. TypeOK /\ [Next]_vars => TypeOK'
  BY NextTypeOK
<1> QED BY <1>1, <1>2, PTL DEF Spec

-----------------------------------------------------------------------------
(* Budgets.  The routing checks both budgets before every node that can    *)
(* spend one, and a round of the loop is three nodes.                      *)

(* What is charged is what ran, until a test that fails keeps its tool run *)
(* and loses its observation.                                              *)
Accounting ==
  /\ tool_calls_made = Len(evidence)
  /\ tool_calls_made <= MaxToolCalls
  /\ iteration <= MaxIterations
  /\ toolRuns <= MaxToolCalls
  /\ node \in ModelNodes => toolRuns = tool_calls_made

(* Where in the loop the investigation is, and that it can afford it.      *)
Progress ==
  /\ node = "triage" => Len(steps) = 0 /\ iteration = 0
  /\ node = "gather_evidence" =>
        Len(steps) = 3 * iteration + 1 /\ ~BudgetExhausted
  /\ node = "form_hypothesis" =>
        Len(steps) = 3 * iteration - 1 /\ ~BudgetExhausted
  /\ node = "test_hypothesis" =>
        Len(steps) = 3 * iteration /\ ~BudgetExhausted /\ current # 0
  /\ node \in {"conclude", "escalate"} => Len(steps) < 3 * MaxIterations
  /\ Len(steps) <= 3 * MaxIterations

BudgetInv == TypeOK /\ Accounting /\ Progress

LEMMA BudgetLeft ==
  ASSUME TypeOK
  PROVE  ~BudgetExhausted <=>
           iteration < MaxIterations /\ tool_calls_made < MaxToolCalls
  BY BudgetsArePositive DEF TypeOK, BudgetExhausted, IterationsRemaining,
                            ToolCallsRemaining

LEMMA InitBudget == Init => BudgetInv
<1> SUFFICES ASSUME Init PROVE BudgetInv
  OBVIOUS
<1>1. TypeOK
  BY InitTypeOK
<1>2. Accounting
  BY BudgetsArePositive, EmptySeq DEF Init, Accounting
<1>3. Progress
  BY BudgetsArePositive, EmptySeq DEF Init, Progress
<1> QED BY <1>1, <1>2, <1>3 DEF BudgetInv

LEMMA NextBudget == BudgetInv /\ [Next]_vars => BudgetInv'
<1> SUFFICES ASSUME BudgetInv, [Next]_vars PROVE Accounting' /\ Progress'
  BY NextTypeOK DEF BudgetInv
<1>1. /\ TypeOK /\ TypeOK'
      /\ Accounting /\ Progress
      /\ iteration \in Nat /\ tool_calls_made \in Nat /\ toolRuns \in Nat
      /\ Len(steps) \in Nat /\ Len(evidence) \in Nat
      /\ MaxIterations \in Nat \ {0} /\ MaxToolCalls \in Nat \ {0}
  BY NextTypeOK, BudgetsArePositive, LenProperties DEF BudgetInv, TypeOK
<1>2. ~BudgetExhausted <=>
        iteration < MaxIterations /\ tool_calls_made < MaxToolCalls
  BY <1>1, BudgetLeft
<1>3. (~BudgetExhausted <=>
        iteration < MaxIterations /\ tool_calls_made < MaxToolCalls)'
  BY <1>1, BudgetLeft, PTL
<1>4. RecordStep /\ node \in NodeNames => Len(steps') = Len(steps) + 1
  BY <1>1, RecordStepType DEF TypeOK
<1>5. CASE Triage
  <2>1. Accounting'
    BY <1>1, <1>5 DEF Triage, Accounting, AfterTriage, ModelNodes
  <2>2. Len(steps') = 1
    BY <1>1, <1>4, <1>5 DEF Triage, Progress, NodeNames, ModelNodes
  <2>3. Progress'
    BY <1>1, <1>5, <2>2 DEF Triage, Progress, AfterTriage
  <2> QED BY <2>1, <2>3
<1>6. CASE GatherEvidence
  <2>1. CallsAllowed \in Nat /\ tool_calls_made + CallsAllowed <= MaxToolCalls
    BY <1>1, BudgetsArePositive
       DEF CallsAllowed, ToolCallsRemaining, Accounting
  <2>2. PICK gathered \in BoundedSeq(Observations, CallsAllowed) :
           /\ evidence' = evidence \o gathered
           /\ tool_calls_made' = tool_calls_made + Len(gathered)
           /\ toolRuns' = toolRuns + Len(gathered)
    BY <1>6 DEF GatherEvidence
  <2>3. gathered \in Seq(Observations) /\ Len(gathered) \in 0 .. CallsAllowed
    BY <2>1, BoundedSeqType
  <2>4. Len(evidence') = Len(evidence) + Len(gathered)
    BY <1>1, <2>2, <2>3, ConcatProperties DEF TypeOK
  <2>5. iteration < MaxIterations /\ iteration' = iteration + 1
    BY <1>1, <1>2, <1>6 DEF GatherEvidence, Progress
  <2>6. Accounting'
    BY <1>1, <1>6, <2>1, <2>2, <2>3, <2>4, <2>5
       DEF GatherEvidence, Accounting, ModelNodes
  <2>7. Len(steps') = 3 * iteration' - 1
    BY <1>1, <1>4, <1>6, <2>5 DEF GatherEvidence, Progress, NodeNames, ModelNodes
  <2>8. Progress'
    BY <1>1, <1>6, <2>5, <2>7 DEF GatherEvidence, Progress, AfterGatherEvidence
  <2> QED BY <2>6, <2>8
<1>7. CASE FormHypothesis
  <2>1. Accounting'
    BY <1>1, <1>7 DEF FormHypothesis, Accounting, ModelNodes
  <2>2. Len(steps') = 3 * iteration' /\ iteration' < MaxIterations
    BY <1>1, <1>2, <1>4, <1>7 DEF FormHypothesis, Progress, NodeNames, ModelNodes
  <2>3. ~BudgetExhausted'
    BY <1>1, <1>2, <1>3, <1>7 DEF FormHypothesis, Progress
  <2>4. Progress'
    BY <1>1, <1>7, <2>2, <2>3 DEF FormHypothesis, Progress, AfterFormHypothesis
  <2> QED BY <2>1, <2>4
<1>8. CASE TestHypothesis
  <2>1. tool_calls_made < MaxToolCalls /\ iteration < MaxIterations
    BY <1>1, <1>2, <1>8 DEF TestHypothesis, Progress
  <2>2. RunsTest
    BY <1>1, <2>1 DEF RunsTest, ToolCallsRemaining
  <2>3. PICK o \in Observations : evidence' = Append(evidence, o)
    BY <1>8, <2>2 DEF TestHypothesis
  <2>4. Len(evidence') = Len(evidence) + 1
    BY <1>1, <2>3, AppendProperties DEF TypeOK
  <2>5. /\ tool_calls_made' = tool_calls_made + 1
        /\ toolRuns' = toolRuns + 1
        /\ iteration' = iteration
    BY <1>8, <2>2 DEF TestHypothesis
  <2>6. Accounting'
    BY <1>1, <1>8, <2>1, <2>4, <2>5 DEF TestHypothesis, Accounting, ModelNodes
  <2>7. Len(steps') = 3 * iteration' + 1
    BY <1>1, <1>4, <1>8, <2>5 DEF TestHypothesis, Progress, NodeNames, ModelNodes
  <2>8. Progress'
    BY <1>1, <1>8, <2>1, <2>5, <2>7
       DEF TestHypothesis, Progress, AfterTestHypothesis
  <2> QED BY <2>6, <2>8
<1>9. CASE Conclude
  <2>1. Accounting'
    BY <1>1, <1>9 DEF Conclude, Accounting, ModelNodes, END
  <2>2. Progress'
    BY <1>1, <1>4, <1>9 DEF Conclude, Progress, NodeNames, ModelNodes, END
  <2> QED BY <2>1, <2>2
<1>10. CASE Escalate
  <2>1. Accounting'
    BY <1>1, <1>10 DEF Escalate, Accounting, ModelNodes, END
  <2>2. Progress'
    BY <1>1, <1>4, <1>10 DEF Escalate, Progress, NodeNames, END
  <2> QED BY <2>1, <2>2
<1>11. CASE HaltNode
  <2>1. node' \in {"escalate", END}
    BY <1>11 DEF HaltNode, AfterHalt
  <2>2. toolRuns' <= MaxToolCalls
    BY <1>1, <1>11 DEF HaltNode, Accounting, ModelNodes, RunsTest,
                       ToolCallsRemaining
  <2>3. Accounting'
    BY <1>1, <1>11, <2>1, <2>2 DEF HaltNode, Accounting, ModelNodes, END
  <2>4. Len(steps') = Len(steps) + 1
    BY <1>1, <1>4, <1>11 DEF HaltNode, NodeNames
  <2>5. node # "conclude" => Len(steps') < 3 * MaxIterations
    BY <1>1, <1>2, <1>11, <2>4 DEF HaltNode, ModelNodes, Progress, Accounting
  <2>6. Len(steps') <= 3 * MaxIterations
    BY <1>1, <2>4, <2>5 DEF Progress
  <2>7. Progress'
    BY <1>1, <1>11, <2>5, <2>6 DEF HaltNode, AfterHalt, Progress, END
  <2> QED BY <2>3, <2>7
<1>12. CASE RaiseOut
  <2>1. PICK ran \in 0 .. MaxToolCalls :
           /\ ran <= CASE node = "gather_evidence" -> CallsAllowed
                       [] node = "test_hypothesis" /\ RunsTest -> 1
                       [] OTHER -> 0
           /\ toolRuns' = toolRuns + ran
    BY <1>12 DEF RaiseOut
  <2>2. toolRuns' <= MaxToolCalls
    <3>1. CallsAllowed \in Nat /\ tool_calls_made + CallsAllowed <= MaxToolCalls
      BY <1>1, BudgetsArePositive
         DEF CallsAllowed, ToolCallsRemaining, Accounting
    <3>2. RunsTest => tool_calls_made + 1 <= MaxToolCalls
      BY <1>1 DEF RunsTest, ToolCallsRemaining
    <3>3. toolRuns = tool_calls_made
      BY <1>1, <1>12 DEF RaiseOut, Accounting
    <3>4. CASE node = "gather_evidence"
      BY <1>1, <2>1, <3>1, <3>3, <3>4
    <3>5. CASE node = "test_hypothesis" /\ RunsTest
      BY <1>1, <2>1, <3>2, <3>3, <3>5
    <3>6. CASE node # "gather_evidence" /\ ~(node = "test_hypothesis" /\ RunsTest)
      BY <1>1, <2>1, <3>3, <3>6 DEF Accounting
    <3> QED BY <3>4, <3>5, <3>6
  <2>3. Accounting'
    BY <1>1, <1>12, <2>2 DEF RaiseOut, Accounting, ModelNodes, RAISED
  <2>4. Progress'
    BY <1>1, <1>12 DEF RaiseOut, Progress, RAISED
  <2> QED BY <2>3, <2>4
<1>13. CASE UNCHANGED vars
  BY <1>1, <1>13 DEF vars, Accounting, Progress, BudgetExhausted,
                     IterationsRemaining, ToolCallsRemaining
<1> QED
  BY <1>5, <1>6, <1>7, <1>8, <1>9, <1>10, <1>11, <1>12, <1>13 DEF Next

(* The inductive invariant behind the budgets: every tool run is charged,  *)
(* and a node that spends is entered only with something left to spend.    *)
THEOREM BudgetInvariant == Spec => []BudgetInv
<1>1. Init => BudgetInv
  BY InitBudget
<1>2. BudgetInv /\ [Next]_vars => BudgetInv'
  BY NextBudget
<1> QED BY <1>1, <1>2, PTL DEF Spec

(* No plan a model makes, and no test, can overspend either budget, for    *)
(* any budgets: even the tool runs whose observation is lost are within.   *)
THEOREM BudgetsHold == Spec => []BudgetsRespected
<1>1. BudgetInv => BudgetsRespected
  BY DEF BudgetInv, Accounting, BudgetsRespected
<1> QED BY <1>1, BudgetInvariant, PTL

(* A hypothesis is never judged without a tool call left for its test.     *)
THEOREM TestsAreRunnable == Spec => []TestIsRunnable
<1>1. BudgetInv => TestIsRunnable
  <2> SUFFICES ASSUME BudgetInv, node = "test_hypothesis"
               PROVE  current # 0 /\ RunsTest
    BY DEF TestIsRunnable
  <2>1. TypeOK /\ ~BudgetExhausted /\ current # 0
    BY DEF BudgetInv, Progress
  <2>2. tool_calls_made \in Nat /\ MaxToolCalls \in Nat
           /\ tool_calls_made < MaxToolCalls
    BY <2>1, BudgetLeft, BudgetsArePositive DEF TypeOK
  <2> QED BY <2>1, <2>2 DEF RunsTest, ToolCallsRemaining
<1> QED BY <1>1, BudgetInvariant, PTL

(* The loop is bounded by its budget: at most three nodes an iteration.    *)
THEOREM TracesAreBounded == Spec => []TraceIsBounded
<1>1. BudgetInv => TraceIsBounded
  BY DEF BudgetInv, Progress, TraceIsBounded
<1> QED BY <1>1, BudgetInvariant, PTL

-----------------------------------------------------------------------------
(* Refinement.  Only gathering and testing spend a budget, and only the    *)
(* steps that leave the graph change the outcome.                          *)

(* Every node is a round, a test, an ending or invisible to the worker.    *)
LEMMA NextRefines == BudgetInv /\ [Next]_vars => [Promise!Next]_(Promise!vars)
<1> SUFFICES ASSUME BudgetInv, [Next]_vars
             PROVE  Promise!Next \/ UNCHANGED Promise!vars
  OBVIOUS
<1>1. /\ TypeOK /\ Accounting /\ Accounting'
      /\ iteration \in Nat /\ tool_calls_made \in Nat
      /\ tool_calls_made' \in Nat
      /\ MaxIterations \in Nat /\ MaxToolCalls \in Nat
  BY NextBudget, BudgetsArePositive DEF BudgetInv, TypeOK
<1>2. ~BudgetExhausted <=>
        iteration < MaxIterations /\ tool_calls_made < MaxToolCalls
  BY <1>1, BudgetLeft
<1>3. /\ Outcome = "running" <=> node \notin {END, RAISED}
      /\ Outcome' = "running" <=> node' \notin {END, RAISED}
  BY DEF Outcome, END, RAISED
<1>4. node' \in {END, RAISED} => Outcome' \in Promise!Outcomes
  BY DEF Outcome, Promise!Outcomes, END, RAISED
<1>5. CASE Triage
  BY <1>3, <1>5 DEF Triage, AfterTriage, END, RAISED, Promise!vars
<1>6. CASE GatherEvidence
  <2>1. Outcome = "running" /\ Outcome' = "running"
    BY <1>3, <1>6 DEF GatherEvidence, AfterGatherEvidence, END, RAISED
  <2>2. iteration < MaxIterations /\ iteration' = iteration + 1
    BY <1>1, <1>2, <1>6 DEF BudgetInv, Progress, GatherEvidence
  <2>3. tool_calls_made <= tool_calls_made'
    <3>1. CallsAllowed \in Nat
      BY <1>1, BudgetsArePositive DEF CallsAllowed, ToolCallsRemaining
    <3> QED BY <1>1, <1>6, <3>1, BoundedSeqType DEF GatherEvidence
  <2>4. tool_calls_made' \in tool_calls_made .. MaxToolCalls
    BY <1>1, <2>3 DEF Accounting
  <2> QED BY <2>1, <2>2, <2>4 DEF Promise!Next, Promise!Gather
<1>7. CASE FormHypothesis
  BY <1>3, <1>7 DEF FormHypothesis, AfterFormHypothesis, END, RAISED, Promise!vars
<1>8. CASE TestHypothesis
  <2>1. Outcome = "running" /\ Outcome' = "running"
    BY <1>3, <1>8 DEF TestHypothesis, AfterTestHypothesis, END, RAISED
  <2>2. tool_calls_made < MaxToolCalls
    BY <1>2, <1>8 DEF BudgetInv, Progress, TestHypothesis
  <2>3. tool_calls_made' = tool_calls_made + 1 /\ iteration' = iteration
    BY <1>1, <1>8, <2>2 DEF TestHypothesis, RunsTest, ToolCallsRemaining
  <2> QED BY <2>1, <2>2, <2>3 DEF Promise!Next, Promise!Test
<1>9. CASE Conclude
  <2>1. Outcome = "running" /\ Outcome' \in Promise!Outcomes
    BY <1>3, <1>4, <1>9 DEF Conclude, END, RAISED
  <2> QED BY <1>9, <2>1 DEF Conclude, Promise!Next, Promise!Finish
<1>10. CASE Escalate
  <2>1. Outcome = "running" /\ Outcome' \in Promise!Outcomes
    BY <1>3, <1>4, <1>10 DEF Escalate, END, RAISED
  <2> QED BY <1>10, <2>1 DEF Escalate, Promise!Next, Promise!Finish
<1>11. CASE HaltNode
  <2>1. Outcome = "running"
    BY <1>3, <1>11 DEF HaltNode, ModelNodes, END, RAISED
  <2>2. Outcome' = "running" \/ Outcome' \in Promise!Outcomes
    BY <1>3, <1>4
  <2> QED BY <1>11, <2>1, <2>2
         DEF HaltNode, Promise!Next, Promise!Finish, Promise!vars
<1>12. CASE RaiseOut
  <2>1. Outcome = "running" /\ Outcome' \in Promise!Outcomes
    BY <1>3, <1>4, <1>12 DEF RaiseOut, ModelNodes, END, RAISED
  <2> QED BY <1>12, <2>1 DEF RaiseOut, Promise!Next, Promise!Finish
<1>13. CASE UNCHANGED vars
  BY <1>13 DEF vars, Outcome, Promise!vars
<1> QED
  BY <1>5, <1>6, <1>7, <1>8, <1>9, <1>10, <1>11, <1>12, <1>13 DEF Next

(* The safety half of what the worker is promised: budgets that only grow, *)
(* never past their limits, and a single outcome, after which nothing of   *)
(* the investigation changes.                                              *)
THEOREM KeepsPromise == Spec => Promise!Safety
<1>1. Init => Promise!Init
  BY DEF Init, Promise!Init, Outcome, END, RAISED
<1>2. BudgetInv /\ [Next]_vars => [Promise!Next]_(Promise!vars)
  BY NextRefines
<1> QED BY <1>1, <1>2, BudgetInvariant, PTL DEF Spec, Promise!Safety

-----------------------------------------------------------------------------
(* Endings.  What a diagnosis says of the investigation was already true   *)
(* of the state the last conditional edge was evaluated on, and nothing    *)
(* but the diagnosis itself changes after that.                            *)

(* Why the graph is about to escalate, when no node failed.                *)
Escalating ==
  node = "escalate" /\ halt_reason = NONE =>
    \/ BudgetExhausted
    \/ current = 0
    \/ Confirmed /\ ComputedConfidence < MinConclude

(* There is a diagnosis only at the end, and an error stays recorded.      *)
Undecided ==
  /\ node # END => diagnosis = NoDiagnosis
  /\ node \in ModelNodes => halt_reason = NONE
  /\ node = "escalate" => halt_reason \in {NONE, "investigation_error"}

EscalationInv ==
  BudgetInv /\ Escalating /\ Undecided /\ EscalationReasonIsTrue

LEMMA NoDiagnosisNoReason ==
  diagnosis = NoDiagnosis => EscalationReasonIsTrue
  BY DEF NoDiagnosis, EscalationReasonIsTrue, NONE

LEMMA InitEscalation == Init => EscalationInv
  BY InitBudget, NoDiagnosisNoReason
     DEF Init, EscalationInv, Escalating, Undecided, ModelNodes

(* The reason escalate records is true of the state it runs in.            *)
LEMMA EscalateTellsTheTruth ==
  ASSUME EscalationInv, Escalate
  PROVE  EscalationReasonIsTrue'
<1>1. /\ node = "escalate"
      /\ diagnosis' = [category |-> "unknown",
                       halt_reason |-> HaltReasonForRoute,
                       confidence |-> ComputedConfidence]
      /\ UNCHANGED <<hypotheses, current, iteration, tool_calls_made>>
  BY DEF Escalate
<1>2. /\ diagnosis'.halt_reason = HaltReasonForRoute
      /\ diagnosis'.confidence = ComputedConfidence
  BY <1>1
<1>3. /\ BudgetExhausted' <=> BudgetExhausted
      /\ Confirmed' <=> Confirmed
  BY <1>1 DEF BudgetExhausted, IterationsRemaining, ToolCallsRemaining, Confirmed
<1>4. /\ iteration \in Nat /\ tool_calls_made \in Nat
      /\ iteration <= MaxIterations /\ tool_calls_made <= MaxToolCalls
      /\ MaxIterations \in Nat /\ MaxToolCalls \in Nat
  BY BudgetsArePositive DEF EscalationInv, BudgetInv, TypeOK, Accounting
<1>5. /\ IterationsRemaining = 0 <=> iteration = MaxIterations
      /\ ToolCallsRemaining = 0 <=> tool_calls_made = MaxToolCalls
  BY <1>4 DEF IterationsRemaining, ToolCallsRemaining
<1>6. CASE Halted
  <2>1. HaltReasonForRoute = "investigation_error"
    BY <1>1, <1>6 DEF HaltReasonForRoute, Halted, EscalationInv, Undecided
  <2> QED BY <1>2, <2>1 DEF EscalationReasonIsTrue
<1>7. CASE ~Halted
  <2>1. halt_reason = NONE
    BY <1>1, <1>7 DEF Halted, EscalationInv, Undecided
  <2>2. CASE ExhaustionReason # NONE
    <3>1. HaltReasonForRoute = ExhaustionReason
      BY <1>7, <2>2 DEF HaltReasonForRoute
    <3> QED BY <1>1, <1>2, <1>4, <1>5, <2>2, <3>1
           DEF ExhaustionReason, EscalationReasonIsTrue, NONE
  <2>3. CASE ExhaustionReason = NONE
    <3>1. ~BudgetExhausted
      BY <2>3 DEF ExhaustionReason, BudgetExhausted, NONE
    <3>2. current = 0 \/ (Confirmed /\ ComputedConfidence < MinConclude)
      BY <1>1, <2>1, <3>1 DEF EscalationInv, Escalating
    <3>3. HaltReasonForRoute = IF current = 0 THEN "no_hypothesis_formed"
                               ELSE "confidence_too_low"
      BY <1>7, <2>3 DEF HaltReasonForRoute
    <3> QED BY <1>1, <1>2, <1>3, <3>1, <3>2, <3>3 DEF EscalationReasonIsTrue
  <2> QED BY <2>2, <2>3
<1> QED BY <1>6, <1>7

LEMMA NextEscalation == EscalationInv /\ [Next]_vars => EscalationInv'
<1> SUFFICES ASSUME EscalationInv, [Next]_vars
             PROVE  Escalating' /\ Undecided' /\ EscalationReasonIsTrue'
  BY NextBudget DEF EscalationInv
<1> USE DEF EscalationInv
<1>1. (diagnosis = NoDiagnosis => EscalationReasonIsTrue)'
  BY NoDiagnosisNoReason, PTL
<1>2. CASE Triage
  <2>1. Escalating'
    BY <1>2 DEF Triage, AfterTriage, Escalating, Halted, Undecided, ModelNodes
  <2>2. Undecided'
    BY <1>2 DEF Triage, AfterTriage, Undecided, ModelNodes, END
  <2> QED BY <1>1, <1>2, <2>1, <2>2 DEF Triage, AfterTriage, Undecided, END
<1>3. CASE GatherEvidence
  <2>1. Escalating'
    BY <1>3 DEF GatherEvidence, AfterGatherEvidence, Escalating, Halted,
                Undecided, ModelNodes
  <2>2. Undecided'
    BY <1>3 DEF GatherEvidence, AfterGatherEvidence, Undecided, ModelNodes, END
  <2> QED BY <1>1, <1>3, <2>1, <2>2
         DEF GatherEvidence, AfterGatherEvidence, Undecided, END
<1>4. CASE FormHypothesis
  <2>1. Escalating'
    BY <1>4 DEF FormHypothesis, AfterFormHypothesis, Escalating, Halted,
                Undecided, ModelNodes
  <2>2. Undecided'
    BY <1>4 DEF FormHypothesis, AfterFormHypothesis, Undecided, ModelNodes, END
  <2> QED BY <1>1, <1>4, <2>1, <2>2
         DEF FormHypothesis, AfterFormHypothesis, Undecided, END
<1>5. CASE TestHypothesis
  <2>1. (ComputedConfidence \in 0 .. 10000)'
    <3>1. TypeOK'
      BY NextTypeOK DEF BudgetInv
    <3> QED BY <3>1, ConfidenceType, PTL
  <2>2. ComputedConfidence' < MinConclude \/ ComputedConfidence' >= MinConclude
    <3> DEFINE c == ComputedConfidence'
    <3>1. c \in Int
      BY <2>1
    <3>2. MinConclude \in Int
      BY ThresholdsAreOrdered
    <3> HIDE DEF c
    <3>3. c < MinConclude \/ c >= MinConclude
      BY <3>1, <3>2
    <3> QED BY <3>3 DEF c
  <2>3. Escalating'
    <3>1. ~Halted'
      BY <1>5 DEF TestHypothesis, Undecided, ModelNodes, Halted
    <3> QED BY <1>5, <2>2, <3>1
           DEF TestHypothesis, AfterTestHypothesis, Escalating
  <2>4. Undecided'
    BY <1>5 DEF TestHypothesis, AfterTestHypothesis, Undecided, ModelNodes, END
  <2> QED BY <1>1, <1>5, <2>3, <2>4
         DEF TestHypothesis, AfterTestHypothesis, Undecided, END
<1>6. CASE Conclude
  <2>1. Escalating' /\ Undecided'
    BY <1>6 DEF Conclude, Escalating, Undecided, ModelNodes, END
  <2>2. diagnosis'.halt_reason = "concluded"
    BY <1>6 DEF Conclude
  <2> QED BY <2>1, <2>2 DEF EscalationReasonIsTrue
<1>7. CASE Escalate
  <2>1. Escalating' /\ Undecided'
    BY <1>7 DEF Escalate, Escalating, Undecided, ModelNodes, END
  <2> QED BY <1>7, <2>1, EscalateTellsTheTruth
<1>8. CASE HaltNode
  <2>1. Escalating' /\ Undecided'
    BY <1>8 DEF HaltNode, AfterHalt, Escalating, Undecided, ModelNodes, END, NONE
  <2>2. diagnosis' = NoDiagnosis
    BY <1>8 DEF HaltNode, Undecided, ModelNodes, END
  <2> QED BY <1>1, <2>1, <2>2
<1>9. CASE RaiseOut
  <2>1. Escalating' /\ Undecided'
    BY <1>9 DEF RaiseOut, Escalating, Undecided, ModelNodes, END, RAISED
  <2>2. diagnosis' = NoDiagnosis
    BY <1>9 DEF RaiseOut, Undecided, ModelNodes, END
  <2> QED BY <1>1, <2>1, <2>2
<1>10. CASE UNCHANGED vars
  <2>1. Escalating'
    BY <1>10 DEF vars, Escalating, BudgetExhausted, IterationsRemaining,
                 ToolCallsRemaining, Confirmed, ComputedConfidence,
                 HypothesisTerm, EvidenceTerm, RefutationPenalty,
                 IndependentTools, SuccessfulEvidence, Refuted
  <2>2. Undecided'
    BY <1>10 DEF vars, Undecided
  <2>3. EscalationReasonIsTrue'
    BY <1>10 DEF vars, EscalationReasonIsTrue, BudgetExhausted,
                 IterationsRemaining, ToolCallsRemaining, Confirmed
  <2> QED BY <2>1, <2>2, <2>3
<1> QED
  BY <1>2, <1>3, <1>4, <1>5, <1>6, <1>7, <1>8, <1>9, <1>10 DEF Next

(* An escalated diagnosis never blames a budget that was not spent, and    *)
(* claims a low confidence only for a hypothesis that was confirmed.       *)
THEOREM EscalationsAreTrue == Spec => []EscalationReasonIsTrue
<1>1. Init => EscalationInv
  BY InitEscalation
<1>2. EscalationInv /\ [Next]_vars => EscalationInv'
  BY NextEscalation
<1>3. EscalationInv => EscalationReasonIsTrue
  BY DEF EscalationInv
<1> QED BY <1>1, <1>2, <1>3, PTL DEF Spec

-----------------------------------------------------------------------------
(* Conclusions.  A hypothesis stands at a gathering only if some earlier   *)
(* one was tested, because only a tested hypothesis sends the loop back.   *)

Tested == \E i \in DOMAIN steps : steps[i] = "test_hypothesis"

(* What holds when evidence is about to be gathered.                       *)
Gathering ==
  /\ node = "triage" => evidence = <<>> /\ hypotheses = <<>> /\ current = 0
  /\ node = "gather_evidence" =>
        ~Confirmed /\ (hypotheses # <<>> => Tested)

(* The three ways a conclusion is earned, of the state conclude runs in.   *)
OnSignature == evidence = <<>> /\ current = 0 /\ signature >= TriageShortcut

OnTest == Confirmed /\ ComputedConfidence >= MinConclude

OnExhaustion ==
  /\ evidence_exhausted /\ ~Confirmed
  /\ \E i, j \in DOMAIN steps :
        i < j /\ steps[i] = "test_hypothesis" /\ steps[j] = "gather_evidence"

Concluding == node = "conclude" => OnSignature \/ OnTest \/ OnExhaustion

ConclusionInv == EscalationInv /\ Gathering /\ Concluding /\ ConclusionIsEarned

LEMMA InitConclusion == Init => ConclusionInv
<1> SUFFICES ASSUME Init PROVE ConclusionInv
  OBVIOUS
<1>1. EscalationInv
  BY InitEscalation
<1>2. Gathering /\ Concluding
  BY DEF Init, Gathering, Concluding
<1>3. ConclusionIsEarned
  BY DEF Init, ConclusionIsEarned, NoDiagnosis, NONE
<1> QED BY <1>1, <1>2, <1>3 DEF ConclusionInv

(* A recorded node stays recorded, and the new one comes after it.         *)
LEMMA RecordStepKeeps ==
  ASSUME steps \in Seq(NodeNames), node \in NodeNames, RecordStep
  PROVE  /\ DOMAIN steps = 1 .. Len(steps)
         /\ DOMAIN steps' = 1 .. Len(steps) + 1
         /\ Len(steps) \in Nat
         /\ \A i \in DOMAIN steps : steps'[i] = steps[i]
         /\ steps'[Len(steps) + 1] = node
  BY AppendProperties, LenProperties DEF RecordStep

LEMMA NextGathering ==
  ASSUME ConclusionInv, [Next]_vars
  PROVE  Gathering'
<1> USE DEF ConclusionInv, Gathering
<1>1. steps \in Seq(NodeNames)
  BY DEF EscalationInv, BudgetInv, TypeOK
<1>2. CASE Triage
  BY <1>2 DEF Triage, AfterTriage, Confirmed
<1>3. CASE TestHypothesis
  <2>1. node' # "triage"
    BY <1>3 DEF TestHypothesis, AfterTestHypothesis
  <2>2. node' = "gather_evidence" => ~Confirmed'
    BY <1>3 DEF TestHypothesis, AfterTestHypothesis
  <2>3. Tested'
    <3>1. /\ DOMAIN steps' = 1 .. Len(steps) + 1
          /\ Len(steps) \in Nat
          /\ steps'[Len(steps) + 1] = "test_hypothesis"
      BY <1>1, <1>3, RecordStepKeeps DEF TestHypothesis, NodeNames, ModelNodes
    <3> QED BY <3>1 DEF Tested
  <2> QED BY <2>1, <2>2, <2>3
<1>4. CASE ~Triage /\ ~TestHypothesis /\ Next
  <2>1. node' \notin {"triage", "gather_evidence"}
    BY <1>4 DEF Next, GatherEvidence, AfterGatherEvidence, FormHypothesis,
         AfterFormHypothesis, Conclude, Escalate, HaltNode, AfterHalt,
         RaiseOut, END, RAISED
  <2> QED BY <2>1
<1>5. CASE UNCHANGED vars
  BY <1>5 DEF vars, Confirmed, Tested
<1> QED BY <1>2, <1>3, <1>4, <1>5

LEMMA NextConcluding ==
  ASSUME ConclusionInv, [Next]_vars
  PROVE  Concluding'
<1> USE DEF ConclusionInv, Concluding
<1>1. steps \in Seq(NodeNames)
  BY DEF EscalationInv, BudgetInv, TypeOK
<1>2. CASE Triage
  <2> SUFFICES ASSUME node' = "conclude" PROVE OnSignature'
    OBVIOUS
  <2>1. PICK agrees \in BOOLEAN, needs \in BOOLEAN :
           triage' = [confidence |-> TriageConfidence(agrees),
                      needs_investigation |-> needs \/ ~agrees]
    BY <1>2 DEF Triage
  <2>2. ~triage'.needs_investigation /\ triage'.confidence >= TriageShortcut
    BY <1>2 DEF Triage, AfterTriage
  <2>3. triage'.confidence = signature
    BY <2>1, <2>2 DEF TriageConfidence
  <2> QED BY <1>2, <2>2, <2>3 DEF Triage, Gathering, OnSignature
<1>3. CASE GatherEvidence
  <2> SUFFICES ASSUME node' = "conclude" PROVE OnExhaustion'
    OBVIOUS
  <2>1. evidence_exhausted' /\ hypotheses # <<>>
    BY <1>3 DEF GatherEvidence, AfterGatherEvidence
  <2>2. ~Confirmed' /\ Tested
    BY <1>3, <2>1 DEF GatherEvidence, Gathering, Confirmed
  <2>3. /\ DOMAIN steps = 1 .. Len(steps)
        /\ DOMAIN steps' = 1 .. Len(steps) + 1
        /\ Len(steps) \in Nat
        /\ \A i \in DOMAIN steps : steps'[i] = steps[i]
        /\ steps'[Len(steps) + 1] = "gather_evidence"
    BY <1>1, <1>3, RecordStepKeeps DEF GatherEvidence, NodeNames, ModelNodes
  <2>4. PICK i \in DOMAIN steps : steps[i] = "test_hypothesis"
    BY <2>2 DEF Tested
  <2>5. /\ i \in DOMAIN steps' /\ Len(steps) + 1 \in DOMAIN steps'
        /\ i < Len(steps) + 1 /\ steps'[i] = "test_hypothesis"
    BY <2>3, <2>4
  <2> QED BY <2>1, <2>2, <2>3, <2>5 DEF OnExhaustion
<1>4. CASE TestHypothesis
  BY <1>4 DEF TestHypothesis, AfterTestHypothesis, OnTest
<1>5. CASE FormHypothesis \/ Conclude \/ Escalate \/ HaltNode \/ RaiseOut
  <2>1. node' # "conclude"
    BY <1>5 DEF FormHypothesis, AfterFormHypothesis, Conclude, Escalate,
                HaltNode, AfterHalt, RaiseOut, END, RAISED
  <2> QED BY <2>1
<1>6. CASE UNCHANGED vars
  BY <1>6 DEF vars, OnSignature, OnTest, OnExhaustion, Confirmed,
              ComputedConfidence, HypothesisTerm, EvidenceTerm,
              RefutationPenalty, IndependentTools, SuccessfulEvidence, Refuted
<1> QED BY <1>2, <1>3, <1>4, <1>5, <1>6 DEF Next

(* Recording the conclusion does not disturb what earned it.               *)
LEMMA ConcludeKeeps ==
  ASSUME ConclusionInv, Conclude
  PROVE  ConclusionIsEarned'
<1>1. OnSignature \/ OnTest \/ OnExhaustion
  BY DEF ConclusionInv, Concluding, Conclude
<1>2. diagnosis'.confidence = ComputedConfidence
  BY DEF Conclude
<1>3. /\ DOMAIN steps = 1 .. Len(steps)
      /\ DOMAIN steps' = 1 .. Len(steps) + 1
      /\ Len(steps) \in Nat
      /\ \A i \in DOMAIN steps : steps'[i] = steps[i]
  <2>1. steps \in Seq(NodeNames)
    BY DEF ConclusionInv, EscalationInv, BudgetInv, TypeOK
  <2> QED BY <2>1, RecordStepKeeps DEF Conclude, NodeNames, ModelNodes
<1>4. CASE OnSignature
  BY <1>4 DEF OnSignature, Conclude, ConclusionIsEarned
<1>5. CASE OnTest
  BY <1>2, <1>5 DEF OnTest, Conclude, ConclusionIsEarned, Confirmed
<1>6. CASE OnExhaustion
  <2>1. evidence_exhausted' /\ ~Confirmed'
    BY <1>6 DEF OnExhaustion, Conclude, Confirmed
  <2>2. PICK i \in DOMAIN steps, j \in DOMAIN steps :
           i < j /\ steps[i] = "test_hypothesis" /\ steps[j] = "gather_evidence"
    BY <1>6 DEF OnExhaustion
  <2>3. /\ i \in DOMAIN steps' /\ j \in DOMAIN steps'
        /\ steps'[i] = "test_hypothesis" /\ steps'[j] = "gather_evidence"
    BY <1>3, <2>2
  <2> QED BY <2>1, <2>2, <2>3 DEF ConclusionIsEarned
<1> QED BY <1>1, <1>4, <1>5, <1>6

LEMMA NextConclusion == ConclusionInv /\ [Next]_vars => ConclusionInv'
<1> SUFFICES ASSUME ConclusionInv, [Next]_vars PROVE ConclusionIsEarned'
  BY NextEscalation, NextGathering, NextConcluding DEF ConclusionInv
<1>1. CASE Conclude
  BY <1>1, ConcludeKeeps
<1>2. CASE Escalate
  <2>1. HaltReasonForRoute # "concluded"
    BY <1>2 DEF Escalate, ConclusionInv, EscalationInv, Undecided, Halted,
                HaltReasonForRoute, ExhaustionReason, NONE
  <2> QED BY <1>2, <2>1 DEF Escalate, ConclusionIsEarned
<1>3. CASE Triage \/ GatherEvidence \/ FormHypothesis \/ TestHypothesis
             \/ HaltNode \/ RaiseOut
  <2>1. node \in ModelNodes
    BY <1>3 DEF Triage, GatherEvidence, FormHypothesis, TestHypothesis,
                HaltNode, RaiseOut, ModelNodes
  <2>2. diagnosis = NoDiagnosis
    BY <2>1 DEF ConclusionInv, EscalationInv, Undecided, ModelNodes, END
  <2>3. diagnosis' = NoDiagnosis
    BY <1>3, <2>2 DEF Triage, GatherEvidence, FormHypothesis, TestHypothesis,
                      HaltNode, RaiseOut
  <2> QED BY <2>3 DEF ConclusionIsEarned, NoDiagnosis, NONE
<1>4. CASE UNCHANGED vars
  BY <1>4 DEF vars, ConclusionInv, ConclusionIsEarned, Confirmed
<1> QED BY <1>1, <1>2, <1>3, <1>4 DEF Next

(* A conclusion is drawn on a decisive signature, on a hypothesis that     *)
(* survived its test above the bar, or when nothing more can be learned    *)
(* after a test: for any tools, budgets and thresholds.                    *)
THEOREM ConclusionsAreEarned == Spec => []ConclusionIsEarned
<1>1. Init => ConclusionInv
  BY InitConclusion
<1>2. ConclusionInv /\ [Next]_vars => ConclusionInv'
  BY NextConclusion
<1>3. ConclusionInv => ConclusionIsEarned
  BY DEF ConclusionInv
<1> QED BY <1>1, <1>2, <1>3, PTL DEF Spec

-----------------------------------------------------------------------------
(* Certainty.  The four terms of the confidence add up to exactly 10000,   *)
(* so the whole scale is reached only with every term at its largest and   *)
(* nothing subtracted.                                                     *)

LEMMA AFifthOfTheScale ==
  ASSUME NEW n \in Int, 0 <= n, n <= 10000
  PROVE  n \div 5 <= 2000 /\ (n \div 5 = 2000 => n = 10000)
  OBVIOUS

LEMMA EvidenceTermIsBounded ==
  ASSUME TypeOK
  PROVE  EvidenceTerm <= 3500 /\ (EvidenceTerm = 3500 => IndependentTools >= 4)
<1>1. IndependentTools \in Nat
  <2>1. SuccessfulEvidence \in SUBSET DOMAIN evidence
    BY DEF SuccessfulEvidence
  <2> QED BY <2>1, ToolsAreFinite DEF IndependentTools, TypeOK
<1> QED BY <1>1 DEF EvidenceTerm

LEMMA HypothesisTermIsBounded ==
  HypothesisTerm <= 3000 /\ (HypothesisTerm = 3000 => Confirmed)
  BY DEF HypothesisTerm, Confirmed

LEMMA RefutationsCost ==
  ASSUME TypeOK
  PROVE  RefutationPenalty >= 0 /\ (RefutationPenalty = 0 => Refuted = {})
<1>1. IsFiniteSet(Refuted)
  <2>1. IsFiniteSet(DOMAIN hypotheses)
    BY LenProperties, FS_Interval DEF TypeOK
  <2>2. Refuted \in SUBSET DOMAIN hypotheses
    BY DEF Refuted
  <2> QED BY <2>1, <2>2, FS_Subset
<1>2. Cardinality(Refuted) \in Nat
  BY <1>1, FS_CardinalityType
<1>3. Cardinality(Refuted) = 0 => Refuted = {}
  BY <1>1, FS_EmptySet
<1> QED BY <1>2, <1>3 DEF RefutationPenalty

(* A certain confidence leaves no term below its largest value.            *)
LEMMA CertaintyTakesEverything ==
  ASSUME TypeOK, ComputedConfidence = 10000
  PROVE  /\ signature = 10000
         /\ Confirmed /\ Refuted = {}
         /\ IndependentTools >= 4
<1> DEFINE f == signature \div 5
           h == HypothesisTerm
           e == EvidenceTerm
           p == RefutationPenalty
           total == 1500 + f + h + e - p
<1>1. signature \in 0 .. 10000
  BY StrengthOnScale
<1>2. f <= 2000 /\ (f = 2000 => signature = 10000)
  <2>1. signature \in Int /\ 0 <= signature /\ signature <= 10000
    BY <1>1
  <2> QED BY <2>1, AFifthOfTheScale
<1>3. h <= 3000 /\ (h = 3000 => Confirmed)
  BY HypothesisTermIsBounded
<1>4. e <= 3500 /\ (e = 3500 => IndependentTools >= 4)
  BY EvidenceTermIsBounded
<1>5. p >= 0 /\ (p = 0 => Refuted = {})
  BY RefutationsCost
<1>6. f \in Int /\ h \in Int /\ e \in Int /\ p \in Int
  <2>1. IndependentTools \in Nat
    <3>1. SuccessfulEvidence \in SUBSET DOMAIN evidence
      BY DEF SuccessfulEvidence
    <3> QED BY <3>1, ToolsAreFinite DEF IndependentTools, TypeOK
  <2>2. Cardinality(Refuted) \in Nat
    <3>1. IsFiniteSet(DOMAIN hypotheses)
      BY LenProperties, FS_Interval DEF TypeOK
    <3>2. Refuted \in SUBSET DOMAIN hypotheses
      BY DEF Refuted
    <3> QED BY <3>1, <3>2, FS_Subset, FS_CardinalityType
  <2>3. signature \in Int
    BY <1>1
  <2>4. f \in Int
    BY <2>3, FifthType
  <2>5. h \in Int
    BY DEF HypothesisTerm
  <2>6. e \in Int
    BY <2>1 DEF EvidenceTerm
  <2>7. p \in Int
    BY <2>2 DEF RefutationPenalty
  <2> QED BY <2>4, <2>5, <2>6, <2>7
<1>7. ComputedConfidence = IF total < 0 THEN 0
                           ELSE IF total > 10000 THEN 10000 ELSE total
  BY DEF ComputedConfidence
<1> HIDE DEF f, h, e, p
<1>8. total >= 10000
  BY <1>6, <1>7
<1>9. f = 2000 /\ h = 3000 /\ e = 3500 /\ p = 0
  BY <1>2, <1>3, <1>4, <1>5, <1>6, <1>8
<1> QED BY <1>2, <1>3, <1>4, <1>5, <1>9

(* Without a diagnosis nothing claims certainty.                           *)
LEMMA NoDiagnosisNoCertainty == diagnosis = NoDiagnosis => CertaintyIsEarned
  BY DEF NoDiagnosis, CertaintyIsEarned

CertaintyInv == EscalationInv /\ CertaintyIsEarned

LEMMA NextCertainty == CertaintyInv /\ [Next]_vars => CertaintyInv'
<1> SUFFICES ASSUME CertaintyInv, [Next]_vars PROVE CertaintyIsEarned'
  BY NextEscalation DEF CertaintyInv
<1>1. TypeOK /\ Undecided
  BY DEF CertaintyInv, EscalationInv, BudgetInv
<1>2. (diagnosis = NoDiagnosis => CertaintyIsEarned)'
  BY NoDiagnosisNoCertainty, PTL
<1>3. CASE Conclude \/ Escalate
  <2>1. /\ diagnosis'.confidence = ComputedConfidence
        /\ UNCHANGED <<signature, evidence, hypotheses, current>>
    BY <1>3 DEF Conclude, Escalate
  <2>2. ComputedConfidence = 10000 =>
          /\ signature = 10000
          /\ Confirmed /\ Refuted = {}
          /\ Cardinality({evidence[i].tool : i \in SuccessfulEvidence}) >= 4
    BY <1>1, CertaintyTakesEverything DEF IndependentTools
  <2> QED BY <2>1, <2>2
         DEF CertaintyIsEarned, Confirmed, Refuted, SuccessfulEvidence
<1>4. CASE Triage \/ GatherEvidence \/ FormHypothesis \/ TestHypothesis
  <2>1. diagnosis' = NoDiagnosis
    BY <1>1, <1>4 DEF Triage, GatherEvidence, FormHypothesis, TestHypothesis,
                      Undecided, END
  <2> QED BY <1>2, <2>1
<1>5. CASE HaltNode \/ RaiseOut
  <2>1. diagnosis' = NoDiagnosis
    BY <1>1, <1>5 DEF HaltNode, RaiseOut, Undecided, ModelNodes, END
  <2> QED BY <1>2, <2>1
<1>6. CASE UNCHANGED vars
  BY <1>6 DEF vars, CertaintyInv, CertaintyIsEarned, Confirmed, Refuted,
              SuccessfulEvidence
<1> QED BY <1>3, <1>4, <1>5, <1>6 DEF Next

(* Whatever the tools and the models answer, a diagnosis is never certain  *)
(* without a decisive signature, a hypothesis that survived its test, no   *)
(* hypothesis refuted on the way and four different tools that answered.   *)
THEOREM CertaintiesAreEarned == Spec => []CertaintyIsEarned
<1>1. Init => CertaintyInv
  BY InitEscalation, NoDiagnosisNoCertainty DEF Init, CertaintyInv
<1>2. CertaintyInv /\ [Next]_vars => CertaintyInv'
  BY NextCertainty
<1>3. CertaintyInv => CertaintyIsEarned
  BY DEF CertaintyInv
<1> QED BY <1>1, <1>2, <1>3, PTL DEF Spec

-----------------------------------------------------------------------------
(* The record.  Evidence only grows, and the one node that writes to a     *)
(* hypothesis writes to the last one formed, which nothing has judged yet. *)

Testing ==
  node = "test_hypothesis" =>
    current # 0 /\ hypotheses[current].outcome = "untested"

RecordInv == TypeOK /\ Testing

(* What is appended to a sequence leaves it a prefix, and leaves every     *)
(* position of it as it was.                                               *)
LEMMA AppendedIsPrefix ==
  ASSUME NEW S, NEW s \in Seq(S), NEW t \in Seq(S)
  PROVE  /\ s \o t \in Seq(S)
         /\ IsPrefix(s, s \o t)
         /\ \A i \in DOMAIN s : (s \o t)[i] = s[i]
<1>1. /\ s \o t \in Seq(S)
      /\ Len(s \o t) = Len(s) + Len(t)
      /\ \A i \in 1 .. Len(s) : (s \o t)[i] = s[i]
  BY ConcatProperties
<1>2. DOMAIN s = 1 .. Len(s) /\ Len(s) \in Nat /\ Len(t) \in Nat
  BY LenProperties
<1>3. SubSeq(s, 1, Len(s)) = SubSeq(s \o t, 1, Len(s))
  BY <1>1, <1>2
<1> QED BY <1>1, <1>2, <1>3 DEF IsPrefix

LEMMA SameIsPrefix == ASSUME NEW S, NEW s \in Seq(S) PROVE IsPrefix(s, s)
  BY LenProperties DEF IsPrefix

(* One round of hypotheses ends with the first of it under test, untested. *)
LEMMA FormsUntested ==
  ASSUME TypeOK, FormHypothesis
  PROVE  /\ current' # 0 => hypotheses'[current'].outcome = "untested"
         /\ \A h \in DOMAIN hypotheses : hypotheses'[h] = hypotheses[h]
<1>1. PICK tests \in BoundedSeq(Tools \cup UnknownTools, MaxHypotheses) :
        /\ hypotheses' = hypotheses \o
             [i \in 1 .. Len(tests) |->
                [test_tool |-> tests[i], outcome |-> "untested"]]
        /\ current' = Leading(tests)
  BY DEF FormHypothesis
<1> DEFINE new == [i \in 1 .. Len(tests) |->
                     [test_tool |-> tests[i], outcome |-> "untested"]]
<1>2. tests \in Seq(Tools \cup UnknownTools) /\ Len(tests) \in Nat
  BY BoundedSeqType, BudgetsArePositive
<1>3. hypotheses \in Seq(Hypotheses)
  BY DEF TypeOK
<1>4. new \in Seq(Hypotheses) /\ Len(new) = Len(tests)
  BY <1>2 DEF Hypotheses, HypothesisOutcomes
<1>5. \A h \in DOMAIN hypotheses : (hypotheses \o new)[h] = hypotheses[h]
  BY <1>3, <1>4, AppendedIsPrefix
<1>6. ASSUME current' # 0
      PROVE  hypotheses'[current'].outcome = "untested"
  <2>1. tests # <<>> /\ current' = Len(hypotheses) + 1
    BY <1>1, <1>6 DEF Leading
  <2>2. Len(tests) >= 1
    BY <1>2, <2>1, EmptySeq
  <2>3. (hypotheses \o new)[Len(hypotheses) + 1] = new[1]
    BY <1>3, <1>4, <2>2, ConcatProperties, LenProperties
  <2>4. new[1].outcome = "untested"
    BY <1>2, <2>2
  <2> QED BY <1>1, <2>1, <2>3, <2>4
<1> QED BY <1>1, <1>5, <1>6

LEMMA NextRecord == RecordInv /\ [Next]_vars => RecordInv'
<1> SUFFICES ASSUME RecordInv, [Next]_vars PROVE Testing'
  BY NextTypeOK DEF RecordInv
<1>1. CASE FormHypothesis
  <2>1. TypeOK
    BY DEF RecordInv
  <2>2. node' = "test_hypothesis" => current' # 0
    BY <1>1 DEF FormHypothesis, AfterFormHypothesis
  <2> QED BY <1>1, <2>1, <2>2, FormsUntested DEF Testing
<1>2. CASE Triage \/ GatherEvidence \/ TestHypothesis
  <2>1. node' # "test_hypothesis"
    BY <1>2 DEF Triage, GatherEvidence, TestHypothesis, AfterTriage,
                AfterGatherEvidence, AfterTestHypothesis
  <2> QED BY <2>1 DEF Testing
<1>3. CASE Conclude \/ Escalate \/ HaltNode \/ RaiseOut
  <2>1. node' # "test_hypothesis"
    BY <1>3 DEF Conclude, Escalate, HaltNode, AfterHalt, RaiseOut, END, RAISED
  <2> QED BY <2>1 DEF Testing
<1>4. CASE UNCHANGED vars
  BY <1>4 DEF vars, RecordInv, Testing
<1> QED BY <1>1, <1>2, <1>3, <1>4 DEF Next

(* What one step may do to the record.                                     *)
Kept ==
  /\ IsPrefix(evidence, evidence')
  /\ \A h \in DOMAIN hypotheses :
        hypotheses[h].outcome # "untested" => hypotheses'[h] = hypotheses[h]

LEMMA StepKeepsRecord == RecordInv /\ [Next]_vars => Kept
<1> SUFFICES ASSUME RecordInv, [Next]_vars PROVE Kept
  OBVIOUS
<1>1. /\ evidence \in Seq(Observations) /\ evidence' \in Seq(Observations)
      /\ hypotheses \in Seq(Hypotheses)
  BY NextTypeOK DEF RecordInv, TypeOK
<1>2. IsPrefix(evidence, evidence)
  BY <1>1, SameIsPrefix
<1>3. CASE GatherEvidence
  <2>1. PICK gathered \in BoundedSeq(Observations, CallsAllowed) :
          evidence' = evidence \o gathered
    BY <1>3 DEF GatherEvidence
  <2>2. CallsAllowed \in Nat
    BY BudgetsArePositive
       DEF CallsAllowed, ToolCallsRemaining, RecordInv, TypeOK
  <2>3. gathered \in Seq(Observations)
    BY <2>2, BoundedSeqType
  <2>4. IsPrefix(evidence, evidence')
    BY <1>1, <2>1, <2>3, AppendedIsPrefix
  <2>5. hypotheses' = hypotheses
    BY <1>3 DEF GatherEvidence
  <2> QED BY <2>4, <2>5 DEF Kept
<1>4. CASE FormHypothesis
  <2>1. evidence' = evidence
    BY <1>4 DEF FormHypothesis
  <2>2. \A h \in DOMAIN hypotheses : hypotheses'[h] = hypotheses[h]
    BY <1>4, FormsUntested DEF RecordInv
  <2> QED BY <1>2, <2>1, <2>2 DEF Kept
<1>5. CASE TestHypothesis
  <2>1. IsPrefix(evidence, evidence')
    <3>1. CASE RunsTest
      <4>1. PICK o \in Observations : evidence' = Append(evidence, o)
        BY <1>5, <3>1 DEF TestHypothesis
      <4>2. <<o>> \in Seq(Observations) /\ evidence' = evidence \o <<o>>
        BY <1>1, <4>1, AppendIsConcat
      <4> QED BY <1>1, <4>2, AppendedIsPrefix
    <3>2. CASE ~RunsTest
      BY <1>2, <1>5, <3>2 DEF TestHypothesis
    <3> QED BY <3>1, <3>2
  <2>2. PICK outcome \in HypothesisOutcomes :
          hypotheses' = [hypotheses EXCEPT ![current].outcome = outcome]
    BY <1>5 DEF TestHypothesis
  <2>3. hypotheses[current].outcome = "untested"
    BY <1>5 DEF TestHypothesis, RecordInv, Testing
  <2>4. \A h \in DOMAIN hypotheses : h # current => hypotheses'[h] = hypotheses[h]
    BY <2>2
  <2> QED BY <2>1, <2>3, <2>4 DEF Kept
<1>6. CASE Triage \/ Conclude \/ Escalate \/ HaltNode \/ RaiseOut
           \/ UNCHANGED vars
  <2>1. evidence' = evidence /\ hypotheses' = hypotheses
    BY <1>6 DEF Triage, Conclude, Escalate, HaltNode, RaiseOut, vars
  <2> QED BY <1>2, <2>1 DEF Kept
<1> QED BY <1>3, <1>4, <1>5, <1>6 DEF Next

(* A verdict is final and evidence is never rewritten, in every step of    *)
(* every investigation: test_hypothesis only ever judges a hypothesis      *)
(* formed by the node before it.                                           *)
THEOREM RecordOnlyGrows == Spec => RecordIsAppendOnly
<1>1. Init => RecordInv
  BY InitTypeOK DEF Init, RecordInv, Testing
<1>2. RecordInv /\ [Next]_vars => RecordInv'
  BY NextRecord
<1>3. RecordInv /\ [Next]_vars =>
        [/\ IsPrefix(evidence, evidence')
         /\ \A h \in DOMAIN hypotheses :
               hypotheses[h].outcome # "untested" =>
                 hypotheses'[h] = hypotheses[h]]_vars
  BY StepKeepsRecord DEF Kept
<1> QED BY <1>1, <1>2, <1>3, PTL DEF Spec, RecordIsAppendOnly


=============================================================================
