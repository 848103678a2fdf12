------------------------------- MODULE Toolbox -------------------------------
(***************************************************************************)
(* How a tool call of an investigation comes by its arguments, and what is *)
(* left of it in the evidence (src/dag_doctor/graph: toolbox.py,           *)
(* arguments.py, the loops of nodes/gather_evidence.py and                 *)
(* nodes/test_hypothesis.py).  InvestigationGraph takes a round of calls   *)
(* for one step and a fingerprint for a value; here a round is taken apart *)
(* call by call, and a fingerprint is a set of named arguments.            *)
(*                                                                         *)
(* Of an argument only its name matters and where its value comes from:    *)
(* the incident (Fact), the model (Values), or a model that left it empty  *)
(* (Blank, a null or an empty string).                                     *)
(***************************************************************************)
EXTENDS Integers, Sequences, FiniteSets

CONSTANTS
  Tools,          \* the toolbox
  UnknownTools,   \* names a model may ask for that it does not hold
  Known,          \* tool_context(): arguments the incident settles
  Declares,       \* of every tool, the fields of its input model
  Required,       \* and those without a default
  Defaulted,      \* fields whose default is a value; the others may be null
  Values, Fact, Blank,
  MaxIterations,  \* BudgetSettings.max_iterations
  MaxToolCalls,   \* BudgetSettings.max_tool_calls
  CallsPerRound   \* MAX_CALLS_PER_ITERATION

ASSUME ToolsAreDeclared ==
  /\ Tools \cap UnknownTools = {}
  /\ DOMAIN Declares = Tools /\ DOMAIN Required = Tools
  /\ \A t \in Tools : Required[t] \subseteq Declares[t] \ Defaulted

ASSUME ValuesAreToldApart == Fact \notin Values /\ Blank \notin Values /\ Fact # Blank

ASSUME BudgetsArePositive ==
  MaxIterations \in Nat \ {0} /\ MaxToolCalls \in Nat \ {0} /\ CallsPerRound \in Nat \ {0}

VARIABLES
  at,                  \* "plan", "calls", "form" or "done"
  asked,               \* calls of this round's plan that are dealt with
  already,             \* calls whose answer is known
  gathered,            \* observations of this round
  evidence,
  iteration, tool_calls_made,
  evidence_exhausted

vars == <<at, asked, already, gathered, evidence, iteration, tool_calls_made,
          evidence_exhausted>>

-----------------------------------------------------------------------------
(* Arguments: functions from the names given to their values *)

Names == Tools \cup UnknownTools

Fields == UNION {Declares[t] : t \in Tools}

Arguments == UNION {[S -> Values \cup {Fact, Blank}] : S \in SUBSET Fields}

NoArguments == [f \in {} |-> Fact]

(* _fields_left_to_choose *)
Choices_AsksForAll(t) == Declares[t]

Choices(t) == Declares[t] \ Known

(* What the choice model accepts from the language model: every field has  *)
(* a value, its default's where it has one.                                *)
Answers(t) ==
  {a \in [Choices(t) -> Values \cup {Blank}] :
     \A f \in Choices(t) \cap Defaulted : a[f] # Blank}

(* ArgumentResolver.resolve; no arguments when the model fails.            *)
Resolved(t) ==
  IF t \in UnknownTools THEN {NoArguments}
  ELSE IF Choices(t) = {} THEN {NoArguments}
  ELSE {NoArguments} \cup Answers(t)

(* Toolbox.arguments_for: what was left empty goes, what the incident      *)
(* settles and the tool declares comes in.                                 *)
Final(t, a) ==
  IF t \in UnknownTools THEN a
  ELSE LET supplied == {f \in DOMAIN a : a[f] # Blank}
       IN  [f \in supplied \cup (Declares[t] \cap Known) |->
              IF f \in supplied THEN a[f] ELSE Fact]

-----------------------------------------------------------------------------
(* Observations *)

(* BaseTool.run validates first.                                           *)
Fits(t, a) ==
  /\ Required[t] \subseteq DOMAIN a /\ DOMAIN a \subseteq Declares[t]
  /\ \A f \in DOMAIN a : a[f] # Blank

(* ToolStatus; "failed" is every status of a call that was executed and    *)
(* has no data.                                                            *)
Statuses == {"ok", "failed", "invalid_input", "unknown_tool"}

Outcomes(t, a) ==
  IF t \in UnknownTools THEN {"unknown_tool"}
  ELSE IF Fits(t, a) THEN {"ok", "failed"} ELSE {"invalid_input"}

Observations ==
  [tool : Names, tool_input : Arguments, status : Statuses,
   node : {"gather_evidence", "test_hypothesis"}]

(* Toolbox.run: always one observation.                                    *)
Observed(t, a, node) ==
  {[tool |-> t, tool_input |-> a, status |-> s, node |-> node] : s \in Outcomes(t, a)}

Signature(o) == <<o.tool, o.tool_input>>

SignaturesIn(log) == {Signature(log[i]) : i \in DOMAIN log}

-----------------------------------------------------------------------------
Init ==
  /\ at = "plan" /\ asked = 0 /\ already = {}
  /\ gathered = <<>> /\ evidence = <<>>
  /\ iteration = 0 /\ tool_calls_made = 0
  /\ evidence_exhausted = FALSE

Remaining == MaxToolCalls - tool_calls_made

Allowed == IF Remaining < CallsPerRound THEN Remaining ELSE CallsPerRound

(* GatherEvidenceNode: a plan.  Its calls are named one at a time below:   *)
(* nothing reads ahead in it.                                              *)
Plan_ForgetsTests ==
  /\ at = "plan"
  /\ at' = "calls" /\ asked' = 0 /\ gathered' = <<>>
  /\ UNCHANGED <<already, evidence, iteration, tool_calls_made, evidence_exhausted>>

Plan ==
  /\ at = "plan"
  /\ already' = SignaturesIn(evidence)
  /\ at' = "calls" /\ asked' = 0 /\ gathered' = <<>>
  /\ UNCHANGED <<evidence, iteration, tool_calls_made, evidence_exhausted>>

(* One planned call.                                                       *)
CallTool(t, a) ==
  /\ at = "calls" /\ asked < Allowed
  /\ asked' = asked + 1
  /\ IF <<t, Final(t, a)>> \in already
       THEN UNCHANGED <<already, gathered>>
       ELSE /\ already' = already \cup {<<t, Final(t, a)>>}
            /\ \E o \in Observed(t, Final(t, a), "gather_evidence") :
                  gathered' = Append(gathered, o)
  /\ UNCHANGED <<at, evidence, iteration, tool_calls_made, evidence_exhausted>>

(* The round's update, and the edge after it.  A hypothesis was formed     *)
(* exactly if this is not the first round.                                 *)
Exhausts_AskedNothing == asked = 0

Exhausts == gathered = <<>>

EndRound ==
  /\ at = "calls"
  /\ evidence' = evidence \o gathered
  /\ tool_calls_made' = tool_calls_made + Len(gathered)
  /\ iteration' = iteration + 1
  /\ evidence_exhausted' = Exhausts
  /\ at' = IF iteration' = MaxIterations \/ tool_calls_made' = MaxToolCalls
             THEN "done"
           ELSE IF Exhausts /\ iteration > 0 THEN "done" ELSE "form"
  /\ UNCHANGED <<asked, already, gathered>>

(* FormHypothesisNode proposed a test, and TestHypothesisNode runs it:     *)
(* nothing proposed carries test_arguments, so they are resolved.  What    *)
(* follows depends on the verdict; one that confirms, and one the model    *)
(* fails to give, end it.  The latter loses the observation.               *)
TestHypothesis(t, a) ==
  /\ at = "form"
  /\ \/ /\ \E o \in Observed(t, Final(t, a), "test_hypothesis") :
              evidence' = Append(evidence, o)
        /\ tool_calls_made' = tool_calls_made + 1
        /\ \/ at' = "done"
           \/ at' = "plan" /\ tool_calls_made' < MaxToolCalls
     \/ at' = "done" /\ UNCHANGED <<evidence, tool_calls_made>>
  /\ UNCHANGED <<asked, already, gathered, iteration, evidence_exhausted>>

(* No plan, or no hypothesis: escalated.                                   *)
GiveUp ==
  /\ at \in {"plan", "form"}
  /\ at' = "done"
  /\ UNCHANGED <<asked, already, gathered, evidence, iteration, tool_calls_made,
                 evidence_exhausted>>

Next ==
  \/ Plan \/ EndRound \/ GiveUp
  \/ \E t \in Names : \E a \in Resolved(t) : CallTool(t, a) \/ TestHypothesis(t, a)

Spec == Init /\ [][Next]_vars

-----------------------------------------------------------------------------
(* Properties *)

TypeOK ==
  /\ at \in {"plan", "calls", "form", "done"}
  /\ asked \in 0 .. CallsPerRound
  /\ already \subseteq Names \X Arguments
  /\ gathered \in Seq(Observations) /\ evidence \in Seq(Observations)
  /\ iteration \in 0 .. MaxIterations /\ tool_calls_made \in 0 .. MaxToolCalls
  /\ evidence_exhausted \in BOOLEAN

(* The evidence as it will be when the round under way ends.               *)
Log == IF at = "calls" THEN evidence \o gathered ELSE evidence

(* Gathering never asks what the evidence answers, whoever asked it first  *)
(* and in whichever round: of two equal calls the later one was a test     *)
(* (the skip in GatherEvidenceNode.run).                                   *)
SettledStaysSettled ==
  \A i, j \in DOMAIN Log :
     i < j /\ Signature(Log[i]) = Signature(Log[j]) => Log[j].node = "test_hypothesis"

(* Every call a tool was given is about the incident: what the incident    *)
(* settles is never missing, never empty and never the model's choice, and *)
(* a tool that does not exist is asked nothing (Toolbox._with_context,     *)
(* _fields_left_to_choose).                                                *)
CallsAreAboutTheIncident ==
  \A i \in DOMAIN Log :
     IF Log[i].tool \in Tools
       THEN \A f \in Declares[Log[i].tool] \cap Known :
              f \in DOMAIN Log[i].tool_input /\ Log[i].tool_input[f] = Fact
       ELSE Log[i].tool_input = NoArguments

(* A tool rejects its arguments only for want of one that nobody but the   *)
(* model could choose: a null for an argument with a default is no reason, *)
(* and neither is a fact the tool has no use for (ToolInput forbids what   *)
(* it does not declare).                                                   *)
RejectionIsTheModels ==
  \A i \in DOMAIN Log :
     Log[i].status = "invalid_input" =>
       \E f \in Required[Log[i].tool] \ Known : f \notin DOMAIN Log[i].tool_input

Gathered == {i \in DOMAIN evidence : evidence[i].node = "gather_evidence"}

(* The loop does not turn in place: while it goes on, every round but the  *)
(* first has added something (evidence_exhausted).                         *)
RoundsLearn ==
  at \in {"form", "plan"} /\ iteration > 0 => Cardinality(Gathered) >= iteration - 1
=============================================================================
