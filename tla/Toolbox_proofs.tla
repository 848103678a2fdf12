---------------------------- MODULE Toolbox_proofs ----------------------------
(***************************************************************************)
(* Proofs about Toolbox, for any toolbox, any fields and any budgets.      *)
(*                                                                         *)
(* The evidence grows by one observation at a time (LogGrows), of a call   *)
(* whose arguments come from Resolved and Final; what those two yield is   *)
(* stated by the lemmas before it.                                         *)
(***************************************************************************)
EXTENDS Toolbox, FiniteSetTheorems, TLAPS

-----------------------------------------------------------------------------
(* Arguments *)

(* What the incident settles is never asked of the model.                  *)
LEMMA NothingKnownIsAsked ==
  ASSUME NEW t \in Tools, NEW a \in Resolved(t)
  PROVE  /\ DOMAIN a \subseteq Declares[t] \ Known
         /\ \A f \in DOMAIN a : a[f] \in Values \cup {Fact, Blank}
         /\ \A f \in DOMAIN a : a[f] # Fact
<1>1. t \notin UnknownTools BY ToolsAreDeclared
<1>2. a = NoArguments \/ a \in [Choices(t) -> Values \cup {Blank}]
  BY <1>1 DEF Resolved, Answers
<1>3. CASE a = NoArguments
  BY <1>3 DEF NoArguments
<1>4. CASE a \in [Choices(t) -> Values \cup {Blank}]
  <2>1. DOMAIN a = Declares[t] \ Known BY <1>4 DEF Choices
  <2>2. \A f \in DOMAIN a : a[f] \in Values \cup {Blank} BY <1>4
  <2> QED BY <2>1, <2>2, ValuesAreToldApart
<1> QED BY <1>2, <1>3, <1>4

(* The arguments a tool is given: everything the incident settles, filled  *)
(* in, and what the model chose of the rest.                               *)
LEMMA GivenArguments ==
  ASSUME NEW t \in Tools, NEW a \in Resolved(t)
  PROVE  /\ Final(t, a) \in Arguments
         /\ DOMAIN Final(t, a) \subseteq Declares[t]
         /\ Declares[t] \cap Known \subseteq DOMAIN Final(t, a)
         /\ \A f \in Declares[t] \cap Known : Final(t, a)[f] = Fact
         /\ \A f \in DOMAIN Final(t, a) : Final(t, a)[f] # Blank
<1> DEFINE supplied == {f \in DOMAIN a : a[f] # Blank}
           named == supplied \cup (Declares[t] \cap Known)
           given == [f \in named |-> IF f \in supplied THEN a[f] ELSE Fact]
<1>1. Final(t, a) = given
  BY ToolsAreDeclared DEF Final
<1>2. /\ supplied \subseteq Declares[t] \ Known
      /\ \A f \in supplied : a[f] \in Values \cup {Fact} /\ a[f] # Blank
  BY NothingKnownIsAsked
<1>3. DOMAIN given = named /\ named \subseteq Declares[t]
  BY <1>2
<1>4. \A f \in named : given[f] \in Values \cup {Fact, Blank} /\ given[f] # Blank
  BY <1>2, ValuesAreToldApart
<1>5. given \in Arguments
  <2>1. named \in SUBSET Fields BY <1>3 DEF Fields
  <2>2. given \in [named -> Values \cup {Fact, Blank}] BY <1>4
  <2> QED BY <2>1, <2>2 DEF Arguments
<1>6. \A f \in Declares[t] \cap Known : f \in named /\ given[f] = Fact
  BY <1>2
<1> HIDE DEF given
<1> QED BY <1>1, <1>3, <1>4, <1>5, <1>6

(* A name that is no tool is asked nothing.                                *)
LEMMA UnknownArguments ==
  ASSUME NEW t \in UnknownTools, NEW a \in Resolved(t)
  PROVE  Final(t, a) = NoArguments /\ Final(t, a) \in Arguments
<1>1. a = NoArguments BY DEF Resolved
<1>2. NoArguments \in [{} -> Values \cup {Fact, Blank}] BY DEF NoArguments
<1>3. {} \in SUBSET Fields OBVIOUS
<1>4. NoArguments \in Arguments BY <1>2, <1>3 DEF Arguments
<1> QED BY <1>1, <1>4 DEF Final

-----------------------------------------------------------------------------
(* Observations *)

(* What every observation of a call shows.                                 *)
IsSound(o) ==
  /\ IF o.tool \in Tools
       THEN \A f \in Declares[o.tool] \cap Known :
              f \in DOMAIN o.tool_input /\ o.tool_input[f] = Fact
       ELSE o.tool_input = NoArguments
  /\ o.status = "invalid_input" =>
       \E f \in Required[o.tool] \ Known : f \notin DOMAIN o.tool_input

LEMMA ObservationsAreSound ==
  ASSUME NEW t \in Names, NEW a \in Resolved(t),
         NEW node \in {"gather_evidence", "test_hypothesis"},
         NEW o \in Observed(t, Final(t, a), node)
  PROVE  /\ o \in Observations /\ IsSound(o)
         /\ o.tool = t /\ o.tool_input = Final(t, a) /\ o.node = node
<1>1. PICK s \in Outcomes(t, Final(t, a)) :
        o = [tool |-> t, tool_input |-> Final(t, a), status |-> s, node |-> node]
  BY DEF Observed
<1>2. s \in Statuses BY DEF Outcomes, Statuses
<1>3. CASE t \in UnknownTools
  <2>1. Final(t, a) = NoArguments /\ Final(t, a) \in Arguments BY <1>3, UnknownArguments
  <2>2. s = "unknown_tool" /\ t \notin Tools BY <1>3, ToolsAreDeclared DEF Outcomes
  <2>3. o \in Observations BY <1>1, <1>2, <2>1 DEF Observations
  <2> QED BY <1>1, <2>1, <2>2, <2>3 DEF IsSound
<1>4. CASE t \in Tools
  <2>1. /\ Final(t, a) \in Arguments
        /\ DOMAIN Final(t, a) \subseteq Declares[t]
        /\ Declares[t] \cap Known \subseteq DOMAIN Final(t, a)
        /\ \A f \in Declares[t] \cap Known : Final(t, a)[f] = Fact
        /\ \A f \in DOMAIN Final(t, a) : Final(t, a)[f] # Blank
    BY <1>4, GivenArguments
  <2>2. o \in Observations BY <1>1, <1>2, <2>1 DEF Observations
  <2>3. ASSUME s = "invalid_input"
        PROVE  \E f \in Required[t] \ Known : f \notin DOMAIN Final(t, a)
    <3>1. ~ Fits(t, Final(t, a)) BY <2>3, <1>4, ToolsAreDeclared DEF Outcomes
    <3>2. ~ Required[t] \subseteq DOMAIN Final(t, a) BY <3>1, <2>1 DEF Fits
    <3>3. PICK f \in Required[t] : f \notin DOMAIN Final(t, a) BY <3>2
    <3>4. f \in Declares[t] BY <1>4, ToolsAreDeclared
    <3> QED BY <3>3, <3>4, <2>1
  <2> QED BY <1>1, <1>4, <2>1, <2>2, <2>3 DEF IsSound
<1> QED BY <1>3, <1>4 DEF Names

LEMMA LogType == TypeOK => Log \in Seq(Observations)
BY DEF TypeOK, Log

-----------------------------------------------------------------------------
(* The round under way *)

(* What the code's locals and counters keep of a round: already holds the  *)
(* calls of the log, no call is planned above the allowance, and a loop    *)
(* that goes on has budget left.                                           *)
RoundInv ==
  /\ at = "calls" =>
       /\ SignaturesIn(Log) \subseteq already
       /\ Len(gathered) <= asked /\ asked <= Allowed
       /\ \A i \in DOMAIN gathered : gathered[i].node = "gather_evidence"
  /\ at # "done" => iteration < MaxIterations /\ tool_calls_made < MaxToolCalls

IInv == TypeOK /\ RoundInv

LEMMA InitIInv == Init => IInv
<1> SUFFICES ASSUME Init PROVE TypeOK /\ RoundInv
  BY DEF IInv
<1>1. <<>> \in Seq(Observations)
  OBVIOUS
<1>2. /\ asked \in 0 .. CallsPerRound /\ iteration \in 0 .. MaxIterations
      /\ tool_calls_made \in 0 .. MaxToolCalls
  BY BudgetsArePositive DEF Init
<1>3. TypeOK
  BY <1>1, <1>2 DEF Init, TypeOK
<1>4. RoundInv
  BY BudgetsArePositive DEF Init, RoundInv
<1> QED BY <1>3, <1>4

LEMMA AllowedType ==
  TypeOK => Allowed \in Nat /\ Allowed <= CallsPerRound /\ Allowed <= Remaining
BY BudgetsArePositive DEF TypeOK, Allowed, Remaining

(* A planned call is skipped, or it adds one observation of a call the log *)
(* does not have.                                                          *)
LEMMA CallGrows ==
  ASSUME IInv, NEW t \in Names, NEW a \in Resolved(t), CallTool(t, a)
  PROVE  \/ UNCHANGED <<gathered, already>>
         \/ \E o \in Observed(t, Final(t, a), "gather_evidence") :
              /\ gathered' = Append(gathered, o)
              /\ already' = already \cup {Signature(o)}
              /\ Signature(o) \notin already
<1>1. CASE <<t, Final(t, a)>> \in already
  BY <1>1 DEF CallTool
<1>2. CASE <<t, Final(t, a)>> \notin already
  <2>1. PICK o \in Observed(t, Final(t, a), "gather_evidence") :
          gathered' = Append(gathered, o)
    BY <1>2 DEF CallTool
  <2>2. Signature(o) = <<t, Final(t, a)>>
    BY ObservationsAreSound DEF Signature
  <2>3. already' = already \cup {<<t, Final(t, a)>>}
    BY <1>2 DEF CallTool
  <2> QED BY <1>2, <2>1, <2>2, <2>3
<1> QED BY <1>1, <1>2

(* How the log grows: not at all, or by one sound observation that is new  *)
(* to it or a test's.                                                      *)
Grows ==
  \/ Log' = Log
  \/ \E o \in Observations :
       /\ Log' = Append(Log, o) /\ IsSound(o)
       /\ o.node = "test_hypothesis" \/ Signature(o) \notin SignaturesIn(Log)

LEMMA LogGrows == IInv /\ [Next]_vars => Grows
<1> SUFFICES ASSUME IInv, [Next]_vars PROVE Grows
  OBVIOUS
<1> USE DEF IInv
<1>0. evidence \in Seq(Observations) /\ gathered \in Seq(Observations)
  BY DEF TypeOK
<1>1. CASE Plan
  <2>1. Log' = evidence \o <<>> /\ Log = evidence BY <1>1 DEF Plan, Log
  <2> QED BY <1>0, <2>1 DEF Grows
<1>2. CASE EndRound
  BY <1>2 DEF EndRound, Log, Grows
<1>3. CASE GiveUp
  BY <1>3 DEF GiveUp, Log, Grows
<1>4. ASSUME NEW t \in Names, NEW a \in Resolved(t), CallTool(t, a)
      PROVE  Grows
  <2>1. at = "calls" /\ at' = "calls" /\ evidence' = evidence BY <1>4 DEF CallTool
  <2>2. CASE gathered' = gathered
    BY <2>1, <2>2 DEF Log, Grows
  <2>3. CASE gathered' # gathered
    <3>1. PICK o \in Observed(t, Final(t, a), "gather_evidence") :
            gathered' = Append(gathered, o) /\ Signature(o) \notin already
      BY <1>4, <2>3, CallGrows
    <3>2. o \in Observations /\ IsSound(o) BY ObservationsAreSound
    <3>3. evidence \o Append(gathered, o) = Append(evidence \o gathered, o)
      BY <1>0, <3>2
    <3>4. Log' = Append(Log, o) BY <2>1, <3>1, <3>3 DEF Log
    <3>5. Signature(o) \notin SignaturesIn(Log) BY <2>1, <3>1 DEF RoundInv
    <3> QED BY <3>2, <3>4, <3>5 DEF Grows
  <2> QED BY <2>2, <2>3
<1>5. ASSUME NEW t \in Names, NEW a \in Resolved(t), TestHypothesis(t, a)
      PROVE  Grows
  <2>1. at = "form" /\ at' # "calls" BY <1>5 DEF TestHypothesis
  <2>2. CASE evidence' = evidence
    BY <2>1, <2>2 DEF Log, Grows
  <2>3. CASE evidence' # evidence
    <3>1. PICK o \in Observed(t, Final(t, a), "test_hypothesis") :
            evidence' = Append(evidence, o)
      BY <1>5, <2>3 DEF TestHypothesis
    <3>2. o \in Observations /\ IsSound(o) /\ o.node = "test_hypothesis"
      BY ObservationsAreSound
    <3> QED BY <2>1, <3>1, <3>2 DEF Log, Grows
  <2> QED BY <2>2, <2>3
<1>6. CASE UNCHANGED vars
  BY <1>6 DEF vars, Log, Grows
<1> QED BY <1>1, <1>2, <1>3, <1>4, <1>5, <1>6 DEF Next

LEMMA StepIInv == IInv /\ [Next]_vars => IInv'
<1> SUFFICES ASSUME IInv, [Next]_vars PROVE IInv'
  OBVIOUS
<1> USE DEF IInv
<1>0. /\ evidence \in Seq(Observations) /\ gathered \in Seq(Observations)
      /\ iteration \in Nat /\ tool_calls_made \in Nat /\ asked \in Nat
      /\ Len(gathered) \in Nat
  BY DEF TypeOK
<1>1. CASE Plan
  <2>1. TypeOK'
    <3>1. \A i \in DOMAIN evidence : Signature(evidence[i]) \in Names \X Arguments
      <4>1. ASSUME NEW i \in DOMAIN evidence PROVE evidence[i] \in Observations
        BY <1>0
      <4>2. ASSUME NEW o \in Observations PROVE Signature(o) \in Names \X Arguments
        <5>1. o.tool \in Names /\ o.tool_input \in Arguments BY DEF Observations
        <5> QED BY <5>1 DEF Signature
      <4> QED BY <4>1, <4>2
    <3>2. already' \subseteq Names \X Arguments
      BY <1>1, <3>1 DEF Plan, SignaturesIn
    <3>3. gathered' \in Seq(Observations) BY <1>1 DEF Plan
    <3>4. asked' \in 0 .. CallsPerRound BY <1>1, BudgetsArePositive DEF Plan
    <3> QED BY <1>1, <3>2, <3>3, <3>4 DEF Plan, TypeOK
  <2>2. Log' = evidence \o <<>> BY <1>1 DEF Plan, Log
  <2>3. Log' = evidence BY <1>0, <2>2
  <2>4. SignaturesIn(Log)' = SignaturesIn(evidence) BY <2>3 DEF SignaturesIn, Signature
  <2>5. 0 <= Allowed' BY <2>1, AllowedType, BudgetsArePositive, <1>0, <1>1
                          DEF Plan, Allowed, Remaining, TypeOK
  <2>6. RoundInv' BY <1>1, <2>4, <2>5 DEF Plan, RoundInv
  <2> QED BY <2>1, <2>6
<1>2. CASE EndRound
  <2>1. at = "calls" /\ Len(gathered) <= Remaining
    <3>1. at = "calls" BY <1>2 DEF EndRound
    <3>2. Len(gathered) <= asked /\ asked <= Allowed BY <3>1 DEF RoundInv
    <3>3. Allowed \in Nat /\ Allowed <= Remaining BY AllowedType
    <3>4. Remaining \in Int BY <1>0, BudgetsArePositive DEF Remaining
    <3> QED BY <1>0, <3>1, <3>2, <3>3, <3>4
  <2>2. tool_calls_made + Len(gathered) <= MaxToolCalls
    BY <1>0, <2>1, BudgetsArePositive DEF Remaining
  <2>3. iteration + 1 <= MaxIterations
    BY <1>0, <2>1, BudgetsArePositive DEF RoundInv
  <2>4. TypeOK'
    <3>1. evidence' \in Seq(Observations) BY <1>0, <1>2 DEF EndRound
    <3>2. at' \in {"plan", "calls", "form", "done"} BY <1>2 DEF EndRound
    <3>3. tool_calls_made' \in 0 .. MaxToolCalls /\ iteration' \in 0 .. MaxIterations
      BY <1>0, <1>2, <2>2, <2>3, BudgetsArePositive DEF EndRound
    <3>4. evidence_exhausted' \in BOOLEAN BY <1>2 DEF EndRound, Exhausts
    <3> QED BY <1>2, <3>1, <3>2, <3>3, <3>4 DEF EndRound, TypeOK
  <2>5. at' # "done" => iteration' # MaxIterations /\ tool_calls_made' # MaxToolCalls
    BY <1>2 DEF EndRound
  <2>6. at' # "calls" BY <1>2 DEF EndRound
  <2>7. RoundInv'
    BY <2>4, <2>5, <2>6, BudgetsArePositive DEF RoundInv, TypeOK
  <2> QED BY <2>4, <2>7
<1>3. CASE GiveUp
  BY <1>3 DEF GiveUp, TypeOK, RoundInv
<1>4. ASSUME NEW t \in Names, NEW a \in Resolved(t), CallTool(t, a)
      PROVE  IInv'
  <2>1. /\ at = "calls" /\ at' = "calls" /\ asked < Allowed /\ asked' = asked + 1
        /\ UNCHANGED <<evidence, iteration, tool_calls_made, evidence_exhausted>>
    BY <1>4 DEF CallTool
  <2>2. Allowed' = Allowed BY <2>1 DEF Allowed, Remaining
  <2>3. asked' \in 0 .. CallsPerRound /\ asked' <= Allowed'
    BY <1>0, <2>1, <2>2, AllowedType, BudgetsArePositive
  <2>4. CASE UNCHANGED <<gathered, already>>
    <3>1. TypeOK' BY <2>1, <2>3, <2>4 DEF TypeOK
    <3>2. Log' = Log BY <2>1, <2>4 DEF Log
    <3>3. SignaturesIn(Log)' = SignaturesIn(Log) BY <3>2 DEF SignaturesIn, Signature
    <3>4. RoundInv' BY <1>0, <2>1, <2>3, <2>4, <3>3 DEF RoundInv
    <3> QED BY <3>1, <3>4
  <2>5. CASE ~ UNCHANGED <<gathered, already>>
    <3>1. PICK o \in Observed(t, Final(t, a), "gather_evidence") :
            gathered' = Append(gathered, o) /\ already' = already \cup {Signature(o)}
      BY <1>4, <2>5, CallGrows
    <3>2. o \in Observations /\ o.node = "gather_evidence" BY ObservationsAreSound
    <3>3. gathered' \in Seq(Observations) BY <1>0, <3>1, <3>2
    <3>4. Signature(o) \in Names \X Arguments BY <3>2 DEF Signature, Observations
    <3>5. TypeOK' BY <2>1, <2>3, <3>1, <3>3, <3>4 DEF TypeOK
    <3>6. Len(gathered') = Len(gathered) + 1 BY <1>0, <3>1, <3>2
    <3>7. \A i \in DOMAIN gathered' : gathered'[i].node = "gather_evidence"
      <4>1. \A i \in DOMAIN gathered' :
              gathered'[i] = IF i \in DOMAIN gathered THEN gathered[i] ELSE o
        BY <1>0, <3>1, <3>2
      <4> QED BY <2>1, <3>2, <4>1 DEF RoundInv
    <3>8. Log' = Append(Log, o)
      <4>1. evidence \o Append(gathered, o) = Append(evidence \o gathered, o)
        BY <1>0, <3>2
      <4> QED BY <2>1, <3>1, <4>1 DEF Log
    <3>9. SignaturesIn(Log') \subseteq already'
      <4>1. Log \in Seq(Observations) BY LogType
      <4>2. \A i \in DOMAIN Log' : Log'[i] = IF i \in DOMAIN Log THEN Log[i] ELSE o
        BY <3>2, <3>8, <4>1
      <4>3. SignaturesIn(Log) \subseteq already BY <2>1 DEF RoundInv
      <4> QED BY <3>1, <4>2, <4>3 DEF SignaturesIn
    <3>10. SignaturesIn(Log)' = SignaturesIn(Log') BY DEF SignaturesIn, Signature
    <3>11. RoundInv'
      BY <1>0, <2>1, <2>3, <3>6, <3>7, <3>9, <3>10 DEF RoundInv
    <3> QED BY <3>5, <3>11
  <2> QED BY <2>4, <2>5
<1>5. ASSUME NEW t \in Names, NEW a \in Resolved(t), TestHypothesis(t, a)
      PROVE  IInv'
  <2>1. /\ at = "form" /\ at' \in {"plan", "done"}
        /\ UNCHANGED <<asked, already, gathered, iteration, evidence_exhausted>>
    BY <1>5 DEF TestHypothesis
  <2>2. evidence' \in Seq(Observations)
    <3>1. CASE evidence' = evidence BY <1>0, <3>1
    <3>2. CASE evidence' # evidence
      <4>1. PICK o \in Observed(t, Final(t, a), "test_hypothesis") :
              evidence' = Append(evidence, o)
        BY <1>5, <3>2 DEF TestHypothesis
      <4>2. o \in Observations BY ObservationsAreSound
      <4> QED BY <1>0, <4>1, <4>2
    <3> QED BY <3>1, <3>2
  <2>3. /\ tool_calls_made' \in 0 .. MaxToolCalls
        /\ at' = "plan" => tool_calls_made' < MaxToolCalls
    BY <1>0, <1>5, <2>1, BudgetsArePositive DEF TestHypothesis, RoundInv, TypeOK
  <2>4. TypeOK' BY <2>1, <2>2, <2>3 DEF TypeOK
  <2>5. RoundInv' BY <2>1, <2>3 DEF RoundInv
  <2> QED BY <2>4, <2>5
<1>6. CASE UNCHANGED vars
  BY <1>6 DEF vars, TypeOK, RoundInv, Log, SignaturesIn, Signature, Allowed, Remaining
<1> QED BY <1>1, <1>2, <1>3, <1>4, <1>5, <1>6 DEF Next

(* Every variable keeps its type, and with it both budgets are kept.       *)
THEOREM TypeCorrect == Spec => []TypeOK
<1>1. IInv => TypeOK BY DEF IInv
<1> QED BY <1>1, InitIInv, StepIInv, PTL DEF Spec

-----------------------------------------------------------------------------
(* What the log shows *)

(* Gathering never repeats a call of the log, whoever made it.             *)
THEOREM SettledQuestions == Spec => []SettledStaysSettled
<1>1. Init => SettledStaysSettled
  BY DEF Init, SettledStaysSettled, Log
<1>2. IInv /\ SettledStaysSettled /\ [Next]_vars => SettledStaysSettled'
  <2> SUFFICES ASSUME IInv, SettledStaysSettled, Grows PROVE SettledStaysSettled'
    BY LogGrows
  <2>1. CASE Log' = Log
    BY <2>1 DEF SettledStaysSettled, Signature
  <2>2. ASSUME NEW o \in Observations, Log' = Append(Log, o),
               o.node = "test_hypothesis" \/ Signature(o) \notin SignaturesIn(Log)
        PROVE  SettledStaysSettled'
    <3>1. Log \in Seq(Observations) BY LogType DEF IInv
    <3>2. /\ DOMAIN Log' = 1 .. Len(Log) + 1 /\ DOMAIN Log = 1 .. Len(Log)
          /\ Len(Log) \in Nat
          /\ \A i \in DOMAIN Log : Log'[i] = Log[i]
          /\ Log'[Len(Log) + 1] = o
      BY <2>2, <3>1
    <3>3. ASSUME NEW i \in DOMAIN Log', NEW j \in DOMAIN Log', i < j,
                 Signature(Log'[i]) = Signature(Log'[j])
          PROVE  Log'[j].node = "test_hypothesis"
      <4>1. i \in DOMAIN Log /\ Log'[i] = Log[i] BY <3>2, <3>3
      <4>2. CASE j \in DOMAIN Log
        BY <3>2, <3>3, <4>1, <4>2 DEF SettledStaysSettled
      <4>3. CASE j \notin DOMAIN Log
        <5>1. Log'[j] = o BY <3>2, <4>3
        <5>2. Signature(o) \in SignaturesIn(Log) BY <3>3, <4>1, <5>1 DEF SignaturesIn
        <5> QED BY <2>2, <5>1, <5>2
      <4> QED BY <4>2, <4>3
    <3> QED BY <3>3 DEF SettledStaysSettled, Signature
  <2> QED BY <2>1, <2>2 DEF Grows
<1> QED BY <1>1, <1>2, InitIInv, StepIInv, PTL DEF Spec

AllSound == \A i \in DOMAIN Log : IsSound(Log[i])

LEMMA LogIsSound == Spec => []AllSound
<1>1. Init => AllSound
  BY DEF Init, AllSound, Log
<1>2. IInv /\ AllSound /\ [Next]_vars => AllSound'
  <2> SUFFICES ASSUME IInv, AllSound, Grows PROVE AllSound'
    BY LogGrows
  <2>1. CASE Log' = Log
    BY <2>1 DEF AllSound, IsSound
  <2>2. ASSUME NEW o \in Observations, Log' = Append(Log, o), IsSound(o)
        PROVE  AllSound'
    <3>1. Log \in Seq(Observations) BY LogType DEF IInv
    <3>2. \A i \in DOMAIN Log' : Log'[i] = IF i \in DOMAIN Log THEN Log[i] ELSE o
      BY <2>2, <3>1
    <3>3. \A i \in DOMAIN Log' : IsSound(Log'[i]) BY <2>2, <3>2 DEF AllSound
    <3> QED BY <3>3 DEF AllSound, IsSound
  <2> QED BY <2>1, <2>2 DEF Grows
<1> QED BY <1>1, <1>2, InitIInv, StepIInv, PTL DEF Spec

(* No call is about another incident, whatever the model answers.          *)
THEOREM CallsStayOnTheIncident == Spec => []CallsAreAboutTheIncident
<1>1. AllSound => CallsAreAboutTheIncident
  BY DEF AllSound, IsSound, CallsAreAboutTheIncident
<1> QED BY <1>1, LogIsSound, PTL

(* A rejected call lacked a choice that only the model could make.         *)
THEOREM RejectionsAreEarned == Spec => []RejectionIsTheModels
<1>1. AllSound => RejectionIsTheModels
  BY DEF AllSound, IsSound, RejectionIsTheModels
<1> QED BY <1>1, LogIsSound, PTL

-----------------------------------------------------------------------------
(* Rounds *)

(* A log that keeps its first part keeps what was gathered in it.          *)
LEMMA GatheredGrows ==
  ASSUME NEW log \in Seq(Observations), NEW tail \in Seq(Observations),
         evidence = log, evidence' = log \o tail
  PROVE  /\ IsFiniteSet(Gathered) /\ IsFiniteSet(Gathered')
         /\ Gathered \subseteq Gathered'
         /\ tail # <<>> /\ tail[1].node = "gather_evidence" =>
              Len(log) + 1 \in Gathered' \ Gathered
<1>1. /\ DOMAIN log = 1 .. Len(log) /\ DOMAIN (log \o tail) = 1 .. Len(log) + Len(tail)
      /\ Len(log) \in Nat /\ Len(tail) \in Nat
      /\ \A i \in DOMAIN log : (log \o tail)[i] = log[i]
  OBVIOUS
<1>2. IsFiniteSet(1 .. Len(log)) /\ IsFiniteSet(1 .. Len(log) + Len(tail))
  BY <1>1, FS_Interval
<1>3. Gathered \subseteq 1 .. Len(log) /\ Gathered' \subseteq 1 .. Len(log) + Len(tail)
  BY <1>1 DEF Gathered
<1>4. IsFiniteSet(Gathered) /\ IsFiniteSet(Gathered')
  BY <1>2, <1>3, FS_Subset
<1>5. Gathered \subseteq Gathered'
  BY <1>1 DEF Gathered
<1>6. ASSUME tail # <<>>, tail[1].node = "gather_evidence"
      PROVE  Len(log) + 1 \in Gathered' \ Gathered
  <2>1. Len(tail) >= 1 /\ (log \o tail)[Len(log) + 1] = tail[1]
    BY <1>6
  <2>2. Len(log) + 1 \in DOMAIN (log \o tail) /\ Len(log) + 1 \notin DOMAIN log
    BY <1>1, <2>1
  <2> QED BY <1>6, <2>1, <2>2 DEF Gathered
<1> QED BY <1>4, <1>5, <1>6

(* RoundsLearn, in the middle of a round too.                              *)
Learns ==
  at # "done" /\ iteration > 0 => Cardinality(Gathered) >= iteration - 1

LEMMA LearnsUnchanged ==
  ASSUME IInv, NEW tail \in Seq(Observations), evidence' = evidence \o tail
  PROVE  /\ Cardinality(Gathered) \in Nat /\ Cardinality(Gathered') \in Nat
         /\ Cardinality(Gathered') >= Cardinality(Gathered)
         /\ tail # <<>> /\ tail[1].node = "gather_evidence" =>
              Cardinality(Gathered') >= Cardinality(Gathered) + 1
<1>0. evidence \in Seq(Observations)
  BY DEF IInv, TypeOK
<1>1. /\ IsFiniteSet(Gathered) /\ IsFiniteSet(Gathered') /\ Gathered \subseteq Gathered'
      /\ tail # <<>> /\ tail[1].node = "gather_evidence" =>
           Len(evidence) + 1 \in Gathered' \ Gathered
  BY <1>0, GatheredGrows
<1>2. /\ Cardinality(Gathered) \in Nat /\ Cardinality(Gathered') \in Nat
      /\ Cardinality(Gathered') >= Cardinality(Gathered)
  BY <1>1, FS_CardinalityType, FS_Subset
<1>3. ASSUME Gathered # Gathered'
      PROVE  Cardinality(Gathered') >= Cardinality(Gathered) + 1
  <2>1. Cardinality(Gathered') # Cardinality(Gathered)
    BY <1>1, <1>3, FS_Subset
  <2> QED BY <1>2, <2>1
<1> QED BY <1>1, <1>2, <1>3

(* As long as the loop goes on, every round but the first added something. *)
THEOREM RoundsKeepLearning == Spec => []RoundsLearn
<1>1. Init => Learns
  BY DEF Init, Learns
<1>2. IInv /\ Learns /\ [Next]_vars => Learns'
  <2> SUFFICES ASSUME IInv, Learns, [Next]_vars PROVE Learns'
    OBVIOUS
  <2>0. /\ evidence \in Seq(Observations) /\ gathered \in Seq(Observations)
        /\ iteration \in Nat
    BY DEF IInv, TypeOK
  <2>1. ASSUME UNCHANGED <<evidence, iteration>>, at' # "done" => at # "done"
        PROVE  Learns'
    BY <2>1 DEF Learns, Gathered
  <2>2. CASE Plan
    BY <2>1, <2>2 DEF Plan
  <2>3. CASE EndRound
    <3>1. /\ at = "calls" /\ evidence' = evidence \o gathered
          /\ iteration' = iteration + 1
      BY <2>3 DEF EndRound
    <3>2. CASE gathered = <<>>
      <4>1. at' # "done" => iteration = 0
        BY <2>0, <2>3, <3>2 DEF EndRound, Exhausts
      <4>2. Cardinality(Gathered') \in Nat BY <2>0, <3>1, LearnsUnchanged
      <4> QED BY <2>0, <3>1, <4>1, <4>2 DEF Learns
    <3>3. CASE gathered # <<>>
      <4>1. 1 \in DOMAIN gathered BY <2>0, <3>3
      <4>2. gathered[1].node = "gather_evidence" BY <3>1, <4>1 DEF IInv, RoundInv
      <4>3. /\ Cardinality(Gathered) \in Nat /\ Cardinality(Gathered') \in Nat
            /\ Cardinality(Gathered') >= Cardinality(Gathered) + 1
        BY <2>0, <3>1, <3>3, <4>2, LearnsUnchanged
      <4> QED BY <2>0, <3>1, <4>3 DEF Learns
    <3> QED BY <3>2, <3>3
  <2>4. CASE GiveUp
    BY <2>4 DEF GiveUp, Learns
  <2>5. ASSUME NEW t \in Names, NEW a \in Resolved(t), CallTool(t, a)
        PROVE  Learns'
    BY <2>1, <2>5 DEF CallTool
  <2>6. ASSUME NEW t \in Names, NEW a \in Resolved(t), TestHypothesis(t, a)
        PROVE  Learns'
    <3>1. at = "form" /\ iteration' = iteration BY <2>6 DEF TestHypothesis
    <3>2. CASE evidence' = evidence
      BY <2>1, <3>1, <3>2
    <3>3. CASE evidence' # evidence
      <4>1. PICK o \in Observed(t, Final(t, a), "test_hypothesis") :
              evidence' = Append(evidence, o)
        BY <2>6, <3>3 DEF TestHypothesis
      <4>2. o \in Observations BY ObservationsAreSound
      <4>3. <<o>> \in Seq(Observations) /\ evidence' = evidence \o <<o>>
        BY <2>0, <4>1, <4>2
      <4>4. /\ Cardinality(Gathered) \in Nat /\ Cardinality(Gathered') \in Nat
            /\ Cardinality(Gathered') >= Cardinality(Gathered)
        BY <4>3, LearnsUnchanged
      <4> QED BY <2>0, <3>1, <4>4 DEF Learns
    <3> QED BY <3>2, <3>3
  <2>7. CASE UNCHANGED vars
    BY <2>1, <2>7 DEF vars
  <2> QED BY <2>2, <2>3, <2>4, <2>5, <2>6, <2>7 DEF Next
<1>3. Learns => RoundsLearn
  BY DEF Learns, RoundsLearn
<1> QED BY <1>1, <1>2, <1>3, InitIInv, StepIInv, PTL DEF Spec
=============================================================================
