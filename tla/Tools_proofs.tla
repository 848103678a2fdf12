---------------------------- MODULE Tools_proofs ----------------------------
(***************************************************************************)
(* Proofs about the two tools whose answers are worked out rather than     *)
(* looked up: AirflowMetadata, for every DAG, every mapping of tasks and   *)
(* any number of clearings, and TableBaseline, for every set of columns    *)
(* and types, any number of calls and any number of migrations.  They have *)
(* no variable in common, and each keeps to a specification of its own.    *)
(***************************************************************************)
EXTENDS AirflowMetadata, TableBaseline, FiniteSetTheorems, SequenceTheorems,
        WellFoundedInduction, TLAPS

-----------------------------------------------------------------------------
(* Lemmas about the DAG and its rows *)

LEMMA AncestorsAreClosed ==
  ASSUME NEW t \in Tasks
  PROVE  IsClosedAbove(t, Ancestors(t))
<1>1. Parents(t) \subseteq Ancestors(t)
  BY DEF Parents, Ancestors, IsClosedAbove
<1>2. ASSUME NEW u \in Ancestors(t), NEW p \in Parents(u)
      PROVE  p \in Ancestors(t)
  <2>1. p \in Tasks
    BY DEF Parents
  <2>2. ASSUME NEW S \in SUBSET Tasks, IsClosedAbove(t, S)
        PROVE  p \in S
    <3>1. u \in S
      BY <2>2 DEF Ancestors
    <3> QED BY <2>2, <3>1 DEF IsClosedAbove
  <2> QED BY <2>1, <2>2 DEF Ancestors
<1> QED BY <1>1, <1>2 DEF IsClosedAbove

LEMMA AncestorsAreLeast ==
  ASSUME NEW t \in Tasks, NEW S \in SUBSET Tasks, IsClosedAbove(t, S)
  PROVE  Ancestors(t) \subseteq S
  BY DEF Ancestors

(* What is above a task's parent is above the task.                        *)
LEMMA ParentsAreAncestors ==
  ASSUME NEW t \in Tasks, NEW p \in Parents(t)
  PROVE  /\ p \in Ancestors(t)
         /\ Ancestors(p) \subseteq Ancestors(t)
<1>1. p \in Ancestors(t) /\ p \in Tasks
  BY AncestorsAreClosed DEF IsClosedAbove, Ancestors
<1>2. IsClosedAbove(p, Ancestors(t))
  BY <1>1, AncestorsAreClosed DEF IsClosedAbove
<1>3. Ancestors(t) \in SUBSET Tasks
  BY DEF Ancestors
<1> QED BY <1>1, <1>2, <1>3, AncestorsAreLeast

LEMMA UnmappedRow ==
  ASSUME NEW t \in Tasks \ Mapped
  PROVE  <<t, 1>> \in Rows /\ RowsOf(t) = {<<t, 1>>}
<1>1. 1 \in 1 .. MapLength
  BY DagIsKnown
<1>2. <<t, 1>> \in Rows
  BY <1>1 DEF Rows
<1>3. ASSUME NEW r \in RowsOf(t) PROVE r = <<t, 1>>
  <2>1. PICK u \in Tasks, i \in 1 .. MapLength : r = <<u, i>> /\ (i = 1 \/ u \in Mapped)
    BY <1>3 DEF RowsOf, Rows
  <2> QED BY <2>1 DEF RowsOf
<1>4. <<t, 1>> \in RowsOf(t)
  BY <1>2 DEF RowsOf
<1> QED BY <1>2, <1>3, <1>4

(* Of rows that ended there is a first.                                    *)
LEMMA FirstEnd ==
  ASSUME NEW S \in SUBSET Rows, S # {}, ended \in [Rows -> Nat]
  PROVE  \E r \in S : \A q \in S : ended[r] <= ended[q]
<1> DEFINE T == {ended[r] : r \in S}
<1>1. T \subseteq Nat /\ T # {}
  OBVIOUS
<1>2. PICK n \in T : \A m \in T : ~ (<<m, n>> \in OpToRel(<, Nat))
  BY <1>1, NatLessThanWellFounded, WFMin
<1>3. PICK r \in S : ended[r] = n
  BY <1>2
<1>4. ASSUME NEW q \in S PROVE ended[r] <= ended[q]
  <2>1. ended[q] \in Nat /\ n \in Nat
    BY <1>1
  <2>2. ~ (<<ended[q], n>> \in OpToRel(<, Nat))
    BY <1>2
  <2>3. ~ (ended[q] < n)
    BY <2>1, <2>2 DEF OpToRel
  <2> QED BY <1>3, <2>1, <2>3
<1> QED BY <1>4

(* The task that failed first, of the rows that were kept.                 *)
LEMMA EarliestIsFirst ==
  ASSUME NEW kept \in SUBSET Rows, ended \in [Rows -> Nat]
  PROVE  \/ /\ Earliest(kept) = NoTask
            /\ \A q \in kept : state[q] # "failed"
         \/ \E r \in kept : /\ Earliest(kept) = r[1] /\ state[r] = "failed"
                            /\ \A q \in kept : state[q] = "failed" => ended[r] <= ended[q]
<1> DEFINE genuine == {r \in kept : state[r] = "failed"}
<1>1. CASE genuine = {}
  BY <1>1 DEF Earliest
<1>2. CASE genuine # {}
  <2> DEFINE first == CHOOSE r \in genuine : \A q \in genuine : ended[r] <= ended[q]
  <2>1. \E r \in genuine : \A q \in genuine : ended[r] <= ended[q]
    BY <1>2, FirstEnd
  <2>2. first \in genuine /\ \A q \in genuine : ended[first] <= ended[q]
    BY <2>1
  <2>3. Earliest(kept) = first[1]
    BY <1>2 DEF Earliest
  <2> HIDE DEF first
  <2> QED BY <2>2, <2>3
<1> QED BY <1>1, <1>2

-----------------------------------------------------------------------------
(* Types *)

LEMMA AboveType ==
  ASSUME NEW t PROVE Above(t) \in SUBSET Tasks
  BY DEF Above, Parents

LEMMA EarliestType ==
  ASSUME NEW kept \in SUBSET Rows, ended \in [Rows -> Nat]
  PROVE  Earliest(kept) \in Tasks \cup {NoTask}
<1>1. \A r \in Rows : r[1] \in Tasks
  BY DEF Rows
<1> QED BY <1>1, EarliestIsFirst

LEMMA UpstreamStateType ==
  ASSUME NEW kept \in SUBSET Rows, ended \in [Rows -> Nat]
  PROVE  UpstreamState(kept) \in UpstreamStates
<1> DEFINE failed == {r[1] : r \in {q \in kept : state[q] \in Unsuccessful}}
<1>1. failed \in SUBSET Tasks
  BY DEF Rows
<1>2. (failed = {}) \in BOOLEAN
  OBVIOUS
<1>3. Earliest(kept) \in Tasks \cup {NoTask}
  BY EarliestType
<1> DEFINE root == Earliest(kept)
           clean == failed = {}
<1>4. UpstreamState(kept) =
        [tool |-> "upstream", failed_upstream |-> failed,
         root_failure |-> root, all_upstream_succeeded |-> clean]
  BY DEF UpstreamState
<1>5. root \in Tasks \cup {NoTask} /\ clean \in BOOLEAN
  BY <1>2, <1>3
<1> HIDE DEF failed, root, clean
<1> QED BY <1>1, <1>4, <1>5 DEF UpstreamStates

(* A streak of failures has a length: the failures before the first row    *)
(* that is none.                                                           *)
LEMMA StreakIsCounted ==
  ASSUME NEW rows \in Seq(RowStates)
  PROVE  /\ Consecutive(rows) \in 0 .. Len(rows)
         /\ \A i \in 1 .. Consecutive(rows) : rows[i] = "failed"
<1> DEFINE Other == {n \in 0 .. Len(rows) : n < Len(rows) => rows[n + 1] # "failed"}
<1>1. Len(rows) \in Nat
  OBVIOUS
<1>2. Other \subseteq Nat /\ Len(rows) \in Other
  BY <1>1
<1>3. PICK n \in Other : \A m \in Other : ~ (<<m, n>> \in OpToRel(<, Nat))
  BY <1>2, NatLessThanWellFounded, WFMin
<1>4. \A m \in Other : ~ (m < n)
  BY <1>2, <1>3 DEF OpToRel
<1>5. n \in 0 .. Len(rows) /\ (n < Len(rows) => rows[n + 1] # "failed")
  OBVIOUS
<1>6. ASSUME NEW i \in 1 .. n PROVE rows[i] = "failed"
  <2>1. i - 1 \in 0 .. Len(rows) /\ i - 1 < n /\ i - 1 < Len(rows)
    BY <1>1, <1>5
  <2>2. i - 1 \notin Other
    BY <1>4, <2>1
  <2>3. (i - 1) + 1 = i
    OBVIOUS
  <2> QED BY <2>1, <2>2, <2>3
<1>7. \E k \in 0 .. Len(rows) : /\ \A i \in 1 .. k : rows[i] = "failed"
                                /\ k < Len(rows) => rows[k + 1] # "failed"
  BY <1>5, <1>6
<1> QED BY <1>7 DEF Consecutive

LEMMA StreakIsANumber ==
  ASSUME NEW rows \in Seq(RowStates)
  PROVE  Consecutive(rows) \in Nat
  BY StreakIsCounted

LEMMA HistoryType ==
  ASSUME NEW rows \in Seq(RowStates)
  PROVE  History(rows) \in DagRunHistories
<1> DEFINE n == Consecutive(rows)
           new == IsNewFailure(rows)
<1>1. n \in Nat
  BY StreakIsANumber
<1>2. new \in BOOLEAN
  BY DEF IsNewFailure
<1>3. History(rows) = [tool |-> "history", runs |-> rows,
                       consecutive_failures |-> n, is_new_failure |-> new]
  BY DEF History
<1> HIDE DEF n, new
<1> QED BY <1>1, <1>2, <1>3 DEF DagRunHistories

LEMMA InitTypeOK == Init => TypeOK
<1> SUFFICES ASSUME Init PROVE TypeOK
  OBVIOUS
<1>1. state \in [Rows -> RowStates] /\ ended \in [Rows -> Nat]
  BY DEF Init, RowStates
<1>2. clears \in 0 .. MaxClears
  BY DagIsKnown DEF Init
<1>3. clock \in Nat /\ reported \in BOOLEAN
  BY DEF Init
<1> QED BY <1>1, <1>2, <1>3 DEF Init, TypeOK

(* An end leaves a typed state behind.                                     *)
LEMMA EndsType ==
  ASSUME TypeOK, NEW r \in Rows, NEW s \in Finished, Ends(r, s)
  PROVE  TypeOK'
<1>1. state' \in [Rows -> RowStates]
  BY DEF Ends, TypeOK, RowStates
<1>2. clock + 1 \in Nat
  BY DEF TypeOK
<1>3. ended' \in [Rows -> Nat]
  BY <1>2 DEF Ends, TypeOK
<1>4. reported' \in BOOLEAN
  BY DEF Ends, TypeOK
<1> QED BY <1>1, <1>2, <1>3, <1>4 DEF Ends, TypeOK, UpstreamStates, DagRunHistories

(* What get_dag_run_history answers is the history of rows it read.        *)
LEMMA HistoryOfRows ==
  ASSUME TypeOK, ReadHistory, at' # "failed"
  PROVE  \E rows \in Seq(RowStates) : answer' = History(rows)
<1>1. PICK past \in Histories, limit \in Limits,
           order \in [1 .. Cardinality(RowsOf(Failing)) -> RowsOf(Failing)] :
         LET rows == [i \in DOMAIN order |-> state[order[i]]] \o past
         IN  /\ ~ (limit < 0)
             /\ answer' = History(SubSeq(rows, 1, Smaller(limit, Len(rows))))
  BY DEF ReadHistory
<1> DEFINE this == [i \in DOMAIN order |-> state[order[i]]]
           rows == this \o past
           n == Smaller(limit, Len(rows))
<1>2. Cardinality(RowsOf(Failing)) \in Nat
  <2>1. IsFiniteSet(1 .. MapLength)
    BY DagIsKnown, FS_Interval
  <2>2. RowsOf(Failing) \subseteq {<<Failing, i>> : i \in 1 .. MapLength}
    BY DEF RowsOf, Rows
  <2>3. IsFiniteSet({<<Failing, i>> : i \in 1 .. MapLength})
    <3> DEFINE f == [i \in 1 .. MapLength |-> <<Failing, i>>]
    <3>1. f \in Surjection(1 .. MapLength, {<<Failing, i>> : i \in 1 .. MapLength})
      BY DEF Surjection
    <3> QED BY <2>1, <3>1, FS_Surjection
  <2> QED BY <2>2, <2>3, FS_Subset, FS_CardinalityType
<1>3. this \in Seq(RowStates)
  <2>1. \A i \in 1 .. Cardinality(RowsOf(Failing)) : state[order[i]] \in RowStates
    BY DEF TypeOK, RowsOf
  <2> QED BY <1>2, <2>1
<1>4. past \in Seq(RowStates)
  <2>1. past \in Seq({"success", "failed"})
    BY DagIsKnown
  <2>2. {"success", "failed"} \subseteq RowStates
    BY DEF RowStates, Finished
  <2> QED BY <2>1, <2>2
<1> HIDE DEF this
<1>5. rows \in Seq(RowStates)
  BY <1>3, <1>4
<1>6. limit \in Int /\ ~ (limit < 0)
  BY <1>1, DagIsKnown
<1>7. answer' = History(SubSeq(rows, 1, n))
  BY <1>1 DEF this
<1> HIDE DEF rows
<1>8. n \in 0 .. Len(rows)
  <2>1. Len(rows) \in Nat
    BY <1>5
  <2> QED BY <1>6, <2>1 DEF Smaller
<1> HIDE DEF n
<1>9. SubSeq(rows, 1, n) \in Seq(RowStates)
  BY <1>5, <1>8
<1> QED BY <1>7, <1>9

LEMMA HistoryRowsType ==
  ASSUME TypeOK, ReadHistory
  PROVE  answer' \in {answer} \cup DagRunHistories
<1>1. at' = "failed" => answer' = answer
  BY DEF ReadHistory
<1> QED BY <1>1, HistoryOfRows, HistoryType

LEMMA NextTypeOK == TypeOK /\ [Next]_vars => TypeOK'
<1> SUFFICES ASSUME TypeOK, [Next]_vars PROVE TypeOK'
  OBVIOUS
<1>1. ASSUME NEW r \in Rows, End(r) PROVE TypeOK'
  BY <1>1, EndsType DEF End, Finished
<1>2. ASSUME NEW r \in Rows, TakeConsequence(r) PROVE TypeOK'
  BY <1>2, EndsType DEF TakeConsequence, Finished
<1>3. ASSUME NEW t \in Tasks, Clear(t) PROVE TypeOK'
  <2>1. state' \in [Rows -> RowStates] /\ ended' \in [Rows -> Nat]
    BY <1>3 DEF Clear, TypeOK, RowStates
  <2>2. clears' \in 0 .. MaxClears
    BY <1>3, DagIsKnown DEF Clear, TypeOK
  <2> QED BY <1>3, <2>1, <2>2 DEF Clear, TypeOK, UpstreamStates, DagRunHistories
<1>4. CASE FetchDag
  BY <1>4, AboveType DEF FetchDag, TypeOK, airflowVars, UpstreamStates, DagRunHistories
<1>5. CASE Walk
  BY <1>5, AboveType DEF Walk, TypeOK, airflowVars, UpstreamStates, DagRunHistories
<1>6. CASE EndWalk
  BY <1>6 DEF EndWalk, TypeOK, airflowVars, UpstreamStates, DagRunHistories
<1>7. CASE ReadStates
  <2>1. answer' \in UpstreamStates
    BY <1>7, UpstreamStateType DEF ReadStates, TypeOK
  <2> QED BY <1>7, <2>1 DEF ReadStates, TypeOK, airflowVars
<1>8. CASE ReadHistory
  <2>1. answer' \in {NoAnswer} \cup UpstreamStates \cup DagRunHistories
    BY <1>8, HistoryRowsType DEF TypeOK
  <2>2. at' \in {"answered", "failed"}
    BY <1>8 DEF ReadHistory
  <2>3. UNCHANGED <<airflowVars, seen, frontier>>
    BY <1>8 DEF ReadHistory
  <2> QED BY <2>1, <2>2, <2>3 DEF TypeOK, airflowVars
<1>9. CASE TimeOut
  BY <1>9 DEF TimeOut, TypeOK, airflowVars, UpstreamStates, DagRunHistories
<1>10. CASE UNCHANGED vars
  BY <1>10 DEF vars, airflowVars, TypeOK, UpstreamStates, DagRunHistories
<1> QED
  BY <1>1, <1>2, <1>3, <1>4, <1>5, <1>6, <1>7, <1>8, <1>9, <1>10 DEF Next

(* Rows, dates and answers keep their types, and a history that was read   *)
(* has a streak.                                                           *)
THEOREM TypeCorrect == Spec => []TypeOK
  BY InitTypeOK, NextTypeOK, PTL DEF Spec

-----------------------------------------------------------------------------
(* The walk *)

(* Until it is over, what is above a task that was seen is seen or waits,  *)
(* and nothing else is.                                                    *)
Walking ==
  at = "walk" /\ stored = "readable" =>
    /\ Parents(Failing) \subseteq seen \cup frontier
    /\ \A u \in seen : Parents(u) \subseteq seen \cup frontier
    /\ seen \cup frontier \subseteq Ancestors(Failing)

Unanswered ==
  /\ at = "idle" => seen = {}
  /\ at # "answered" => answer = NoAnswer

WalkInv == Walking /\ Unanswered /\ WalkFindsTheAncestors

LEMMA InitWalk == Init => WalkInv
  BY DEF Init, WalkInv, Walking, Unanswered, WalkFindsTheAncestors, HasWalked

LEMMA NextWalk == TypeOK /\ WalkInv /\ [Next]_vars => WalkInv'
<1> SUFFICES ASSUME TypeOK, WalkInv, [Next]_vars PROVE WalkInv'
  OBVIOUS
<1> USE DEF WalkInv, Unanswered
<1>0. IsClosedAbove(Failing, Ancestors(Failing)) /\ Failing \in Tasks
  BY AncestorsAreClosed, DagIsKnown
<1>1. ASSUME UNCHANGED <<stored, at, seen, frontier, answer>> PROVE WalkInv'
  BY <1>1 DEF Walking, WalkFindsTheAncestors, HasWalked
<1>2. ASSUME NEW r \in Rows, End(r) \/ TakeConsequence(r) PROVE WalkInv'
  BY <1>1, <1>2 DEF End, TakeConsequence, Ends
<1>3. ASSUME NEW t \in Tasks, Clear(t) PROVE WalkInv'
  BY <1>1, <1>3 DEF Clear
<1>4. CASE FetchDag
  <2>1. at' = "walk" /\ stored' = "readable" =>
          seen' = {} /\ frontier' = Parents(Failing)
    BY <1>4 DEF FetchDag, airflowVars, Above
  <2>2. Walking'
    BY <1>0, <2>1 DEF Walking, IsClosedAbove
  <2>3. at' # "idle" /\ at' # "answered" /\ at' # "read" /\ answer' = answer
    BY <1>4 DEF FetchDag
  <2> QED BY <1>4, <2>2, <2>3 DEF FetchDag, WalkFindsTheAncestors, HasWalked
<1>5. CASE Walk
  <2>1. at = "walk" /\ at' = "walk" /\ UNCHANGED <<stored, answer>>
    BY <1>5 DEF Walk, airflowVars
  <2>2. Walking'
    <3> SUFFICES ASSUME stored = "readable" PROVE Walking'
      BY <2>1 DEF Walking
    <3>1. PICK current \in frontier :
             IF current \in seen
               THEN frontier' = frontier \ {current} /\ UNCHANGED seen
               ELSE /\ frontier' = (frontier \ {current}) \cup Parents(current)
                    /\ seen' = seen \cup {current}
      BY <1>5 DEF Walk, Above
    <3>2. /\ Parents(Failing) \subseteq seen \cup frontier
          /\ \A u \in seen : Parents(u) \subseteq seen \cup frontier
          /\ seen \cup frontier \subseteq Ancestors(Failing)
      BY <2>1 DEF Walking
    <3>3. Parents(current) \subseteq Ancestors(Failing)
      BY <1>0, <3>1, <3>2 DEF IsClosedAbove
    <3>4. seen \cup frontier \subseteq seen' \cup frontier'
      BY <3>1
    <3>5. \A u \in seen' : Parents(u) \subseteq seen' \cup frontier'
      BY <3>1, <3>2, <3>4
    <3>6. seen' \cup frontier' \subseteq Ancestors(Failing)
      BY <3>1, <3>2, <3>3
    <3> QED BY <3>2, <3>4, <3>5, <3>6 DEF Walking
  <2> QED BY <2>1, <2>2 DEF WalkFindsTheAncestors, HasWalked
<1>6. CASE EndWalk
  <2>1. at = "walk" /\ at' = "read" /\ frontier = {}
        /\ UNCHANGED <<stored, seen, answer>>
    BY <1>6 DEF EndWalk, airflowVars
  <2>2. stored = "readable" => seen = Ancestors(Failing)
    <3> SUFFICES ASSUME stored = "readable" PROVE seen = Ancestors(Failing)
      OBVIOUS
    <3>1. IsClosedAbove(Failing, seen)
      BY <2>1 DEF Walking, IsClosedAbove
    <3>2. seen \in SUBSET Tasks
      BY DEF TypeOK
    <3>3. Ancestors(Failing) \subseteq seen
      BY <1>0, <3>1, <3>2, AncestorsAreLeast
    <3> QED BY <2>1, <3>3 DEF Walking
  <2> QED BY <2>1, <2>2 DEF Walking, WalkFindsTheAncestors, HasWalked
<1>7. CASE ReadStates
  <2>1. at = "read" /\ at' = "answered" /\ UNCHANGED <<stored, seen>>
    BY <1>7 DEF ReadStates, airflowVars
  <2>2. answer = NoAnswer
    BY <2>1
  <2>3. stored = "readable" => seen = Ancestors(Failing)
    BY <2>1, <2>2 DEF WalkFindsTheAncestors, HasWalked, NoAnswer
  <2> QED BY <2>1, <2>3 DEF Walking, WalkFindsTheAncestors, HasWalked
<1>8. CASE ReadHistory
  <2>1. at' \in {"answered", "failed"} /\ (at' = "failed" => answer' = answer)
    BY <1>8 DEF ReadHistory
  <2>2. at' = "answered" => answer'.tool = "history"
    BY <1>8 DEF ReadHistory, History
  <2>3. at = "idle"
    BY <1>8 DEF ReadHistory
  <2> QED BY <2>1, <2>2, <2>3 DEF Walking, WalkFindsTheAncestors, HasWalked
<1>9. CASE TimeOut
  BY <1>9 DEF TimeOut, Walking, WalkFindsTheAncestors, HasWalked
<1>10. CASE UNCHANGED vars
  BY <1>1, <1>10 DEF vars, airflowVars
<1> QED
  BY <1>2, <1>3, <1>4, <1>5, <1>6, <1>7, <1>8, <1>9, <1>10 DEF Next

(* The walk of _upstream_of ends with the ancestors of the failing task,   *)
(* whatever the DAG.                                                       *)
THEOREM WalksAreExact == Spec => []WalkFindsTheAncestors
<1>1. TypeOK /\ WalkInv /\ [Next]_vars => TypeOK' /\ WalkInv'
  BY NextTypeOK, NextWalk
<1>2. WalkInv => WalkFindsTheAncestors
  BY DEF WalkInv
<1> QED BY <1>1, <1>2, InitTypeOK, InitWalk, PTL DEF Spec

-----------------------------------------------------------------------------
(* The answer.  Once it is given, nothing the properties read changes.     *)

(* The tool keeps one row of every task it met, and the row of a task that *)
(* is not mapped is its only one.                                          *)
IsKept(kept) ==
  /\ kept \in SUBSET {r \in Rows : r[1] \in seen}
  /\ \A t \in seen : Cardinality(kept \cap RowsOf(t)) = 1

LEMMA UnmappedIsKept ==
  ASSUME NEW kept, IsKept(kept), NEW t \in seen \ Mapped, seen \subseteq Tasks
  PROVE  <<t, 1>> \in kept
<1>1. RowsOf(t) = {<<t, 1>>}
  BY UnmappedRow
<1>2. kept \cap RowsOf(t) # {}
  BY FS_EmptySet DEF IsKept
<1> QED BY <1>1, <1>2

(* The row that was kept of any task that was seen.                        *)
LEMMA EveryTaskIsKept ==
  ASSUME NEW kept, IsKept(kept), NEW t \in seen
  PROVE  \E r \in kept : r \in RowsOf(t)
  BY FS_EmptySet DEF IsKept

LEMMA ReadKeeps ==
  ASSUME ReadStates
  PROVE  \E kept : IsKept(kept) /\ answer' = UpstreamState(kept)
  BY DEF ReadStates, IsKept

(* After the answer every step leaves what was read and answered alone.    *)
LEMMA AnswersAreFinal ==
  ASSUME at = "answered", [Next]_vars
  PROVE  UNCHANGED <<stored, state, ended, clears, at, answer>>
<1>1. CASE UNCHANGED vars
  BY <1>1 DEF vars, airflowVars
<1>2. CASE Next
  BY <1>2 DEF Next, End, TakeConsequence, Clear, Asking, FetchDag, Walk, EndWalk,
              ReadStates, ReadHistory, TimeOut
<1> QED BY <1>1, <1>2

(* Only ReadStates gives such an answer.                                   *)
LEMMA OnlyReadStatesAnswers ==
  ASSUME Unanswered, [Next]_vars, at # "answered", ToldUpstream'
  PROVE  ReadStates
<1>1. at' # at
  BY DEF ToldUpstream, HasWalked, NoAnswer, Unanswered, vars, Next, End, TakeConsequence,
         Ends, Clear, Walk, EndWalk, FetchDag, ReadStates, ReadHistory, TimeOut
<1>2. answer' # answer
  BY DEF ToldUpstream, NoAnswer, Unanswered
<1>3. ~ ReadHistory
  <2>1. answer'.tool = "upstream"
    BY DEF ToldUpstream
  <2>2. ReadHistory => answer' = answer \/ answer'.tool = "history"
    BY DEF ReadHistory, History
  <2> QED BY <1>2, <2>1, <2>2
<1> QED
  BY <1>1, <1>2, <1>3 DEF vars, airflowVars, Next, End, TakeConsequence, Ends, Clear,
                          Walk, EndWalk, FetchDag, TimeOut

LEMMA NextRoot ==
  TypeOK /\ WalkInv /\ WalkInv' /\ RootFailedFirst /\ [Next]_vars => RootFailedFirst'
<1> SUFFICES ASSUME TypeOK, WalkInv, WalkInv', RootFailedFirst, [Next]_vars, ToldUpstream'
             PROVE  RootFailedFirst'
  BY DEF RootFailedFirst
<1>1. CASE at = "answered"
  BY <1>1, AnswersAreFinal
     DEF RootFailedFirst, ToldUpstream, HasWalked, FailedUpstream
<1>2. CASE at # "answered"
  <2>1. ReadStates
    BY <1>2, OnlyReadStatesAnswers DEF WalkInv
  <2>2. PICK kept : IsKept(kept) /\ answer' = UpstreamState(kept)
    BY <2>1, ReadKeeps
  <2>3. UNCHANGED <<stored, state, ended, seen>>
    BY <2>1 DEF ReadStates, airflowVars
  <2>4. seen = Ancestors(Failing) /\ seen \subseteq Tasks
    BY <2>3 DEF WalkInv, WalkFindsTheAncestors, ToldUpstream, TypeOK
  <2>5. answer'.root_failure = Earliest(kept)
    BY <2>2 DEF UpstreamState
  <2>6. kept \in SUBSET Rows /\ ended \in [Rows -> Nat]
    BY <2>2 DEF IsKept, TypeOK
  <2>7. \A t \in FailedUpstream : <<t, 1>> \in kept /\ state[<<t, 1>>] = "failed"
    BY <2>2, <2>4, UnmappedIsKept DEF FailedUpstream
  <2>8. FailedUpstream' = FailedUpstream
    BY <2>3 DEF FailedUpstream
  <2>9. CASE Earliest(kept) = NoTask
    <3>1. \A q \in kept : state[q] # "failed"
      <4>1. \A r \in kept : r[1] # NoTask
        BY <2>6, DagIsKnown DEF Rows
      <4> QED BY <2>6, <2>9, <4>1, EarliestIsFirst
    <3>2. FailedUpstream = {}
      BY <2>7, <3>1
    <3> QED BY <2>5, <2>8, <2>9, <3>2 DEF RootFailedFirst
  <2>10. CASE Earliest(kept) # NoTask
    <3>1. PICK r \in kept : /\ Earliest(kept) = r[1] /\ state[r] = "failed"
                            /\ \A q \in kept : state[q] = "failed" => ended[r] <= ended[q]
      BY <2>6, <2>10, EarliestIsFirst
    <3>2. r[1] \in Ancestors(Failing) /\ r \in RowsOf(r[1])
      BY <2>2, <2>4, <2>6 DEF IsKept, RowsOf
    <3>3. \A t \in FailedUpstream : ended[r] <= ended[<<t, 1>>]
      BY <2>7, <3>1
    <3> QED BY <2>3, <2>5, <2>8, <2>10, <3>1, <3>2, <3>3 DEF RootFailedFirst
  <2> QED BY <2>9, <2>10
<1> QED BY <1>1, <1>2

(* root_failure is the first of the tasks above the failing one to have    *)
(* failed, whatever was cleared before.                                    *)
THEOREM RootsFailedFirst == Spec => []RootFailedFirst
<1>1. TypeOK /\ WalkInv /\ RootFailedFirst /\ [Next]_vars
        => TypeOK' /\ WalkInv' /\ RootFailedFirst'
  BY NextTypeOK, NextWalk, NextRoot
<1>2. Init => RootFailedFirst
  BY DEF Init, RootFailedFirst, ToldUpstream, HasWalked
<1> QED BY <1>1, <1>2, InitTypeOK, InitWalk, PTL DEF Spec

-----------------------------------------------------------------------------
(* Trigger rules.  A task that ran, and ended well or badly, ran after     *)
(* everything directly above it had ended: a clearing takes back both.     *)
RanAfterParents ==
  \A r \in Rows : state[r] \in {"success", "failed"} =>
    \A p \in ParentRows(r[1]) : state[p] \in Finished

(* What was published is still so while nothing is cleared.                *)
FailureStands ==
  reported /\ clears = 0 => \E r \in RowsOf(Failing) : state[r] = "failed"

OnlyReportedIsAsked == at # "idle" => reported

TriggerInv == RanAfterParents /\ FailureStands /\ OnlyReportedIsAsked

LEMMA ParentRowsAreRows ==
  ASSUME NEW t \in Tasks, NEW p \in ParentRows(t)
  PROVE  p \in Rows /\ p[1] \in Parents(t)
  BY DEF ParentRows, RowsOf

(* A row that ends meets its trigger rule, and disturbs no other's.        *)
LEMMA EndsTrigger ==
  ASSUME TypeOK, TriggerInv, NEW r \in Rows, NEW s \in Finished, Ends(r, s),
         state[r] = "none",
         s \in {"success", "failed"} =>
           \A p \in ParentRows(r[1]) : state[p] \in Finished
  PROVE  TriggerInv'
<1>1. /\ state' = [state EXCEPT ![r] = s] /\ state \in [Rows -> RowStates]
      /\ UNCHANGED <<clears, at>>
      /\ reported' = (reported \/ (s = "failed" /\ r[1] = Failing))
  BY DEF Ends, TypeOK
<1>2. \A p \in Rows : state[p] \in Finished => state'[p] \in Finished
  BY <1>1
<1>3. ASSUME NEW q \in Rows, state'[q] \in {"success", "failed"}
      PROVE  \A p \in ParentRows(q[1]) : state'[p] \in Finished
  <2>1. q[1] \in Tasks
    BY DEF Rows
  <2>2. \A p \in ParentRows(q[1]) : state[p] \in Finished
    BY <1>1, <1>3 DEF TriggerInv, RanAfterParents
  <2> QED BY <1>2, <2>1, <2>2, ParentRowsAreRows
<1>4. FailureStands'
  <2> SUFFICES ASSUME reported', clears' = 0
               PROVE  \E q \in RowsOf(Failing) : state'[q] = "failed"
    BY DEF FailureStands
  <2>1. CASE s = "failed" /\ r[1] = Failing
    BY <1>1, <2>1 DEF RowsOf
  <2>2. CASE ~ (s = "failed" /\ r[1] = Failing)
    <3>1. PICK q \in RowsOf(Failing) : state[q] = "failed"
      BY <1>1, <2>2 DEF TriggerInv, FailureStands
    <3>2. q \in Rows /\ q # r
      BY <3>1 DEF RowsOf
    <3> QED BY <1>1, <3>1, <3>2
  <2> QED BY <2>1, <2>2
<1>5. OnlyReportedIsAsked'
  BY <1>1 DEF TriggerInv, OnlyReportedIsAsked
<1> QED BY <1>3, <1>4, <1>5 DEF TriggerInv, RanAfterParents

LEMMA NextTrigger == TypeOK /\ TriggerInv /\ [Next]_vars => TriggerInv'
<1> SUFFICES ASSUME TypeOK, TriggerInv, [Next]_vars PROVE TriggerInv'
  OBVIOUS
<1>1. ASSUME NEW r \in Rows, End(r) PROVE TriggerInv'
  <2>1. \A p \in ParentRows(r[1]) : state[p] \in Finished
    BY <1>1 DEF End, Finished
  <2> QED BY <1>1, <2>1, EndsTrigger DEF End, Finished
<1>2. ASSUME NEW r \in Rows, TakeConsequence(r) PROVE TriggerInv'
  <2>1. PICK s \in {"upstream_failed", "skipped"} : Ends(r, s)
    BY <1>2 DEF TakeConsequence
  <2>2. s \in Finished /\ s \notin {"success", "failed"} /\ state[r] = "none"
    BY <1>2 DEF TakeConsequence, Finished
  <2> QED BY <2>1, <2>2, EndsTrigger
<1>3. ASSUME NEW t \in Tasks, Clear(t) PROVE TriggerInv'
  <2> DEFINE reset == {r \in Rows : r[1] = t \/ t \in Ancestors(r[1])}
  <2>1. /\ state' = [r \in Rows |-> IF r \in reset THEN "none" ELSE state[r]]
        /\ clears' = clears + 1 /\ UNCHANGED <<reported, at>>
    BY <1>3 DEF Clear
  <2>2. ASSUME NEW q \in Rows, state'[q] \in {"success", "failed"}
        PROVE  \A p \in ParentRows(q[1]) : state'[p] \in Finished
    <3>1. q \notin reset /\ state[q] \in {"success", "failed"} /\ q[1] \in Tasks
      BY <2>1, <2>2 DEF Rows
    <3> TAKE p \in ParentRows(q[1])
    <3>2. p \in Rows /\ p[1] \in Parents(q[1]) /\ p[1] \in Tasks
      BY <3>1, ParentRowsAreRows DEF Parents
    <3>3. p[1] \in Ancestors(q[1]) /\ Ancestors(p[1]) \subseteq Ancestors(q[1])
      BY <3>1, <3>2, ParentsAreAncestors
    <3>4. p \notin reset
      BY <3>1, <3>3
    <3>5. state[p] \in Finished
      BY <3>1 DEF TriggerInv, RanAfterParents
    <3> QED BY <2>1, <3>2, <3>4, <3>5
  <2>3. clears' # 0
    BY <2>1 DEF TypeOK
  <2>4. FailureStands' /\ OnlyReportedIsAsked'
    BY <2>1, <2>3 DEF TriggerInv, FailureStands, OnlyReportedIsAsked
  <2> QED BY <2>2, <2>4 DEF TriggerInv, RanAfterParents
<1>4. ASSUME UNCHANGED airflowVars, reported PROVE TriggerInv'
  BY <1>4 DEF airflowVars, TriggerInv, RanAfterParents, FailureStands, OnlyReportedIsAsked
<1>5. CASE FetchDag \/ ReadHistory
  BY <1>4, <1>5 DEF FetchDag, ReadHistory
<1>6. CASE Walk \/ EndWalk \/ ReadStates \/ TimeOut
  <2>1. reported
    BY <1>6 DEF Walk, EndWalk, ReadStates, TimeOut, TriggerInv, OnlyReportedIsAsked
  <2> QED BY <1>4, <1>6, <2>1 DEF Walk, EndWalk, ReadStates, TimeOut
<1>7. CASE UNCHANGED vars
  BY <1>7 DEF vars, airflowVars, TriggerInv, RanAfterParents, FailureStands,
              OnlyReportedIsAsked
<1> QED BY <1>1, <1>2, <1>3, <1>5, <1>6, <1>7 DEF Next

(* If no row that was kept is unsuccessful, all above the failing task     *)
(* ended: what is above a task that ran ended before it, so the tasks that *)
(* ended are closed above it.                                              *)
LEMMA AllEnded ==
  ASSUME TypeOK, TriggerInv, reported, clears = 0,
         seen = Ancestors(Failing), NEW kept, IsKept(kept),
         \A r \in kept : state[r] \notin Unsuccessful
  PROVE  \A r \in Rows : r[1] \in Ancestors(Failing) => state[r] \in Finished
<1> DEFINE Ended == {u \in Ancestors(Failing) : \A r \in RowsOf(u) : state[r] \in Finished}
<1>1. Failing \in Tasks /\ IsClosedAbove(Failing, Ancestors(Failing))
  BY AncestorsAreClosed, DagIsKnown
<1>2. ASSUME NEW t \in Tasks, NEW r \in RowsOf(t), state[r] \in {"success", "failed"},
             Parents(t) \subseteq Ancestors(Failing)
      PROVE  Parents(t) \subseteq Ended
  <2> SUFFICES ASSUME NEW p \in Parents(t), NEW q \in RowsOf(p)
               PROVE  state[q] \in Finished
    BY <1>2
  <2>1. r \in Rows /\ r[1] = t
    BY DEF RowsOf
  <2>2. q \in ParentRows(t)
    BY DEF ParentRows
  <2> QED BY <1>2, <2>1, <2>2 DEF TriggerInv, RanAfterParents
<1>3. Parents(Failing) \subseteq Ended
  <2>1. PICK r \in RowsOf(Failing) : state[r] = "failed"
    BY DEF TriggerInv, FailureStands
  <2> QED BY <1>1, <1>2, <2>1 DEF IsClosedAbove
<1>4. ASSUME NEW u \in Ended PROVE Parents(u) \subseteq Ended
  <2>1. u \in Ancestors(Failing) /\ u \in Tasks
    BY DEF Ancestors
  <2>2. PICK r \in kept : r \in RowsOf(u)
    BY <2>1, EveryTaskIsKept
  <2>3. state[r] \in Finished /\ state[r] \notin Unsuccessful
    BY <2>2
  <2>4. state[r] = "success"
    BY <2>3 DEF Finished, Unsuccessful
  <2> QED BY <1>1, <1>2, <2>1, <2>2, <2>4 DEF IsClosedAbove
<1>5. Ended \in SUBSET Tasks
  BY DEF Ancestors
<1>6. Ancestors(Failing) \subseteq Ended
  BY <1>1, <1>3, <1>4, <1>5, AncestorsAreLeast DEF IsClosedAbove
<1> QED BY <1>6 DEF RowsOf

LEMMA NextSucceeded ==
  TypeOK /\ WalkInv /\ WalkInv' /\ TriggerInv /\ AllSucceededIsSo /\ [Next]_vars
    => AllSucceededIsSo'
<1> SUFFICES ASSUME TypeOK, WalkInv, WalkInv', TriggerInv, AllSucceededIsSo, [Next]_vars,
                    ToldUpstream', clears' = 0, answer'.all_upstream_succeeded,
                    NEW t \in Ancestors(Failing) \ Mapped
             PROVE  state'[<<t, 1>>] = "success"
  BY DEF AllSucceededIsSo
<1>1. CASE at = "answered"
  BY <1>1, AnswersAreFinal DEF AllSucceededIsSo, ToldUpstream, HasWalked
<1>2. CASE at # "answered"
  <2>1. ReadStates
    BY <1>2, OnlyReadStatesAnswers DEF WalkInv
  <2>2. PICK kept : IsKept(kept) /\ answer' = UpstreamState(kept)
    BY <2>1, ReadKeeps
  <2>3. UNCHANGED <<stored, state, clears, seen>> /\ at = "read"
    BY <2>1 DEF ReadStates, airflowVars
  <2>4. seen = Ancestors(Failing) /\ seen \subseteq Tasks
    BY <2>3 DEF WalkInv, WalkFindsTheAncestors, ToldUpstream, TypeOK
  <2>5. \A r \in kept : state[r] \notin Unsuccessful
    BY <2>2 DEF UpstreamState
  <2>6. reported
    BY <2>3 DEF TriggerInv, OnlyReportedIsAsked
  <2>7. \A r \in Rows : r[1] \in Ancestors(Failing) => state[r] \in Finished
    BY <2>2, <2>3, <2>4, <2>5, <2>6, AllEnded
  <2>8. <<t, 1>> \in kept /\ <<t, 1>> \in Rows
    BY <2>2, <2>4, UnmappedIsKept, UnmappedRow
  <2>9. state[<<t, 1>>] \in Finished \ Unsuccessful
    BY <2>5, <2>7, <2>8
  <2> QED BY <2>3, <2>9 DEF Finished, Unsuccessful
<1> QED BY <1>1, <1>2

(* "All upstream tasks succeeded" is true of every run in which nothing    *)
(* was cleared.                                                            *)
THEOREM SuccessIsNotGuessed == Spec => []AllSucceededIsSo
<1>1. TypeOK /\ WalkInv /\ TriggerInv /\ AllSucceededIsSo /\ [Next]_vars
        => TypeOK' /\ WalkInv' /\ TriggerInv' /\ AllSucceededIsSo'
  BY NextTypeOK, NextWalk, NextTrigger, NextSucceeded
<1>2. Init => TriggerInv /\ AllSucceededIsSo
  BY DEF Init, TriggerInv, RanAfterParents, FailureStands, OnlyReportedIsAsked,
         AllSucceededIsSo, ToldUpstream, HasWalked
<1> QED BY <1>1, <1>2, InitTypeOK, InitWalk, PTL DEF Spec

-----------------------------------------------------------------------------
(* New and chronic failures                                                *)

LEMMA FailuresAreRows ==
  ASSUME NEW rows \in Seq(RowStates)
  PROVE  /\ IsFiniteSet({i \in DOMAIN rows : rows[i] = "failed"})
         /\ Failures(rows) \in Nat
<1>1. IsFiniteSet(1 .. Len(rows)) /\ DOMAIN rows = 1 .. Len(rows)
  BY FS_Interval
<1>2. IsFiniteSet({i \in DOMAIN rows : rows[i] = "failed"})
  BY <1>1, FS_Subset
<1> QED BY <1>2, FS_CardinalityType DEF Failures

(* With a clean record behind it, only the latest run can have failed.     *)
LEMMA CleanRecordIsNew ==
  ASSUME NEW rows \in Seq(RowStates), rows # <<>>, IsClean(Tail(rows))
  PROVE  IsNewFailure(rows)
<1>1. Len(rows) \in Nat /\ Len(rows) >= 1
  OBVIOUS
<1>2. ASSUME NEW i \in 2 .. Len(rows) PROVE rows[i] # "failed"
  <2>1. i - 1 \in 1 .. Len(Tail(rows)) /\ Tail(rows)[i - 1] = rows[(i - 1) + 1]
    BY <1>1
  <2>2. DOMAIN Tail(rows) = 1 .. Len(Tail(rows))
    BY <1>1
  <2>3. (i - 1) + 1 = i
    OBVIOUS
  <2> QED BY <2>1, <2>2, <2>3 DEF IsClean
<1>3. Consecutive(rows) <= 2
  <2>1. /\ Consecutive(rows) \in 0 .. Len(rows)
        /\ \A i \in 1 .. Consecutive(rows) : rows[i] = "failed"
    BY StreakIsCounted
  <2> DEFINE n == Consecutive(rows)
  <2> HIDE DEF n
  <2>2. n \in 0 .. Len(rows) /\ \A i \in 1 .. n : rows[i] = "failed"
    BY <2>1 DEF n
  <2>3. n <= 2
    BY <1>1, <1>2, <2>2
  <2> QED BY <2>3 DEF n
<1>4. Failures(rows) <= 1
  <2> DEFINE F == {i \in DOMAIN rows : rows[i] = "failed"}
  <2>1. F \subseteq {1}
    BY <1>1, <1>2
  <2>2. IsFiniteSet({1}) /\ Cardinality({1}) = 1
    BY FS_Singleton
  <2>3. Cardinality(F) <= 1
    BY <2>1, <2>2, FS_Subset
  <2> QED BY <2>3 DEF Failures
<1>5. Larger(2, Len(rows) \div 4) >= 2
  <2> DEFINE q == Len(rows) \div 4
  <2>1. q \in Int
    BY <1>1
  <2> HIDE DEF q
  <2>2. Larger(2, q) >= 2
    BY <2>1 DEF Larger
  <2> QED BY <2>2 DEF q
<1>6. Failures(rows) <= Larger(2, Len(rows) \div 4)
  <2> DEFINE k == Larger(2, Len(rows) \div 4)
  <2>1. Len(rows) \div 4 \in Int
    BY <1>1
  <2>2. k \in Int
    BY <2>1 DEF Larger
  <2>3. k >= 2 /\ Failures(rows) \in Nat
    BY <1>5, FailuresAreRows
  <2> HIDE DEF k
  <2>4. Failures(rows) <= k
    BY <1>4, <2>2, <2>3
  <2> QED BY <2>4 DEF k
<1> QED BY <1>3, <1>6 DEF IsNewFailure

LEMMA QuarterIsLess ==
  ASSUME NEW n \in Nat, NEW f \in Nat, n >= 4, 2 * f > n
  PROVE  f > 2 /\ f > n \div 4
<1>1. n \div 4 \in Int /\ 4 * (n \div 4) <= n
  OBVIOUS
<1> DEFINE q == n \div 4
<1> HIDE DEF q
<1>2. q \in Int /\ 4 * q <= n
  BY <1>1 DEF q
<1>3. f > q
  BY <1>2
<1> QED BY <1>3 DEF q

(* From four rows on, a task most of whose rows failed is not new.         *)
LEMMA ChronicIsNotNew ==
  ASSUME NEW rows \in Seq(RowStates), Len(rows) >= 4,
         2 * Failures(rows) > Len(rows)
  PROVE  ~IsNewFailure(rows)
<1>1. Len(rows) \in Nat /\ Failures(rows) \in Nat
  <2>1. Len(rows) \in Nat
    BY LenProperties
  <2>2. Failures(rows) \in Nat
    BY FailuresAreRows, Zenon
  <2> QED BY <2>1, <2>2
<1>2. Failures(rows) > 2 /\ Failures(rows) > Len(rows) \div 4
  BY <1>1, QuarterIsLess
<1> DEFINE f == Failures(rows)
           q == Len(rows) \div 4
<1>3. q \in Int /\ f \in Nat
  BY <1>1
<1> HIDE DEF f, q
<1>4. f > 2 /\ f > q
  BY <1>2 DEF f, q
<1>5. ~(f <= Larger(2, q))
  BY <1>3, <1>4 DEF Larger
<1> QED BY <1>5 DEF IsNewFailure, f, q

ToldHistory == at = "answered" /\ answer.tool = "history"

(* A history that was told is one of rows: the summary fits what it shows. *)
HistoryIsOfRows ==
  ToldHistory => \E rows \in Seq(RowStates) : answer = History(rows)

LEMMA NextHistory ==
  TypeOK /\ Unanswered /\ HistoryIsOfRows /\ [Next]_vars => HistoryIsOfRows'
<1> SUFFICES ASSUME TypeOK, Unanswered, HistoryIsOfRows, [Next]_vars, ToldHistory'
             PROVE  \E rows \in Seq(RowStates) : answer' = History(rows)
  BY DEF HistoryIsOfRows
<1>1. CASE at = "answered"
  BY <1>1, AnswersAreFinal DEF HistoryIsOfRows, ToldHistory
<1>2. CASE at # "answered"
  <2>1. answer = NoAnswer /\ answer' # answer
    BY <1>2 DEF Unanswered, ToldHistory, NoAnswer
  <2>2. ~ReadStates
    BY DEF ReadStates, UpstreamState, ToldHistory
  <2>3. ReadHistory
    BY <2>1, <2>2 DEF vars, airflowVars, Next, End, TakeConsequence, Ends, Clear,
                      Walk, EndWalk, FetchDag, TimeOut
  <2>4. at' # "failed"
    BY DEF ToldHistory
  <2> QED BY <2>3, <2>4, HistoryOfRows
<1> QED BY <1>1, <1>2

LEMMA HistoriesTell == HistoryIsOfRows => NewIsToldFromChronic
<1> SUFFICES ASSUME HistoryIsOfRows, ToldHistory, answer.runs # <<>>
             PROVE  /\ IsClean(Tail(answer.runs)) => answer.is_new_failure
                    /\ Len(answer.runs) >= 4
                         /\ 2 * Failures(answer.runs) > Len(answer.runs) =>
                         ~answer.is_new_failure
  BY DEF NewIsToldFromChronic, ToldHistory
<1>1. PICK rows \in Seq(RowStates) : answer = History(rows)
  BY DEF HistoryIsOfRows
<1>2. answer.runs = rows /\ answer.is_new_failure = IsNewFailure(rows)
  BY <1>1 DEF History
<1> QED BY <1>2, CleanRecordIsNew, ChronicIsNotNew

(* A first failure is called new and a chronic one is not, whatever rows   *)
(* Airflow holds, whatever limit the model asks for and wherever the       *)
(* current attempt stands.                                                 *)
THEOREM NewIsNotChronic == Spec => []NewIsToldFromChronic
<1>1. Init => HistoryIsOfRows
  BY DEF Init, HistoryIsOfRows, ToldHistory
<1>2. TypeOK /\ WalkInv /\ HistoryIsOfRows /\ [Next]_vars
        => TypeOK' /\ WalkInv' /\ HistoryIsOfRows'
  BY NextTypeOK, NextWalk, NextHistory DEF WalkInv
<1> QED BY <1>1, <1>2, InitTypeOK, InitWalk, HistoriesTell, PTL DEF Spec

-----------------------------------------------------------------------------
(* The first and the last of a set of columns *)

(* The least index of some columns is among them, and is below all.        *)
LEMMA FirstOfSome ==
  ASSUME NEW S \in SUBSET Nat, S # {}
  PROVE  /\ First(S) \in S
         /\ \A m \in S : First(S) <= m
<1>1. PICK n \in S : \A m \in S : ~ (<<m, n>> \in OpToRel(<, Nat))
  BY NatLessThanWellFounded, WFMin
<1>2. ASSUME NEW m \in S PROVE n <= m
  <2>1. m \in Nat /\ n \in Nat
    OBVIOUS
  <2>2. ~ (m < n)
    BY <1>1, <2>1 DEF OpToRel
  <2> QED BY <2>1, <2>2
<1> QED BY <1>2 DEF First

(* So is the greatest, for finitely many.                                  *)
LEMMA LastOfSome ==
  ASSUME NEW S \in SUBSET Nat, S # {}, IsFiniteSet(S)
  PROVE  Last(S) \in S /\ \A m \in S : Last(S) >= m
<1> DEFINE Beyond(n) == {m \in S : m > n}
           Counts == {Cardinality(Beyond(n)) : n \in S}
<1>1. ASSUME NEW n \in S
      PROVE  IsFiniteSet(Beyond(n)) /\ Cardinality(Beyond(n)) \in Nat
  BY FS_Subset, FS_CardinalityType
<1>2. Counts \subseteq Nat /\ Counts # {}
  BY <1>1
<1>3. PICK k \in Counts : \A j \in Counts : ~ (<<j, k>> \in OpToRel(<, Nat))
  BY <1>2, NatLessThanWellFounded, WFMin
<1>4. PICK n \in S : Cardinality(Beyond(n)) = k
  BY <1>3
<1>5. ASSUME NEW m \in S, m > n PROVE FALSE
  <2>1. m \in Nat /\ n \in Nat
    OBVIOUS
  <2>2. Beyond(m) \subseteq Beyond(n)
    <3> SUFFICES ASSUME NEW x \in S, x > m PROVE x > n
      OBVIOUS
    <3>1. x \in Nat
      OBVIOUS
    <3> QED BY <1>5, <2>1, <3>1
  <2>3. m \in Beyond(n) /\ m \notin Beyond(m)
    BY <1>5, <2>1
  <2> DEFINE B == Beyond(m)
             C == Beyond(n)
  <2>4. IsFiniteSet(C) /\ B \in SUBSET C /\ B # C
    BY <1>1, <2>2, <2>3
  <2>5. Cardinality(B) \in Counts /\ Cardinality(B) \in Nat
    BY <1>1
  <2>6. Cardinality(C) = k /\ k \in Nat
    BY <1>2, <1>4
  <2> HIDE DEF B, C, Counts
  <2>7. Cardinality(B) < k
    BY <2>4, <2>5, <2>6, FS_Subset
  <2> QED BY <1>3, <2>5, <2>6, <2>7 DEF OpToRel
<1>6. \A m \in S : n >= m
  BY <1>5
<1> QED BY <1>6 DEF Last

Removed(before, after) == DOMAIN before \ DOMAIN after

(* The equation that the recursive function of _likely_renames solves.     *)
IsPairing(pairs, before, after) ==
  pairs = [S \in SUBSET Removed(before, after) |->
             IF S = {} THEN {}
             ELSE WithMatch(pairs[S \ {Last(S)}],
                                     Last(S), before, after)]

(* The same on the sets of at most n columns.                              *)
Small(n, before, after) ==
  {S \in SUBSET Removed(before, after) : Cardinality(S) <= n}

IsPairingUpTo(pairs, n, before, after) ==
  pairs = [S \in Small(n, before, after) |->
             IF S = {} THEN {}
             ELSE WithMatch(pairs[S \ {Last(S)}],
                                     Last(S), before, after)]

(* Without its last column, a set of columns has one less.                 *)
LEMMA OneLess ==
  ASSUME NEW S \in SUBSET Nat, IsFiniteSet(S), S # {}
  PROVE  /\ Last(S) \in S
         /\ IsFiniteSet(S \ {Last(S)})
         /\ Cardinality(S) \in Nat
         /\ Cardinality(S \ {Last(S)}) \in Nat
         /\ Cardinality(S \ {Last(S)}) = Cardinality(S) - 1
BY LastOfSome, FS_RemoveElement, FS_CardinalityType

(* A pairing of the sets of n columns extends to those of one more.        *)
LEMMA PairingGrows ==
  ASSUME NEW before, NEW after, NEW n \in Nat,
         DOMAIN before \in SUBSET Nat, IsFiniteSet(DOMAIN before),
         \E pairs : IsPairingUpTo(pairs, n, before, after)
  PROVE  \E pairs : IsPairingUpTo(pairs, n + 1, before, after)
<1> DEFINE R == Removed(before, after)
           Step(f, S) == WithMatch(f[S \ {Last(S)}],
                                            Last(S), before, after)
<1>1. PICK f : f = [S \in Small(n, before, after) |->
                      IF S = {} THEN {} ELSE Step(f, S)]
  BY DEF IsPairingUpTo
<1> DEFINE g == [S \in Small(n + 1, before, after) |->
                   IF S = {} THEN {} ELSE Step(f, S)]
<1>2. R \in SUBSET Nat /\ IsFiniteSet(R)
  BY FS_Subset DEF Removed
<1>3. ASSUME NEW S \in SUBSET R PROVE IsFiniteSet(S) /\ Cardinality(S) \in Nat
  BY <1>2, FS_Subset, FS_CardinalityType
<1>4. ASSUME NEW S \in Small(n, before, after)
      PROVE  S \in Small(n + 1, before, after) /\ g[S] = f[S]
  <2>1. S \in Small(n + 1, before, after)
    BY <1>3 DEF Small
  <2>2. f[S] = IF S = {} THEN {} ELSE Step(f, S)
    BY <1>1, Zenon
  <2>3. g[S] = IF S = {} THEN {} ELSE Step(f, S)
    BY <2>1, Zenon
  <2> QED BY <2>1, <2>2, <2>3
<1>5. ASSUME NEW S \in Small(n + 1, before, after), S # {}
      PROVE  Step(g, S) = Step(f, S)
  <2> DEFINE T == S \ {Last(S)}
  <2>1. S \in SUBSET R /\ Cardinality(S) <= n + 1
    BY DEF Small
  <2>2. IsFiniteSet(S) /\ S \in SUBSET Nat
    BY <1>2, <1>3, <2>1
  <2>3. Cardinality(T) = Cardinality(S) - 1 /\ Cardinality(S) \in Nat
    BY <1>5, <2>2, OneLess
  <2>4. Cardinality(T) <= n
    BY <2>1, <2>3
  <2>5. T \in Small(n, before, after)
    BY <2>1, <2>4 DEF Small
  <2>6. g[T] = f[T]
    BY <1>4, <2>5
  <2> QED BY <2>6, Zenon
<1>6. g = [S \in Small(n + 1, before, after) |->
             IF S = {} THEN {} ELSE Step(g, S)]
  <2> DEFINE h == [S \in Small(n + 1, before, after) |->
                     IF S = {} THEN {} ELSE Step(g, S)]
  <2>1. ASSUME NEW S \in Small(n + 1, before, after) PROVE g[S] = h[S]
    <3>1. g[S] = IF S = {} THEN {} ELSE Step(f, S)
      BY Zenon
    <3>2. h[S] = IF S = {} THEN {} ELSE Step(g, S)
      BY Zenon
    <3> QED BY <1>5, <3>1, <3>2, Zenon
  <2> HIDE DEF Step
  <2> QED BY <2>1
<1> QED BY <1>6 DEF IsPairingUpTo

(* So there is one for every n: no n is the least without.                 *)
LEMMA PairingExistsUpTo ==
  ASSUME NEW before, NEW after,
         DOMAIN before \in SUBSET Nat, IsFiniteSet(DOMAIN before),
         NEW k \in Nat
  PROVE  \E pairs : IsPairingUpTo(pairs, k, before, after)
<1> DEFINE Bad == {n \in Nat : ~ \E pairs : IsPairingUpTo(pairs, n, before, after)}
<1> SUFFICES ASSUME Bad # {} PROVE FALSE
  OBVIOUS
<1>1. PICK n \in Bad : \A m \in Bad : ~ (<<m, n>> \in OpToRel(<, Nat))
  BY NatLessThanWellFounded, WFMin
<1>2. \A m \in Bad : ~ (m < n)
  BY <1>1 DEF OpToRel
<1>3. CASE n = 0
  <2> DEFINE f == [S \in Small(0, before, after) |-> {}]
  <2>1. ASSUME NEW S \in Small(0, before, after) PROVE S = {}
    <3>1. IsFiniteSet(S) /\ Cardinality(S) <= 0
      BY FS_Subset DEF Small, Removed
    <3>2. Cardinality(S) = 0
      BY <3>1, FS_CardinalityType
    <3> QED BY <3>1, <3>2, FS_EmptySet
  <2>2. f = [S \in Small(0, before, after) |->
               IF S = {} THEN {}
               ELSE WithMatch(f[S \ {Last(S)}],
                                       Last(S), before, after)]
    BY <2>1, Zenon
  <2> QED BY <1>3, <2>2 DEF IsPairingUpTo
<1>4. CASE n # 0
  <2>1. n - 1 \in Nat /\ n - 1 < n /\ (n - 1) + 1 = n
    BY <1>4
  <2>2. \E pairs : IsPairingUpTo(pairs, n - 1, before, after)
    BY <1>2, <2>1
  <2>3. \E pairs : IsPairingUpTo(pairs, (n - 1) + 1, before, after)
    BY <2>1, <2>2, PairingGrows
  <2> QED BY <2>1, <2>3
<1> QED BY <1>3, <1>4

(* Hence one for all the sets of removed columns.                          *)
LEMMA PairingExists ==
  ASSUME NEW before, NEW after,
         DOMAIN before \in SUBSET Nat, IsFiniteSet(DOMAIN before)
  PROVE  \E pairs : IsPairing(pairs, before, after)
<1> DEFINE R == Removed(before, after)
           n == Cardinality(R)
<1>1. IsFiniteSet(R) /\ n \in Nat
  BY FS_Subset, FS_CardinalityType DEF Removed
<1>2. Small(n, before, after) = SUBSET R
  BY <1>1, FS_Subset DEF Small
<1>3. PICK f : IsPairingUpTo(f, n, before, after)
  BY <1>1, PairingExistsUpTo
<1> QED BY <1>2, <1>3 DEF IsPairing, IsPairingUpTo

(* What _likely_renames returns is the pairing of all removed columns.     *)
LEMMA RenamesSolve ==
  ASSUME NEW before, NEW after,
         DOMAIN before \in SUBSET Nat, IsFiniteSet(DOMAIN before)
  PROVE  \E pairs : /\ IsPairing(pairs, before, after)
                    /\ Renames(before, after) = pairs[Removed(before, after)]
<1> DEFINE P == CHOOSE pairs : IsPairing(pairs, before, after)
<1>1. IsPairing(P, before, after)
  BY PairingExists, Zenon
<1>2. Renames(before, after) = P[Removed(before, after)]
  BY Zenon DEF Renames, IsPairing, Removed
<1> QED BY <1>1, <1>2, Zenon
(* What the loop has done when it has been through the columns of S: pairs *)
(* of one type, none of them twice, and no two columns that match are both *)
(* left over.                                                              *)
Added(before, after) == DOMAIN after \ DOMAIN before

IsMatched(found, S, before, after) ==
  /\ \A pair \in found : /\ pair \in S \X Added(before, after)
                         /\ before[pair[1]] = after[pair[2]]
  /\ \A pair, other \in found :
        pair[1] = other[1] \/ pair[2] = other[2] => pair = other
  /\ \A gone \in S, new \in Added(before, after) :
        before[gone] = after[new] =>
          \E pair \in found : pair[1] = gone \/ pair[2] = new

(* One round of the loop keeps what is found a matching, and leaves no     *)
(* free column of the type it looked for.                                  *)
LEMMA MatchExtends ==
  ASSUME NEW before, NEW after, DOMAIN after \in SUBSET Nat,
         NEW S, NEW gone \in S, NEW found,
         IsMatched(found, S \ {gone}, before, after)
  PROVE  IsMatched(WithMatch(found, gone, before, after), S, before, after)
<1> DEFINE A == Added(before, after)
           taken == {pair[2] : pair \in found}
           free == {m \in A : after[m] = before[gone]} \ taken
           W == WithMatch(found, gone, before, after)
           f == First(free)
<1>1. W = IF free = {} THEN found ELSE found \cup {<<gone, f>>}
  BY DEF WithMatch, Added
<1>2. /\ \A pair \in found : /\ pair \in (S \ {gone}) \X A
                             /\ before[pair[1]] = after[pair[2]]
      /\ \A pair, other \in found :
            pair[1] = other[1] \/ pair[2] = other[2] => pair = other
      /\ \A g \in S \ {gone}, new \in A :
            before[g] = after[new] =>
              \E pair \in found : pair[1] = g \/ pair[2] = new
  BY DEF IsMatched
<1>3. CASE free = {}
  <2>1. W = found
    BY <1>1, <1>3
  <2>2. ASSUME NEW new \in A, before[gone] = after[new]
        PROVE  \E pair \in found : pair[1] = gone \/ pair[2] = new
    BY <1>3, <2>2
  <2> HIDE DEF A, W
  <2>3. IsMatched(found, S, before, after)
    BY <1>2, <2>2 DEF IsMatched, A
  <2> QED BY <2>1, <2>3 DEF W
<1>4. CASE free # {}
  <2>1. free \in SUBSET Nat
    BY DEF Added
  <2>2. f \in free
    BY <1>4, <2>1, FirstOfSome
  <2>3. W = found \cup {<<gone, f>>}
    BY <1>1, <1>4
  <2>4. f \in A /\ after[f] = before[gone] /\ (\A pair \in found : pair[2] # f)
    BY <2>2
  <2> HIDE DEF A, W, f, free, taken
  <2>5. ASSUME NEW pair \in W
        PROVE  pair \in S \X A /\ before[pair[1]] = after[pair[2]]
    <3>1. CASE pair \in found
      BY <1>2, <3>1
    <3>2. CASE pair = <<gone, f>>
      BY <2>4, <3>2
    <3> QED BY <2>3, <2>5, <3>1, <3>2
  <2>6. ASSUME NEW pair \in W, NEW other \in W,
               pair[1] = other[1] \/ pair[2] = other[2]
        PROVE  pair = other
    <3>1. ASSUME NEW p \in found PROVE p[1] # gone /\ p[2] # f
      BY <1>2, <2>4
    <3>2. <<gone, f>>[1] = gone /\ <<gone, f>>[2] = f
      OBVIOUS
    <3> QED BY <1>2, <2>3, <2>6, <3>1, <3>2
  <2>7. ASSUME NEW g \in S, NEW new \in A, before[g] = after[new]
        PROVE  \E pair \in W : pair[1] = g \/ pair[2] = new
    <3>1. CASE g = gone
      <4>1. <<gone, f>> \in W /\ <<gone, f>>[1] = g
        BY <2>3, <3>1
      <4> QED BY <4>1
    <3>2. CASE g # gone
      BY <1>2, <2>3, <2>7, <3>2
    <3> QED BY <3>1, <3>2
  <2> QED BY <2>5, <2>6, <2>7 DEF IsMatched, A, W
<1> QED BY <1>3, <1>4

(* So do all the rounds: no set of columns is the least to break it.       *)
LEMMA PairingMatches ==
  ASSUME NEW before, NEW after,
         DOMAIN before \in SUBSET Nat, IsFiniteSet(DOMAIN before),
         DOMAIN after \in SUBSET Nat,
         NEW pairs, IsPairing(pairs, before, after)
  PROVE  \A S \in SUBSET Removed(before, after) :
            IsMatched(pairs[S], S, before, after)
<1> DEFINE R == Removed(before, after)
           Bad == {S \in SUBSET R : ~ IsMatched(pairs[S], S, before, after)}
           Counts == {Cardinality(S) : S \in Bad}
<1> SUFFICES ASSUME Bad # {} PROVE FALSE
  OBVIOUS
<1>1. R \in SUBSET Nat /\ IsFiniteSet(R)
  BY FS_Subset DEF Removed
<1>2. ASSUME NEW S \in SUBSET R PROVE IsFiniteSet(S) /\ Cardinality(S) \in Nat
  BY <1>1, FS_Subset, FS_CardinalityType
<1>3. Counts \subseteq Nat /\ Counts # {}
  BY <1>2
<1>4. PICK k \in Counts : \A j \in Counts : ~ (<<j, k>> \in OpToRel(<, Nat))
  BY <1>3, NatLessThanWellFounded, WFMin
<1>5. \A j \in Counts : ~ (j < k)
  BY <1>3, <1>4 DEF OpToRel
<1>6. PICK S \in Bad : Cardinality(S) = k
  OBVIOUS
<1>7. pairs[S] = IF S = {} THEN {}
                 ELSE WithMatch(pairs[S \ {Last(S)}],
                                         Last(S), before, after)
  <2>1. S \in SUBSET R
    OBVIOUS
  <2> QED BY <2>1, Zenon DEF IsPairing
<1>8. CASE S = {}
  <2>1. IsMatched({}, {}, before, after)
    BY DEF IsMatched
  <2> QED BY <1>7, <1>8, <2>1
<1>9. CASE S # {}
  <2> DEFINE gone == Last(S)
             T == S \ {gone}
  <2>1. S \in SUBSET Nat /\ IsFiniteSet(S) /\ S \in SUBSET R
    BY <1>1, <1>2
  <2>2. gone \in S /\ Cardinality(T) = k - 1 /\ Cardinality(T) \in Nat /\ k \in Nat
    BY <1>6, <1>9, <2>1, OneLess
  <2>3. Cardinality(T) < k
    BY <2>2
  <2>4. T \in SUBSET R
    BY <2>1
  <2>5. IsMatched(pairs[T], T, before, after)
    BY <1>5, <2>3, <2>4
  <2>6. IsMatched(WithMatch(pairs[T], gone, before, after), S, before, after)
    BY <2>2, <2>5, MatchExtends
  <2>7. pairs[S] = WithMatch(pairs[T], gone, before, after)
    BY <1>7, <1>9
  <2> QED BY <2>6, <2>7
<1> QED BY <1>8, <1>9

(* Whatever the two shapes, the likely renames pair what can be paired.    *)
LEMMA RenamesMatch ==
  ASSUME NEW before, NEW after,
         DOMAIN before \in SUBSET Nat, IsFiniteSet(DOMAIN before),
         DOMAIN after \in SUBSET Nat
  PROVE  IsMatched(Renames(before, after), Removed(before, after),
                   before, after)
<1>1. PICK pairs : /\ IsPairing(pairs, before, after)
                   /\ Renames(before, after) = pairs[Removed(before, after)]
  BY RenamesSolve
<1> QED BY <1>1, PairingMatches

-----------------------------------------------------------------------------
(* Types of the baseline *)

Holdings == [at : Places, shape : Shapes,
             asOf : Nat \cup {NoAsOf}, nulls : Fractions]
Snapshots == [shape : Shapes, by : Comparers \cup Recorders]

(* What a shape, the fractions of a profile and a table are made of.       *)
LEMMA ShapeType ==
  ASSUME NEW s \in Shapes
  PROVE  DOMAIN s \in SUBSET Names /\ \A n \in DOMAIN s : s[n] \in Types
  BY DEF Shapes

LEMMA IsShape ==
  ASSUME NEW S \in SUBSET Names, NEW s \in [S -> Types]
  PROVE  s \in Shapes
  BY DEF Shapes

LEMMA FractionsType ==
  ASSUME NEW f \in Fractions
  PROVE  DOMAIN f \in SUBSET Names /\ \A n \in DOMAIN f : f[n] \in Levels
  BY DEF Fractions

LEMMA IsFractions ==
  ASSUME NEW S \in SUBSET Names, NEW f \in [S -> Levels]
  PROVE  f \in Fractions
  BY DEF Fractions

LEMMA TableType ==
  ASSUME NEW t \in Tables
  PROVE  /\ DOMAIN t \in SUBSET Names
         /\ \A n \in DOMAIN t : t[n].type \in Types /\ t[n].nulls \in Levels
<1>1. PICK S \in SUBSET Names : t \in [S -> [type : Types, nulls : Levels]]
  BY DEF Tables
<1> QED BY <1>1

LEMMA ShapeOfTable ==
  ASSUME NEW t \in Tables
  PROVE  Shape(t) \in Shapes /\ DOMAIN Shape(t) = DOMAIN t
<1>1. Shape(t) \in [DOMAIN t -> Types]
  BY TableType DEF Shape
<1> QED BY <1>1, TableType, IsShape

LEMMA Nothing ==
  /\ <<>> \in Shapes
  /\ <<>> \in Fractions
  /\ DOMAIN <<>> = {}
<1>1. DOMAIN <<>> = {}
  OBVIOUS
<1>2. <<>> \in [{} -> Types] /\ <<>> \in [{} -> Levels]
  OBVIOUS
<1> QED BY <1>1, <1>2, IsShape, IsFractions

(* What an idle call holds has a type, and so has what a comparison says.  *)
LEMMA IdleType ==
  /\ Idle \in Holdings /\ Done \in Holdings
  /\ Idle.at = "idle" /\ Done.at = "done"
  /\ Idle.nulls = <<>> /\ Done.nulls = <<>>
  BY Nothing DEF Idle, Done, NoAsOf, Holdings, Places

LEMMA DiffType ==
  ASSUME NEW before \in Shapes, NEW after \in Shapes
  PROVE  Diff(before, after) \in Answers
<1> DEFINE added == DOMAIN after \ DOMAIN before
           removed == DOMAIN before \ DOMAIN after
           changed == {n \in DOMAIN before \cap DOMAIN after : before[n] # after[n]}
           renames == Renames(before, after)
<1>1. DOMAIN before \in SUBSET Names /\ DOMAIN after \in SUBSET Names
  BY ShapeType
<1>2. added \in SUBSET Names /\ removed \in SUBSET Names /\ changed \in SUBSET Names
  BY <1>1
<1>3. IsMatched(renames, Removed(before, after), before, after)
  <2>1. /\ DOMAIN before \in SUBSET Nat /\ IsFiniteSet(DOMAIN before)
        /\ DOMAIN after \in SUBSET Nat
    <3>1. Names \subseteq Nat /\ IsFiniteSet(Names)
      BY NamesAreOrdered
    <3>2. IsFiniteSet(DOMAIN before)
      BY <1>1, <3>1, FS_Subset
    <3> QED BY <1>1, <3>1, <3>2
  <2> QED BY <2>1, RenamesMatch
<1>4. renames \in SUBSET (Names \X Names)
  BY <1>1, <1>3 DEF IsMatched, Removed, Added
<1>5. Diff(before, after) =
        [kind |-> "diff", added |-> added, removed |-> removed,
         changed |-> changed, renames |-> renames]
  BY DEF Diff
<1> HIDE DEF added, removed, changed, renames
<1>6. Diff(before, after) \in
        [kind : {"diff"}, added : SUBSET Names, removed : SUBSET Names,
         changed : SUBSET Names, renames : SUBSET (Names \X Names)]
  BY <1>2, <1>4, <1>5
<1> QED BY <1>6 DEF Answers

(* A call that goes on, and one that returns.                              *)
LEMMA HoldsType ==
  ASSUME BaselineTypeOK, NEW c \in Calls, NEW h \in Holdings,
         Holds(c, h)
  PROVE  /\ call' \in [Calls -> Holdings]
         /\ call'[c] = h
         /\ \A d \in Calls : d # c => call'[d] = call[d]
  BY DEF BaselineTypeOK, Holds, Holdings

LEMMA ReturnType ==
  ASSUME BaselineTypeOK, NEW c \in Calls,
         NEW a \in Answers, Return(c, a)
  PROVE  /\ call' \in [Calls -> Holdings]
         /\ call'[c] = Done
         /\ \A d \in Calls : d # c => call'[d] = call[d]
         /\ returned' \in [Calls -> Answers]
         /\ returned'[c] = a
         /\ \A d \in Calls : d # c => returned'[d] = returned[d]
<1>1. Holds(c, Done) /\ returned' = [returned EXCEPT ![c] = a]
  BY DEF Return
<1>2. returned \in [Calls -> Answers]
  BY DEF BaselineTypeOK
<1> QED BY <1>1, <1>2, HoldsType, IdleType

LEMMA PlainAnswers ==
  /\ NothingTold \in Answers /\ NotFound \in Answers
  /\ Failed \in Answers /\ TooRecent \in Answers
  /\ [kind |-> "created"] \in Answers
  /\ NothingTold.kind # "profile" /\ NotFound.kind # "profile"
  /\ Failed.kind # "profile" /\ TooRecent.kind # "profile"
  BY DEF Answers, NothingTold, NotFound, Failed,
         TooRecent

-----------------------------------------------------------------------------
(* The baseline.  Snapshots are never taken back, so whoever began when    *)
(* there was one finds one; and whatever a call holds, or left in the      *)
(* profiles, was in the table at some time.                                *)
Remembering ==
  /\ late # {} => ~NeverSeen
  /\ \A c \in Comparers : call[c].at = "record" => c \notin late
  /\ \A i \in DOMAIN snapshots :
        snapshots[i].by \in Comparers => call[snapshots[i].by].at = "done"

Have(f) == \A n \in DOMAIN f : f[n] \in was[n]

Measuring ==
  /\ \A n \in DOMAIN table : table[n].nulls \in was[n]
  /\ \A i \in DOMAIN profiles : Have(profiles[i])
  /\ \A c \in Calls :
        /\ Have(call[c].nulls)
        /\ call[c].at = "store" => call[c].asOf \in 0 .. Len(profiles)

BaselineInv ==
  /\ BaselineTypeOK
  /\ Remembering /\ Measuring
  /\ KnownTableIsCompared /\ AlarmHasACause

(* An alarm of one answer has its cause.                                   *)
HasACause(a) ==
  a.kind = "profile" =>
    \A n \in a.regressed : \E low, high \in was[n] : high - low > Alert

(* At first nothing was recorded.                                          *)
LEMMA BaselineHoldsAtFirst == BaselineInit => BaselineInv
<1> SUFFICES ASSUME BaselineInit PROVE BaselineInv
  OBVIOUS
<1> USE DEF BaselineInit
<1>1. table \in Tables /\ changes \in 0 .. MaxChanges
  BY TableIsKnown
<1>2. /\ snapshots \in Seq(Snapshots) /\ profiles \in Seq(Fractions)
      /\ DOMAIN snapshots = {} /\ DOMAIN profiles = {} /\ late = {}
  BY EmptySeq
<1>3. call \in [Calls -> Holdings]
  BY IdleType
<1>4. returned \in [Calls -> Answers]
  BY PlainAnswers
<1>5. /\ was \in [Names -> SUBSET Levels]
      /\ \A n \in DOMAIN table : table[n].nulls \in was[n]
  BY <1>1, TableType
<1>6. BaselineTypeOK
  BY <1>1, <1>2, <1>3, <1>4, <1>5 DEF BaselineTypeOK, Holdings, Snapshots
<1>7. \A c \in Calls : call[c] = Idle /\ returned[c] = NothingTold
  OBVIOUS
<1>8. Measuring
  BY <1>2, <1>5, <1>7, IdleType, Nothing DEF Measuring, Have
<1>9. Remembering /\ KnownTableIsCompared
  BY <1>2 DEF Remembering, KnownTableIsCompared
<1>10. AlarmHasACause
  BY <1>7, PlainAnswers DEF AlarmHasACause
<1> QED BY <1>6, <1>8, <1>9, <1>10 DEF BaselineInv

(* What a step of one call must not do, when it records nothing.           *)
LEMMA CallKeeps ==
  ASSUME BaselineInv, NEW c \in Calls,
         UNCHANGED <<table, snapshots, profiles, was, changes>>,
         call' \in [Calls -> Holdings],
         \A d \in Calls : d # c => call'[d] = call[d],
         Have(call'[c].nulls),
         call'[c].at = "store" => call'[c].asOf \in 0 .. Len(profiles),
         call[c].at # "done",
         returned' \in [Calls -> Answers],
         \A d \in Calls : d # c => returned'[d] = returned[d],
         HasACause(returned'[c]),
         late' = late \/ (/\ late' = late \cup {c} /\ c \in Comparers
                          /\ ~NeverSeen
                          /\ call'[c].at # "record"),
         c \in Comparers /\ call'[c].at = "record" => c \notin late
  PROVE  BaselineInv'
<1>1. BaselineTypeOK'
  BY DEF BaselineInv, BaselineTypeOK, Holdings
<1>2. Comparers \subseteq Calls
  BY DEF Calls
<1>3. c \in Comparers => \A i \in DOMAIN snapshots : snapshots[i].by # c
  BY DEF BaselineInv, Remembering
<1>4. Remembering'
  <2>1. (late # {} => ~NeverSeen)'
    BY DEF BaselineInv, Remembering, NeverSeen
  <2>2. ASSUME NEW d \in Comparers, call'[d].at = "record" PROVE d \notin late'
    BY <1>2, <2>2 DEF BaselineInv, Remembering
  <2>3. ASSUME NEW i \in DOMAIN snapshots, snapshots[i].by \in Comparers
        PROVE  call'[snapshots[i].by].at = "done"
    BY <1>2, <1>3, <2>3 DEF BaselineInv, Remembering
  <2> QED BY <2>1, <2>2, <2>3 DEF Remembering
<1>5. Measuring'
  <2>1. ASSUME NEW d \in Calls
        PROVE  /\ Have(call'[d].nulls)
               /\ call'[d].at = "store" => call'[d].asOf \in 0 .. Len(profiles)
    BY DEF BaselineInv, Measuring, Have
  <2> QED BY <2>1 DEF BaselineInv, Measuring, Have
<1>6. KnownTableIsCompared'
  BY <1>3 DEF BaselineInv, KnownTableIsCompared
<1>7. AlarmHasACause'
  <2>1. ASSUME NEW d \in Calls PROVE HasACause(returned'[d])
    BY DEF BaselineInv, AlarmHasACause, HasACause
  <2> QED BY <2>1 DEF AlarmHasACause, HasACause
<1> QED BY <1>1, <1>4, <1>5, <1>6, <1>7 DEF BaselineInv

(* The two ways a call goes on without recording anything.                 *)
LEMMA HoldKeeps ==
  ASSUME BaselineInv, NEW c \in Calls,
         NEW h \in Holdings, Holds(c, h), UNCHANGED returned,
         UNCHANGED <<table, snapshots, profiles, was, changes>>,
         Have(h.nulls), h.at = "store" => h.asOf \in 0 .. Len(profiles),
         call[c].at # "done",
         late' = late \/ (/\ late' = late \cup {c} /\ c \in Comparers
                          /\ ~NeverSeen /\ h.at # "record"),
         c \in Comparers /\ h.at = "record" => c \notin late
  PROVE  BaselineInv'
<1>1. /\ call' \in [Calls -> Holdings] /\ call'[c] = h
      /\ \A d \in Calls : d # c => call'[d] = call[d]
  BY HoldsType DEF BaselineInv
<1>2. /\ returned' \in [Calls -> Answers]
      /\ \A d \in Calls : returned'[d] = returned[d]
      /\ HasACause(returned'[c])
  BY DEF BaselineInv, BaselineTypeOK, AlarmHasACause, HasACause
<1> QED BY <1>1, <1>2, CallKeeps

LEMMA ReturnKeeps ==
  ASSUME BaselineInv, NEW c \in Calls,
         NEW a \in Answers, Return(c, a), a.kind # "profile",
         UNCHANGED <<table, snapshots, profiles, was, changes>>,
         call[c].at # "done",
         late' = late \/ (/\ late' = late \cup {c} /\ c \in Comparers
                          /\ ~NeverSeen)
  PROVE  BaselineInv'
<1>1. /\ call' \in [Calls -> Holdings] /\ call'[c] = Done
      /\ \A d \in Calls : d # c => call'[d] = call[d]
      /\ returned' \in [Calls -> Answers] /\ returned'[c] = a
      /\ \A d \in Calls : d # c => returned'[d] = returned[d]
  BY ReturnType DEF BaselineInv
<1>2. Have(call'[c].nulls) /\ call'[c].at = "done"
  BY <1>1, IdleType, Nothing DEF Have
<1>3. HasACause(returned'[c])
  BY <1>1 DEF HasACause
<1> QED BY <1>1, <1>2, <1>3, CallKeeps

(* What a call that is under way holds.                                    *)
LEMMA HoldingOf ==
  ASSUME BaselineTypeOK, NEW c \in Calls
  PROVE  /\ call[c] \in Holdings
         /\ call[c].shape \in Shapes /\ call[c].nulls \in Fractions
         /\ call[c].asOf \in Nat \cup {NoAsOf}
  BY DEF BaselineTypeOK, Holdings

(* A call that goes on from where it was, or begins.                       *)
LEMMA Moves ==
  ASSUME NEW h \in Holdings, NEW p \in Places
  PROVE  /\ [h EXCEPT !.at = p] \in Holdings
         /\ [h EXCEPT !.at = p].at = p
         /\ [h EXCEPT !.at = p].nulls = h.nulls
         /\ [h EXCEPT !.at = p].asOf = h.asOf
  BY DEF Holdings

(* The latest snapshot is one of those recorded.                           *)
LEMMA LatestIsRecorded ==
  ASSUME BaselineTypeOK, NEW asOf \in Nat \cup {NoAsOf}
  PROVE  LatestSnapshot(asOf) \in 0 .. Len(snapshots)
<1>1. Len(snapshots) \in Nat
  BY DEF BaselineTypeOK
<1> QED BY <1>1 DEF LatestSnapshot, NoAsOf

(* A comparison reads the table, or fails to.                              *)
LEMMA ReflectKeeps ==
  ASSUME BaselineInv, NEW c \in Comparers, Reflect(c)
  PROVE  BaselineInv'
<1>1. /\ c \in Calls /\ BaselineTypeOK
      /\ call[c].at = "idle"
      /\ UNCHANGED <<table, snapshots, profiles, was, changes>>
      /\ late' = IF NeverSeen THEN late ELSE late \cup {c}
  BY DEF Reflect, Began, Calls, BaselineInv
<1>2. CASE DOMAIN table = {}
  <2>1. Return(c, NotFound)
    BY <1>2 DEF Reflect
  <2> QED BY <1>1, <2>1, PlainAnswers, ReturnKeeps
<1>3. CASE DOMAIN table # {}
  <2>1. PICK asOf \in {NoAsOf} \cup 0 .. Len(snapshots) :
          Holds(c, [Idle EXCEPT !.at = "look", !.asOf = asOf,
                                                  !.shape = Shape(table)])
    BY <1>3 DEF Reflect
  <2> DEFINE h == [Idle EXCEPT !.at = "look", !.asOf = asOf,
                                        !.shape = Shape(table)]
  <2>2. Shape(table) \in Shapes
    BY <1>1, ShapeOfTable DEF BaselineTypeOK
  <2>3. asOf \in Nat \cup {NoAsOf}
    OBVIOUS
  <2>4. h \in Holdings /\ h.at = "look" /\ h.nulls = <<>>
    BY <2>2, <2>3, Nothing DEF Holdings, Idle, Places
  <2>5. Have(h.nulls)
    BY <2>4, Nothing DEF Have
  <2>6. UNCHANGED returned
    BY <1>3 DEF Reflect
  <2>7. Holds(c, h)
    BY <2>1
  <2> HIDE DEF h
  <2> QED BY <1>1, <2>4, <2>5, <2>6, <2>7, HoldKeeps
<1> QED BY <1>2, <1>3

(* It looks for the snapshot of the moment it was asked about.             *)
LEMMA LookKeeps ==
  ASSUME BaselineInv, NEW c \in Comparers,
         Look(c) \/ LookForAny(c)
  PROVE  BaselineInv'
<1>1. /\ c \in Calls /\ BaselineTypeOK
      /\ call[c].at \in {"look", "any"}
      /\ UNCHANGED <<table, snapshots, profiles, was, changes, late>>
  BY DEF Look, LookForAny, Calls, BaselineInv,
         histories
<1>2. Have(call[c].nulls)
  BY <1>1 DEF BaselineInv, Measuring
<1>3. call[c] \in Holdings
  BY <1>1, HoldingOf
<1>4. CASE Look(c)
  <2> DEFINE latest == LatestSnapshot(call[c].asOf)
  <2>1. latest \in 0 .. Len(snapshots)
    BY <1>1, HoldingOf, LatestIsRecorded
  <2>2. CASE latest # 0
    <3> DEFINE a == Diff(snapshots[latest].shape, call[c].shape)
    <3>1. Return(c, a)
      BY <1>4, <2>2 DEF Look
    <3>2. snapshots[latest].shape \in Shapes
      <4>1. snapshots \in Seq(Snapshots)
        BY <1>1 DEF BaselineTypeOK, Snapshots
      <4>2. Len(snapshots) \in Nat /\ latest \in 1 .. Len(snapshots)
        BY <2>1, <2>2, <4>1
      <4> HIDE DEF latest
      <4>3. snapshots[latest] \in Snapshots
        BY <4>1, <4>2
      <4> QED BY <4>3 DEF Snapshots
    <3>3. a \in Answers
      BY <1>1, <3>2, DiffType, HoldingOf
    <3>4. a.kind # "profile"
      BY DEF Diff
    <3> HIDE DEF a
    <3> QED BY <1>1, <3>1, <3>3, <3>4, ReturnKeeps
  <2>3. CASE latest = 0
    <3> DEFINE h == [call[c] EXCEPT !.at = "any"]
    <3>1. Holds(c, h) /\ UNCHANGED returned
      BY <1>4, <2>3 DEF Look
    <3>2. h \in Holdings /\ h.at = "any" /\ h.nulls = call[c].nulls
      BY <1>3, Moves DEF Places
    <3> HIDE DEF h
    <3> QED BY <1>1, <1>2, <3>1, <3>2, HoldKeeps
  <2> QED BY <2>2, <2>3
<1>5. CASE LookForAny(c)
  <2>1. CASE NeverSeen
    <3> DEFINE h == [call[c] EXCEPT !.at = "record"]
    <3>1. Holds(c, h) /\ UNCHANGED returned
      BY <1>5, <2>1 DEF LookForAny
    <3>2. h \in Holdings /\ h.at = "record" /\ h.nulls = call[c].nulls
      BY <1>3, Moves DEF Places
    <3>3. late = {}
      BY <2>1 DEF BaselineInv, Remembering
    <3> HIDE DEF h
    <3> QED BY <1>1, <1>2, <3>1, <3>2, <3>3, HoldKeeps
  <2>2. CASE ~NeverSeen
    <3>1. Return(c, TooRecent)
      BY <1>5, <2>2 DEF LookForAny
    <3> QED BY <1>1, <3>1, PlainAnswers, ReturnKeeps
  <2> QED BY <2>1, <2>2
<1> QED BY <1>4, <1>5

(* A snapshot is recorded: by the baseline command, or by a comparison     *)
(* that began before there was any.                                        *)
LEMMA RecordKeeps ==
  ASSUME BaselineInv, NEW c \in Comparers \cup Recorders,
         RecordSnapshot(c),
         UNCHANGED <<table, profiles, was, late, changes>>,
         call' \in [Calls -> Holdings],
         \A d \in Calls : d # c => call'[d] = call[d],
         Have(call'[c].nulls), call'[c].at \notin {"store", "record"},
         c \in Comparers => call'[c].at = "done",
         returned' \in [Calls -> Answers],
         \A d \in Calls : d # c => returned'[d] = returned[d],
         HasACause(returned'[c]),
         c \notin late
  PROVE  BaselineInv'
<1>1. Comparers \subseteq Calls /\ c \in Calls
  BY DEF Calls
<1> DEFINE s == [shape |-> call[c].shape, by |-> c]
<1>2. snapshots \in Seq(Snapshots) /\ s \in Snapshots
  BY <1>1, HoldingOf DEF BaselineInv, BaselineTypeOK, Snapshots
<1>3. snapshots' = Append(snapshots, s)
  BY DEF RecordSnapshot
<1> HIDE DEF s
<1>4. /\ snapshots' \in Seq(Snapshots) /\ snapshots' # <<>>
      /\ \A i \in DOMAIN snapshots' :
            \/ i \in DOMAIN snapshots /\ snapshots'[i] = snapshots[i]
            \/ snapshots'[i] = s
  BY <1>2, <1>3, AppendProperties, LenProperties
<1>5. s.by = c
  BY DEF s
<1>6. BaselineTypeOK'
  BY <1>4 DEF BaselineInv, BaselineTypeOK, Holdings, Snapshots
<1>7. Remembering'
  <2>1. ASSUME NEW d \in Comparers, call'[d].at = "record" PROVE d \notin late
    BY <1>1, <2>1 DEF BaselineInv, Remembering
  <2>2. ASSUME NEW i \in DOMAIN snapshots', snapshots'[i].by \in Comparers
        PROVE  call'[snapshots'[i].by].at = "done"
    <3>1. CASE i \in DOMAIN snapshots /\ snapshots'[i] = snapshots[i]
      BY <1>1, <2>2, <3>1 DEF BaselineInv, Remembering
    <3>2. CASE snapshots'[i] = s
      BY <1>5, <2>2, <3>2
    <3> QED BY <1>4, <3>1, <3>2
  <2> QED BY <1>4, <2>1, <2>2 DEF Remembering, NeverSeen
<1>8. Measuring'
  <2>1. ASSUME NEW d \in Calls
        PROVE  /\ Have(call'[d].nulls)
               /\ call'[d].at = "store" => call'[d].asOf \in 0 .. Len(profiles)
    BY DEF BaselineInv, Measuring, Have
  <2> QED BY <2>1 DEF BaselineInv, Measuring, Have
<1>9. KnownTableIsCompared'
  <2>1. ASSUME NEW i \in DOMAIN snapshots' PROVE snapshots'[i].by \notin late
    <3>1. CASE i \in DOMAIN snapshots /\ snapshots'[i] = snapshots[i]
      BY <3>1 DEF BaselineInv, KnownTableIsCompared
    <3> QED BY <1>4, <1>5, <3>1
  <2> QED BY <2>1 DEF KnownTableIsCompared
<1>10. AlarmHasACause'
  <2>1. ASSUME NEW d \in Calls PROVE HasACause(returned'[d])
    BY DEF BaselineInv, AlarmHasACause, HasACause
  <2> QED BY <2>1 DEF AlarmHasACause, HasACause
<1> QED BY <1>6, <1>7, <1>8, <1>9, <1>10 DEF BaselineInv

(* A comparison that found no snapshot at all records one.                 *)
LEMMA BootstrapKeeps ==
  ASSUME BaselineInv, NEW c \in Comparers, Bootstrap(c)
  PROVE  BaselineInv'
<1>1. /\ c \in Calls /\ call[c].at = "record"
      /\ RecordSnapshot(c)
      /\ UNCHANGED <<table, profiles, was, changes, late>>
  BY DEF Bootstrap, Calls, histories
<1>2. PICK a \in {[kind |-> "created"], Failed} : Return(c, a)
  BY DEF Bootstrap, Commits
<1>3. a \in Answers /\ a.kind # "profile"
  BY PlainAnswers
<1>4. /\ call' \in [Calls -> Holdings] /\ call'[c] = Done
      /\ \A d \in Calls : d # c => call'[d] = call[d]
      /\ returned' \in [Calls -> Answers] /\ returned'[c] = a
      /\ \A d \in Calls : d # c => returned'[d] = returned[d]
  BY <1>1, <1>2, <1>3, ReturnType DEF BaselineInv
<1>5. Have(call'[c].nulls) /\ call'[c].at = "done" /\ HasACause(returned'[c])
  BY <1>3, <1>4, IdleType, Nothing DEF Have, HasACause
<1>6. c \notin late
  BY <1>1 DEF BaselineInv, Remembering
<1> QED BY <1>1, <1>4, <1>5, <1>6, RecordKeeps

(* The baseline command records one whatever there is, and goes on to the  *)
(* profile.                                                                *)
LEMMA RebaseKeeps ==
  ASSUME BaselineInv, NEW r \in Recorders, Rebase(r)
  PROVE  BaselineInv'
<1> DEFINE h == [Idle EXCEPT !.at = "profile"]
<1>1. /\ r \in Calls /\ r \notin Comparers
      /\ RecordSnapshot(r) /\ Holds(r, h)
      /\ UNCHANGED <<table, profiles, was, changes, late, returned>>
  BY CallsAreDistinct DEF Rebase, Calls, histories
<1>2. h \in Holdings /\ h.at = "profile" /\ h.nulls = <<>>
  BY IdleType, Moves DEF Places
<1> HIDE DEF h
<1>3. /\ call' \in [Calls -> Holdings] /\ call'[r] = h
      /\ \A d \in Calls : d # r => call'[d] = call[d]
  BY <1>1, <1>2, HoldsType DEF BaselineInv
<1>4. Have(call'[r].nulls)
  BY <1>2, <1>3, Nothing DEF Have
<1>5. /\ returned' \in [Calls -> Answers]
      /\ \A d \in Calls : returned'[d] = returned[d]
      /\ HasACause(returned'[r])
  BY <1>1 DEF BaselineInv, BaselineTypeOK, AlarmHasACause, HasACause
<1>6. r \notin late
  BY <1>1 DEF BaselineInv, BaselineTypeOK
<1> QED BY <1>1, <1>2, <1>3, <1>4, <1>5, <1>6, RecordKeeps

(* A profile chooses its columns, measures them and takes the earlier one. *)
LEMMA ProfileKeeps ==
  ASSUME BaselineInv, NEW c \in Profilers \cup Recorders,
         Profile(c)
  PROVE  BaselineInv'
<1>1. /\ c \in Calls /\ BaselineTypeOK
      /\ call[c].at \in {"profile", "idle"}
      /\ UNCHANGED <<table, snapshots, profiles, was, changes, late>>
  BY DEF Profile, Calls, BaselineInv, histories
<1>2. PICK wanted \in IF c \in Recorders THEN {DOMAIN table} ELSE SUBSET Names :
        IF DOMAIN table # {} /\ wanted \subseteq DOMAIN table
          THEN /\ Holds(c, [Idle EXCEPT !.at = "measure",
                                     !.shape = [n \in wanted |-> table[n].type]])
               /\ UNCHANGED returned
          ELSE Return(c, NotFound)
  BY DEF Profile
<1>3. CASE DOMAIN table # {} /\ wanted \subseteq DOMAIN table
  <2> DEFINE s == [n \in wanted |-> table[n].type]
             h == [Idle EXCEPT !.at = "measure", !.shape = s]
  <2>1. /\ DOMAIN table \in SUBSET Names
        /\ \A n \in DOMAIN table : table[n].type \in Types
    BY <1>1, TableType DEF BaselineTypeOK
  <2>2. wanted \in SUBSET Names /\ s \in [wanted -> Types]
    BY <1>3, <2>1
  <2>3. s \in Shapes
    BY <2>2, IsShape
  <2>4. Holds(c, h) /\ UNCHANGED returned
    BY <1>2, <1>3
  <2> HIDE DEF s
  <2>5. h \in Holdings /\ h.at = "measure" /\ h.nulls = <<>>
    BY <2>3, Nothing DEF Holdings, Idle, Places, NoAsOf
  <2>6. Have(h.nulls)
    BY <2>5, Nothing DEF Have
  <2> HIDE DEF h
  <2> QED BY <1>1, <2>4, <2>5, <2>6, HoldKeeps
<1>4. CASE ~ (DOMAIN table # {} /\ wanted \subseteq DOMAIN table)
  <2>1. Return(c, NotFound)
    BY <1>2, <1>4
  <2> QED BY <1>1, <2>1, PlainAnswers, ReturnKeeps
<1> QED BY <1>3, <1>4

LEMMA MeasureKeeps ==
  ASSUME BaselineInv, NEW c \in Profilers \cup Recorders,
         Measure(c)
  PROVE  BaselineInv'
<1> DEFINE wanted == DOMAIN call[c].shape
           f == Nulls(table, wanted)
           h == [Idle EXCEPT !.at = "compare", !.nulls = f]
<1>1. /\ c \in Calls /\ BaselineTypeOK
      /\ call[c].at = "measure" /\ wanted \subseteq DOMAIN table
      /\ Holds(c, h)
      /\ UNCHANGED <<table, snapshots, profiles, was, changes, late, returned>>
  BY DEF Measure, Calls, BaselineInv, histories
<1>2. /\ DOMAIN table \in SUBSET Names
      /\ \A n \in DOMAIN table : table[n].nulls \in Levels
  BY <1>1, TableType DEF BaselineTypeOK
<1> HIDE DEF wanted
<1>3. /\ wanted \in SUBSET Names /\ f \in [wanted -> Levels]
      /\ \A n \in wanted : f[n] = table[n].nulls
  BY <1>1, <1>2 DEF Nulls
<1>4. f \in Fractions
  BY <1>3, IsFractions
<1>5. Have(f)
  BY <1>1, <1>3 DEF BaselineInv, Measuring, Have
<1> HIDE DEF f
<1>6. h \in Holdings /\ h.at = "compare" /\ h.nulls = f
  BY <1>4, Nothing DEF Holdings, Idle, Places, NoAsOf
<1> HIDE DEF h
<1> QED BY <1>1, <1>5, <1>6, HoldKeeps

LEMMA CompareKeeps ==
  ASSUME BaselineInv, NEW c \in Profilers \cup Recorders,
         Compare(c)
  PROVE  BaselineInv'
<1> DEFINE n == Len(profiles)
           h == [call[c] EXCEPT !.at = "store", !.asOf = n]
<1>1. /\ c \in Calls /\ BaselineTypeOK
      /\ call[c].at = "compare"
      /\ Holds(c, h)
      /\ UNCHANGED <<table, snapshots, profiles, was, changes, late, returned>>
  BY DEF Compare, Calls, BaselineInv, histories,
         LatestProfile
<1>2. n \in Nat
  BY <1>1 DEF BaselineTypeOK
<1>3. Have(call[c].nulls)
  BY <1>1 DEF BaselineInv, Measuring
<1>4. call[c] \in Holdings
  BY <1>1, HoldingOf
<1> HIDE DEF n
<1>5. h \in Holdings /\ h.at = "store" /\ h.nulls = call[c].nulls /\ h.asOf = n
  BY <1>2, <1>4 DEF Holdings, Places
<1>6. h.asOf \in 0 .. n
  BY <1>2, <1>5
<1>7. h.asOf \in 0 .. Len(profiles)
  BY <1>6 DEF n
<1>8. /\ Holds(c, h) /\ h \in Holdings /\ Have(h.nulls)
      /\ h.at = "store"
  BY <1>1, <1>3, <1>5
<1> HIDE DEF h
<1> QED BY <1>1, <1>7, <1>8, HoldKeeps

(* The baseline command reads the table, if there is one.                  *)
LEMMA SurveyKeeps ==
  ASSUME BaselineInv, NEW r \in Recorders, Survey(r)
  PROVE  BaselineInv'
<1>1. /\ r \in Calls /\ r \notin Comparers /\ BaselineTypeOK
      /\ call[r].at = "idle"
      /\ UNCHANGED <<table, snapshots, profiles, was, changes, late>>
  BY CallsAreDistinct DEF Survey, Calls, BaselineInv, histories
<1>2. CASE DOMAIN table = {}
  <2>1. Return(r, NotFound)
    BY <1>2 DEF Survey
  <2> QED BY <1>1, <2>1, PlainAnswers, ReturnKeeps
<1>3. CASE DOMAIN table # {}
  <2> DEFINE s == Shape(table)
             h == [Idle EXCEPT !.at = "snapshot", !.shape = s]
  <2>1. Holds(r, h) /\ UNCHANGED returned
    BY <1>3 DEF Survey
  <2>2. s \in Shapes
    BY <1>1, ShapeOfTable DEF BaselineTypeOK
  <2> HIDE DEF s
  <2>3. h \in Holdings /\ h.at = "snapshot" /\ h.nulls = <<>>
    BY <2>2, Nothing DEF Holdings, Idle, Places, NoAsOf
  <2>4. Have(h.nulls)
    BY <2>3, Nothing DEF Have
  <2> HIDE DEF h
  <2> QED BY <1>1, <2>1, <2>3, <2>4, HoldKeeps
<1> QED BY <1>2, <1>3

LEMMA FailKeeps ==
  ASSUME BaselineInv, NEW c \in Calls, Fail(c)
  PROVE  BaselineInv'
<1>1. /\ call[c].at # "done" /\ Return(c, Failed)
      /\ UNCHANGED <<table, snapshots, profiles, was, changes, late>>
  BY DEF Fail, histories
<1> QED BY <1>1, PlainAnswers, ReturnKeeps

(* A column that is called out was measured twice, by whomever.            *)
LEMMA AlarmsAreCaused ==
  ASSUME NEW before, NEW now, Have(before), Have(now)
  PROVE  \A n \in Regressed(before, now) :
            \E low, high \in was[n] : high - low > Alert
  BY DEF Have, Regressed, Comparable

(* A profile is stored with the alarms it raises.                          *)
LEMMA StoreKeeps ==
  ASSUME BaselineInv, NEW c \in Profilers \cup Recorders,
         Store(c)
  PROVE  BaselineInv'
<1> DEFINE now == call[c].nulls
           before == IF call[c].asOf = 0 THEN <<>> ELSE profiles[call[c].asOf]
           regressed == Regressed(before, now)
           a == [kind |-> "profile", baseline |-> before, now |-> now,
                 regressed |-> regressed]
<1>1. /\ c \in Calls /\ BaselineTypeOK
      /\ call[c].at = "store"
      /\ profiles' = Append(profiles, now)
      /\ UNCHANGED <<table, snapshots, was, changes, late>>
  BY DEF Store, Calls, BaselineInv, histories,
         RecordProfile
<1>2. PICK r \in {a, Failed} : Return(c, r)
  BY DEF Store, Commits
<1>3. profiles \in Seq(Fractions) /\ Len(profiles) \in Nat
  BY <1>1 DEF BaselineTypeOK
<1>4. now \in Fractions /\ Have(now)
  BY <1>1, HoldingOf DEF BaselineInv, Measuring
<1>5. call[c].asOf \in 0 .. Len(profiles)
  BY <1>1 DEF BaselineInv, Measuring
<1>6. before \in Fractions /\ Have(before)
  <2>1. CASE call[c].asOf = 0
    BY <2>1, Nothing DEF Have
  <2>2. CASE call[c].asOf # 0
    <3> DEFINE i == call[c].asOf
    <3>1. i \in 1 .. Len(profiles)
      BY <1>3, <1>5, <2>2
    <3>2. before = profiles[i]
      BY <2>2
    <3> HIDE DEF i, before
    <3>3. profiles[i] \in Fractions /\ i \in DOMAIN profiles
      BY <1>3, <3>1
    <3>4. Have(profiles[i])
      BY <3>3 DEF BaselineInv, Measuring
    <3> QED BY <3>2, <3>3, <3>4
  <2> QED BY <2>1, <2>2
<1> HIDE DEF now, before
<1>7. regressed \in SUBSET Names
  <2>1. DOMAIN now \in SUBSET Names
    BY <1>4, FractionsType
  <2> QED BY <2>1 DEF Regressed, Comparable
<1>8. \A n \in regressed : \E low, high \in was[n] : high - low > Alert
  BY <1>4, <1>6, AlarmsAreCaused
<1> HIDE DEF regressed
<1>9. a \in Answers
  <2>1. a \in [kind : {"profile"}, baseline : Fractions,
               now : Fractions, regressed : SUBSET Names]
    BY <1>4, <1>6, <1>7
  <2> HIDE DEF a
  <2> QED BY <2>1 DEF Answers
<1>10. HasACause(a) /\ HasACause(Failed)
  BY <1>8, PlainAnswers DEF HasACause
<1> HIDE DEF a
<1>11. r \in Answers /\ HasACause(r)
  BY <1>2, <1>9, <1>10, PlainAnswers
<1>12. /\ call' \in [Calls -> Holdings] /\ call'[c] = Done
       /\ \A d \in Calls : d # c => call'[d] = call[d]
       /\ returned' \in [Calls -> Answers] /\ returned'[c] = r
       /\ \A d \in Calls : d # c => returned'[d] = returned[d]
  BY <1>1, <1>2, <1>11, ReturnType
<1>13. /\ profiles' \in Seq(Fractions)
       /\ Len(profiles') = Len(profiles) + 1
       /\ \A i \in DOMAIN profiles' :
             \/ i \in DOMAIN profiles /\ profiles'[i] = profiles[i]
             \/ profiles'[i] = now
  BY <1>1, <1>3, <1>4, AppendProperties, LenProperties
<1>14. BaselineTypeOK'
  BY <1>1, <1>12, <1>13 DEF BaselineTypeOK, Holdings
<1>15. c \notin Comparers
  BY CallsAreDistinct
<1>16. Comparers \subseteq Calls
  BY DEF Calls
<1>17. Remembering'
  <2>1. ASSUME NEW d \in Comparers PROVE call'[d] = call[d]
    BY <1>12, <1>15, <1>16
  <2> QED BY <1>1, <2>1 DEF BaselineInv, Remembering, NeverSeen
<1>18. Measuring'
  <2>1. \A i \in DOMAIN profiles' : Have(profiles'[i])
    BY <1>4, <1>13 DEF BaselineInv, Measuring
  <2>2. ASSUME NEW d \in Calls
        PROVE  /\ Have(call'[d].nulls)
               /\ call'[d].at = "store" => call'[d].asOf \in 0 .. Len(profiles')
    <3>1. CASE d = c
      BY <1>12, <3>1, IdleType, Nothing DEF Have
    <3>2. CASE d # c
      <4>1. call'[d] = call[d] /\ Have(call[d].nulls)
        BY <1>12, <3>2 DEF BaselineInv, Measuring
      <4>2. call[d].at = "store" => call[d].asOf \in 0 .. Len(profiles)
        BY DEF BaselineInv, Measuring
      <4>3. \A k \in 0 .. Len(profiles) : k \in 0 .. Len(profiles')
        BY <1>3, <1>13
      <4> QED BY <4>1, <4>2, <4>3
    <3> QED BY <3>1, <3>2
  <2> QED BY <1>1, <2>1, <2>2 DEF BaselineInv, Measuring, Have
<1>19. KnownTableIsCompared'
  BY <1>1 DEF BaselineInv, KnownTableIsCompared
<1>20. AlarmHasACause'
  <2>1. ASSUME NEW d \in Calls PROVE HasACause(returned'[d])
    BY <1>11, <1>12 DEF BaselineInv, AlarmHasACause, HasACause
  <2> QED BY <1>1, <2>1 DEF AlarmHasACause, HasACause
<1> QED BY <1>14, <1>17, <1>18, <1>19, <1>20 DEF BaselineInv

(* The table changes, and remembers.                                       *)
LEMMA AlterKeeps ==
  ASSUME BaselineInv, Alter
  PROVE  BaselineInv'
<1>1. /\ BaselineTypeOK
      /\ table' \in Tables
      /\ was' = [n \in Names |-> was[n] \cup {table'[m].nulls : m \in {n} \cap DOMAIN table'}]
      /\ changes < MaxChanges /\ changes' = changes + 1
      /\ UNCHANGED <<snapshots, profiles, call, returned, late>>
  BY DEF Alter, BaselineInv
<1>2. /\ DOMAIN table' \in SUBSET Names
      /\ \A n \in DOMAIN table' : table'[n].nulls \in Levels
  BY <1>1, TableType
<1>3. was \in [Names -> SUBSET Levels]
  BY <1>1 DEF BaselineTypeOK
<1>4. /\ was' \in [Names -> SUBSET Levels]
      /\ \A n \in Names : was[n] \subseteq was'[n]
      /\ \A n \in DOMAIN table' : table'[n].nulls \in was'[n]
  BY <1>1, <1>2, <1>3
<1>5. changes' \in 0 .. MaxChanges
  BY <1>1, TableIsKnown DEF BaselineTypeOK
<1>6. BaselineTypeOK'
  BY <1>1, <1>4, <1>5 DEF BaselineTypeOK
<1>7. ASSUME NEW f \in Fractions, Have(f)
      PROVE  \A n \in DOMAIN f : f[n] \in was'[n]
  BY <1>4, <1>7, FractionsType DEF Have
<1>8. Measuring'
  <2>1. ASSUME NEW i \in DOMAIN profiles
        PROVE  \A n \in DOMAIN profiles[i] : profiles[i][n] \in was'[n]
    <3>1. profiles[i] \in Fractions
      BY <1>1 DEF BaselineTypeOK
    <3> QED BY <1>7, <3>1 DEF BaselineInv, Measuring
  <2>2. ASSUME NEW c \in Calls
        PROVE  \A n \in DOMAIN call[c].nulls : call[c].nulls[n] \in was'[n]
    BY <1>1, <1>7, HoldingOf DEF BaselineInv, Measuring
  <2> QED BY <1>1, <1>4, <2>1, <2>2 DEF BaselineInv, Measuring, Have
<1>9. Remembering' /\ KnownTableIsCompared'
  BY <1>1 DEF BaselineInv, Remembering, NeverSeen,
              KnownTableIsCompared
<1>10. AlarmHasACause'
  <2> SUFFICES ASSUME NEW c \in Calls, returned[c].kind = "profile",
                      NEW n \in returned[c].regressed
               PROVE  \E low, high \in was'[n] : high - low > Alert
    BY <1>1 DEF AlarmHasACause
  <2>1. returned[c] \in Answers
    BY <1>1 DEF BaselineTypeOK
  <2>2. returned[c].regressed \in SUBSET Names
    BY <2>1 DEF Answers, NothingTold, NotFound,
                Failed, TooRecent
  <2>3. \E low, high \in was[n] : high - low > Alert
    BY DEF BaselineInv, AlarmHasACause
  <2> QED BY <1>4, <2>2, <2>3
<1> QED BY <1>6, <1>8, <1>9, <1>10 DEF BaselineInv

(* No step of any call, and no migration, breaks the invariant.            *)
LEMMA BaselineStepKeeps ==
  BaselineInv /\ [BaselineNext]_baselineVars => BaselineInv'
<1> SUFFICES ASSUME BaselineInv, [BaselineNext]_baselineVars
             PROVE  BaselineInv'
  OBVIOUS
<1>1. CASE UNCHANGED baselineVars
  <2>1. UNCHANGED <<table, snapshots, profiles, call, returned, late, was, changes>>
    BY <1>1 DEF baselineVars, histories
  <2> QED BY <2>1 DEF BaselineInv, BaselineTypeOK, Remembering, Measuring, Have,
                      NeverSeen, KnownTableIsCompared,
                      AlarmHasACause
<1>2. CASE BaselineNext
  BY <1>2, AlterKeeps, FailKeeps, ReflectKeeps, LookKeeps, BootstrapKeeps,
     ProfileKeeps, MeasureKeeps, CompareKeeps, StoreKeeps, SurveyKeeps, RebaseKeeps
     DEF BaselineNext
<1> QED BY <1>1, <1>2

(* However comparisons, profiles, baselines and migrations interleave, the *)
(* invariant of the baseline holds.                                        *)
THEOREM BaselineInductive == BaselineSpec => []BaselineInv
<1>1. BaselineInit => BaselineInv
  BY BaselineHoldsAtFirst
<1>2. BaselineInv /\ [BaselineNext]_baselineVars => BaselineInv'
  BY BaselineStepKeeps
<1> QED BY <1>1, <1>2, PTL DEF BaselineSpec

(* The tools of the baseline answer what their types say, the pairs of     *)
(* _likely_renames included.                                               *)
THEOREM BaselineTypeCorrect == BaselineSpec => []BaselineTypeOK
<1>1. BaselineInv => BaselineTypeOK
  BY DEF BaselineInv
<1> QED BY <1>1, BaselineInductive, PTL

(* A comparison that began when a snapshot existed never overwrites the    *)
(* baseline it was asked to compare against.                               *)
THEOREM KnownTablesAreCompared == BaselineSpec => []KnownTableIsCompared
<1>1. BaselineInv => KnownTableIsCompared
  BY DEF BaselineInv
<1> QED BY <1>1, BaselineInductive, PTL

(* A column is called out only if its null fraction really rose.           *)
THEOREM AlarmsHaveACause == BaselineSpec => []AlarmHasACause
<1>1. BaselineInv => AlarmHasACause
  BY DEF BaselineInv
<1> QED BY <1>1, BaselineInductive, PTL

(* Between any snapshot and the table, the likely renames are a matching   *)
(* of columns of one type that leaves no match out, for tables of any      *)
(* finite number of columns.                                               *)
THEOREM RenamesAreAMatching == BaselineSpec => []RenamesAreMatched
<1>1. BaselineInv => RenamesAreMatched
  <2> SUFFICES ASSUME BaselineInv PROVE RenamesAreMatched
    OBVIOUS
  <2>1. ASSUME NEW i \in DOMAIN snapshots
        PROVE  LET before == snapshots[i].shape
                   after  == Shape(table)
               IN  IsMatched(Renames(before, after),
                             Removed(before, after), before, after)
    <3> DEFINE before == snapshots[i].shape
               after  == Shape(table)
    <3>1. before \in Shapes /\ after \in Shapes
      <4>1. snapshots \in Seq(Snapshots) /\ table \in Tables
        BY DEF BaselineInv, BaselineTypeOK, Snapshots
      <4>2. snapshots[i] \in Snapshots
        BY <4>1, ElementOfSeq
      <4>3. snapshots[i].shape \in Shapes
        BY <4>2 DEF Snapshots
      <4> QED BY <4>1, <4>3, ShapeOfTable
    <3> HIDE DEF before, after
    <3>2. DOMAIN before \in SUBSET Names /\ DOMAIN after \in SUBSET Names
      BY <3>1, ShapeType
    <3>3. Names \subseteq Nat /\ IsFiniteSet(Names)
      BY NamesAreOrdered
    <3>4. IsFiniteSet(DOMAIN before)
      BY <3>2, <3>3, FS_Subset
    <3>5. IsMatched(Renames(before, after), Removed(before, after),
                    before, after)
      BY <3>2, <3>3, <3>4, RenamesMatch
    <3> QED BY <3>5 DEF before, after
  <2> QED BY <2>1 DEF RenamesAreMatched, IsMatched, Removed, Added
<1> QED BY <1>1, BaselineInductive, PTL
=============================================================================
