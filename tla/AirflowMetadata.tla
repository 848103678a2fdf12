--------------------------- MODULE AirflowMetadata ---------------------------
(***************************************************************************)
(* The two tools that read Airflow's own database about a failed task      *)
(* (src/dag_doctor/tools/airflow_metadata.py): get_upstream_task_state,    *)
(* which walks the serialised DAG upward and names the task that broke     *)
(* first, and get_dag_run_history, which tells a new failure from a        *)
(* chronic one.                                                            *)
(*                                                                         *)
(* Around the tools, Airflow goes on: the tasks of the run end in the      *)
(* order their trigger rules allow, and people clear tasks.  The attempt   *)
(* of a task is its end; before it the task has no state the tools tell    *)
(* apart from running.  A mapped task has a row per instance.  A date is   *)
(* a number, in the order of the ends.                                     *)
(***************************************************************************)
EXTENDS Integers, FiniteSets, Sequences

CONSTANTS
  Tasks,       \* tasks of the DAG
  Failing,     \* the task whose failure is investigated
  Edges,       \* pairs <<task, downstream task>>
  AllDone,     \* tasks whose trigger rule is all_done; all_success otherwise
  Mapped,      \* tasks that are expanded into several instances
  MapLength,   \* into how many
  Histories,   \* sequences of states of earlier runs, the latest first
  Limits,      \* the argument limit of get_dag_run_history
  NoTask,      \* root_failure is None
  MaxClears    \* bound: clearings

ASSUME DagIsKnown ==
  /\ Failing \in Tasks /\ NoTask \notin Tasks
  /\ Edges \subseteq Tasks \X Tasks
  /\ MapLength \in Nat \ {0} /\ MaxClears \in Nat
  /\ Limits \subseteq Int
  /\ \A h \in Histories : h \in Seq({"success", "failed"})

VARIABLES
  stored,      \* the serialised DAG: "absent", "odd" or "readable"
  state,       \* task_instance.state of every row, "none" before an end
  ended,       \* task_instance.end_date, 0 before an end
  clock,
  reported,    \* the failure was published
  clears,
  at,          \* where the call is
  seen,        \* _upstream_of: tasks walked
  frontier,    \* _upstream_of: tasks to walk
  answer       \* UpstreamState or DagRunHistory

airflowVars == <<stored, state, ended, clock, reported, clears>>

vars == <<airflowVars, at, seen, frontier, answer>>

-----------------------------------------------------------------------------
(* Airflow *)

Rows == {r \in Tasks \X (1 .. MapLength) : r[2] = 1 \/ r[1] \in Mapped}

RowsOf(t) == {r \in Rows : r[1] = t}

Finished == {"success", "failed", "upstream_failed", "skipped"}

RowStates == Finished \cup {"none"}

(* UNSUCCESSFUL_STATES; no task of a run is removed while it is read.      *)
Unsuccessful == {"failed", "upstream_failed", "skipped"}

Parents(t) == {p \in Tasks : <<p, t>> \in Edges}

ParentRows(t) == UNION {RowsOf(p) : p \in Parents(t)}

(* The tasks above t: in every set that holds t's parents and the parents  *)
(* of its own members.                                                     *)
IsClosedAbove(t, S) ==
  /\ Parents(t) \subseteq S
  /\ \A u \in S : Parents(u) \subseteq S

Ancestors(t) == {u \in Tasks : \A S \in SUBSET Tasks : IsClosedAbove(t, S) => u \in S}

-----------------------------------------------------------------------------
(* The answers *)

NoAnswer == [tool |-> "none"]

UpstreamStates ==
  [tool : {"upstream"}, failed_upstream : SUBSET Tasks,
   root_failure : Tasks \cup {NoTask}, all_upstream_succeeded : BOOLEAN]

DagRunHistories ==
  [tool : {"history"}, runs : Seq(RowStates), consecutive_failures : Nat,
   is_new_failure : BOOLEAN]

(* parents in _upstream_of: the stored edges, inverted.  A payload of an   *)
(* unknown shape has no edges.                                             *)
Above(t) == IF stored = "readable" THEN Parents(t) ELSE {}

(* _earliest_genuine_failure, of the rows that were kept.                  *)
Earliest_LastEnd(kept) ==
  LET genuine == {r \in kept : state[r] = "failed"}
  IN  IF genuine = {} THEN NoTask
      ELSE (CHOOSE r \in genuine : \A q \in genuine : ended[q] <= ended[r])[1]

Earliest(kept) ==
  LET genuine == {r \in kept : state[r] = "failed"}
  IN  IF genuine = {} THEN NoTask
      ELSE (CHOOSE r \in genuine : \A q \in genuine : ended[r] <= ended[q])[1]

UpstreamState_SkippedIsFine(kept) ==
  LET failed == {r[1] : r \in {q \in kept : state[q] = "failed"}}
  IN  [tool |-> "upstream", failed_upstream |-> failed,
       root_failure |-> Earliest(kept), all_upstream_succeeded |-> failed = {}]

UpstreamState(kept) ==
  LET failed == {r[1] : r \in {q \in kept : state[q] \in Unsuccessful}}
  IN  [tool |-> "upstream", failed_upstream |-> failed,
       root_failure |-> Earliest(kept), all_upstream_succeeded |-> failed = {}]

(* _summarise_history.                                                     *)
Failures(rows) == Cardinality({i \in DOMAIN rows : rows[i] = "failed"})

Consecutive(rows) ==
  CHOOSE n \in 0 .. Len(rows) :
    /\ \A i \in 1 .. n : rows[i] = "failed"
    /\ n < Len(rows) => rows[n + 1] # "failed"

Smaller(m, n) == IF m <= n THEN m ELSE n

Larger(m, n) == IF m >= n THEN m ELSE n

IsNewFailure_ByStreak(rows) == rows # <<>> /\ Consecutive(rows) <= 2

IsNewFailure(rows) ==
  /\ rows # <<>>
  /\ Consecutive(rows) <= 2
  /\ Failures(rows) <= Larger(2, Len(rows) \div 4)

History(rows) ==
  [tool |-> "history", runs |-> rows, consecutive_failures |-> Consecutive(rows),
   is_new_failure |-> IsNewFailure(rows)]

-----------------------------------------------------------------------------
Init ==
  /\ stored \in {"absent", "odd", "readable"}
  /\ state = [r \in Rows |-> "none"]
  /\ ended = [r \in Rows |-> 0]
  /\ clock = 0 /\ reported = FALSE /\ clears = 0
  /\ at = "idle" /\ seen = {} /\ frontier = {} /\ answer = NoAnswer

(* What nobody reads any more need not go on.                              *)
Asking == at \notin {"answered", "failed"}

Ends(r, s) ==
  /\ state' = [state EXCEPT ![r] = s]
  /\ ended' = [ended EXCEPT ![r] = clock + 1]
  /\ clock' = clock + 1
  /\ reported' = (reported \/ (s = "failed" /\ r[1] = Failing))
  /\ UNCHANGED <<stored, clears, at, seen, frontier, answer>>

(* A task whose trigger rule is met runs and ends; on_failure_callback     *)
(* publishes the failure.                                                  *)
End(r) ==
  /\ Asking /\ state[r] = "none"
  /\ \A p \in ParentRows(r[1]) :
        state[p] \in IF r[1] \in AllDone THEN Finished ELSE {"success"}
  /\ \E s \in {"success", "failed", "skipped"} : Ends(r, s)

(* A task whose rule cannot be met any more takes the consequence at once. *)
TakeConsequence(r) ==
  /\ Asking /\ state[r] = "none" /\ r[1] \notin AllDone
  /\ \E p \in ParentRows(r[1]) :
        \/ state[p] \in {"failed", "upstream_failed"} /\ Ends(r, "upstream_failed")
        \/ state[p] = "skipped" /\ Ends(r, "skipped")

(* Somebody clears a task, and with it what is downstream.                 *)
Clear(t) ==
  /\ Asking /\ clears < MaxClears
  /\ \E r \in RowsOf(t) : state[r] # "none"
  /\ LET reset == {r \in Rows : r[1] = t \/ t \in Ancestors(r[1])}
     IN  /\ state' = [r \in Rows |-> IF r \in reset THEN "none" ELSE state[r]]
         /\ ended' = [r \in Rows |-> IF r \in reset THEN 0 ELSE ended[r]]
  /\ clears' = clears + 1
  /\ UNCHANGED <<stored, clock, reported, at, seen, frontier, answer>>

-----------------------------------------------------------------------------
(* get_upstream_task_state *)

(* The first query of _upstream_of: TargetNotFoundError without a DAG.     *)
FetchDag ==
  /\ at = "idle" /\ reported
  /\ IF stored = "absent"
       THEN at' = "failed" /\ frontier' = {}
       ELSE at' = "walk" /\ frontier' = Above(Failing)
  /\ UNCHANGED <<airflowVars, seen, answer>>

(* One round of the loop.  The frontier is a list; which of its tasks is   *)
(* next, and how often it holds one, does not matter.                      *)
Walk_ParentsOnly ==
  /\ at = "walk"
  /\ \E current \in frontier :
        /\ frontier' = frontier \ {current}
        /\ seen' = seen \cup {current}
  /\ UNCHANGED <<airflowVars, at, answer>>

Walk ==
  /\ at = "walk"
  /\ \E current \in frontier :
        IF current \in seen
          THEN frontier' = frontier \ {current} /\ UNCHANGED seen
          ELSE /\ frontier' = (frontier \ {current}) \cup Above(current)
               /\ seen' = seen \cup {current}
  /\ UNCHANGED <<airflowVars, at, answer>>

EndWalk ==
  /\ at = "walk" /\ frontier = {}
  /\ at' = "read"
  /\ UNCHANGED <<airflowVars, seen, frontier, answer>>

(* The second query.  states keeps one row per task, the last in an order  *)
(* the query leaves open: any of a mapped task's.                          *)
ReadStates ==
  /\ at = "read"
  /\ \E kept \in SUBSET {r \in Rows : r[1] \in seen} :
        /\ \A t \in seen : Cardinality(kept \cap RowsOf(t)) = 1
        /\ answer' = UpstreamState(kept)
  /\ at' = "answered"
  /\ UNCHANGED <<airflowVars, seen, frontier>>

(* get_dag_run_history: by start, the latest first.  The rows of this run  *)
(* lead, since NULL is above every date.  A negative limit is an error;    *)
(* the cap of a hundred is above every history here.                       *)
ReadHistory ==
  /\ at = "idle" /\ reported
  /\ \E past \in Histories, limit \in Limits,
        order \in [1 .. Cardinality(RowsOf(Failing)) -> RowsOf(Failing)] :
        /\ \A r \in RowsOf(Failing) : \E i \in DOMAIN order : order[i] = r
        /\ LET rows == [i \in DOMAIN order |-> state[order[i]]] \o past
           IN  IF limit < 0
                 THEN at' = "failed" /\ UNCHANGED answer
                 ELSE /\ answer' = History(SubSeq(rows, 1, Smaller(limit, Len(rows))))
                      /\ at' = "answered"
  /\ UNCHANGED <<airflowVars, seen, frontier>>

(* BaseTool.run cuts a call off at one of its queries.                     *)
TimeOut ==
  /\ at = "read" \/ (at = "idle" /\ reported)
  /\ at' = "failed"
  /\ UNCHANGED <<airflowVars, seen, frontier, answer>>

Next ==
  \/ \E r \in Rows : End(r) \/ TakeConsequence(r)
  \/ \E t \in Tasks : Clear(t)
  \/ FetchDag \/ Walk \/ EndWalk \/ ReadStates \/ ReadHistory \/ TimeOut

Spec == Init /\ [][Next]_vars

-----------------------------------------------------------------------------
(* Properties *)

TypeOK ==
  /\ stored \in {"absent", "odd", "readable"}
  /\ state \in [Rows -> RowStates] /\ ended \in [Rows -> Nat]
  /\ clock \in Nat /\ clears \in 0 .. MaxClears /\ reported \in BOOLEAN
  /\ at \in {"idle", "walk", "read", "answered", "failed"}
  /\ seen \subseteq Tasks /\ frontier \subseteq Tasks
  /\ answer \in {NoAnswer} \cup UpstreamStates \cup DagRunHistories

HasWalked == at \in {"read", "answered"} /\ stored = "readable"

(* What the walk ends with is what the failing task depends on, directly   *)
(* or through others, however often a task is met on the way: no more,     *)
(* since another branch is no cause, and no less (_upstream_of).           *)
WalkFindsTheAncestors ==
  HasWalked /\ answer.tool # "history" => seen = Ancestors(Failing)

ToldUpstream == HasWalked /\ answer.tool = "upstream"

FailedUpstream == {t \in Ancestors(Failing) \ Mapped : state[<<t, 1>>] = "failed"}

(* root_failure is upstream, did fail, and no task above the failing one   *)
(* failed before it; without one, none of them failed.  A mapped task is   *)
(* left out: one of its rows stands for all, and it need not be a failed   *)
(* one (GetUpstreamTaskState.execute, _earliest_genuine_failure).          *)
RootFailedFirst ==
  ToldUpstream =>
    /\ answer.root_failure = NoTask => FailedUpstream = {}
    /\ answer.root_failure # NoTask =>
         /\ answer.root_failure \in Ancestors(Failing)
         /\ \E r \in RowsOf(answer.root_failure) :
               /\ state[r] = "failed"
               /\ \A t \in FailedUpstream : ended[r] <= ended[<<t, 1>>]

(* "All upstream tasks succeeded" is said of tasks that did, not of tasks  *)
(* that have not ended, as long as nothing was cleared: that the failing   *)
(* task could run is why none of them is still to come.                    *)
AllSucceededIsSo ==
  ToldUpstream /\ clears = 0 /\ answer.all_upstream_succeeded =>
    \A t \in Ancestors(Failing) \ Mapped : state[<<t, 1>>] = "success"

IsClean(rows) == \A i \in DOMAIN rows : rows[i] = "success"

(* A first failure after a clean record is called new, and a task most of  *)
(* whose runs failed is not, wherever the current attempt stands meanwhile *)
(* and whatever the model asks for, from four runs on: below that every    *)
(* record is new (_summarise_history).                                     *)
NewIsToldFromChronic ==
  at = "answered" /\ answer.tool = "history" /\ answer.runs # <<>> =>
    /\ IsClean(Tail(answer.runs)) => answer.is_new_failure
    /\ Len(answer.runs) >= 4 /\ 2 * Failures(answer.runs) > Len(answer.runs) =>
         ~answer.is_new_failure
=============================================================================
