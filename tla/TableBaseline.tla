---------------------------- MODULE TableBaseline ----------------------------
(***************************************************************************)
(* What the agent remembers about one table of the warehouse: the shapes   *)
(* that compare_schema_snapshot diffs against, the null fractions that     *)
(* profile_table compares with, and the command that records both before   *)
(* failures are seeded (src/dag_doctor/tools/schema_inspect.py,            *)
(* tools/data_profile.py, tools/base.py and evaluation/baseline.py).       *)
(*                                                                         *)
(* Calls run at once, from investigations in several processes, while the  *)
(* table changes under them.  An action is one statement, or the commit    *)
(* that follows it.  Names of columns are numbers, in alphabetical order;  *)
(* a null fraction is a number of tenths, and a sample shows the fraction  *)
(* of the table.  A moment of time is told by how many snapshots had been  *)
(* recorded by then.  The specification is BaselineSpec, and its parts are *)
(* named alike, so that a module may extend it with another tool's.        *)
(***************************************************************************)
EXTENDS Integers, Sequences, FiniteSets

CONSTANTS
  Names,         \* columns the table may have
  Types,         \* types of columns
  Levels,        \* null fractions, in tenths
  Alert,         \* NULL_FRACTION_ALERT, in tenths
  InitialTable,  \* what the table looks like at first
  Comparers,     \* calls of compare_schema_snapshot
  Profilers,     \* calls of profile_table
  Recorders,     \* runs of the baseline command
  MaxChanges     \* bound: changes of the table

Calls == Comparers \cup Profilers \cup Recorders

(* A table has some of the columns; one without any does not exist.        *)
Tables == UNION {[S -> [type : Types, nulls : Levels]] : S \in SUBSET Names}

Shapes == UNION {[S -> Types] : S \in SUBSET Names}

Fractions == UNION {[S -> Levels] : S \in SUBSET Names}

ASSUME NamesAreOrdered == Names \subseteq Nat /\ IsFiniteSet(Names)

ASSUME CallsAreDistinct ==
  /\ Comparers \cap Profilers = {} /\ Comparers \cap Recorders = {}
  /\ Profilers \cap Recorders = {}

ASSUME TableIsKnown ==
  /\ Levels \subseteq 0 .. 10 /\ Alert \in 0 .. 10
  /\ InitialTable \in Tables
  /\ MaxChanges \in Nat

VARIABLES
  table,      \* the table as it is now
  snapshots,  \* shapes recorded, oldest first, and by whom
  profiles,   \* null fractions recorded, oldest first
  call,       \* where a call is, and what it holds
  returned,   \* what a call returned
  late,       \* history: calls that began when a snapshot existed
  was,        \* history: the null fractions a column has had
  changes

histories == <<late, was>>

baselineVars == <<table, snapshots, profiles, call, returned, histories, changes>>

-----------------------------------------------------------------------------
NoAsOf == -1

Shape(t) == [n \in DOMAIN t |-> t[n].type]

Nulls_OfRows(t, wanted) == [n \in wanted |-> t[n].nulls + 10]

Nulls(t, wanted) == [n \in wanted |-> t[n].nulls]

Idle == [at |-> "idle", shape |-> <<>>, asOf |-> NoAsOf, nulls |-> <<>>]

Done == [Idle EXCEPT !.at = "done"]

NothingTold == [kind |-> "none"]

(* _latest_snapshot: the last one at or before the moment, or 0.           *)
LatestSnapshot(asOf) ==
  IF asOf = NoAsOf \/ asOf > Len(snapshots) THEN Len(snapshots) ELSE asOf

(* _has_any_snapshot.                                                      *)
NeverSeen == snapshots = <<>>

LatestProfile == Len(profiles)

(* _likely_renames: every removed column in turn takes the first added one *)
(* of its type that no other took.  renamed[n] is what it became, or none. *)
First(S) == CHOOSE n \in S : \A m \in S : n <= m

Last(S) == CHOOSE n \in S : \A m \in S : n >= m

Renames_NotTaken(before, after) ==
  LET removed == DOMAIN before \ DOMAIN after
      Matches(n) == {m \in DOMAIN after \ DOMAIN before : after[m] = before[n]}
  IN  {<<n, First(Matches(n))>> : n \in {k \in removed : Matches(k) # {}}}

(* One round of the loop: gone takes the first added column of its type    *)
(* that no pair found so far took.                                         *)
WithMatch(found, gone, before, after) ==
  LET added == DOMAIN after \ DOMAIN before
      free  == {m \in added : after[m] = before[gone]} \ {pair[2] : pair \in found}
  IN  IF free = {} THEN found ELSE found \cup {<<gone, First(free)>>}

Renames(before, after) ==
  LET removed == DOMAIN before \ DOMAIN after
      pairs[S \in SUBSET removed] ==
        IF S = {} THEN {}
        ELSE WithMatch(pairs[S \ {Last(S)}], Last(S), before, after)
  IN  pairs[removed]

(* _diff.                                                                  *)
Diff(before, after) ==
  [kind    |-> "diff",
   added   |-> DOMAIN after \ DOMAIN before,
   removed |-> DOMAIN before \ DOMAIN after,
   changed |-> {n \in DOMAIN before \cap DOMAIN after : before[n] # after[n]},
   renames |-> Renames(before, after)]

(* _apply_baseline: the columns that the latest profile has too.           *)
Comparable(before, now) == DOMAIN now \cap DOMAIN before

(* regressed_columns: those whose fraction rose by more than the alert.    *)
Regressed_Absolute(before, now) ==
  {n \in Comparable(before, now) : now[n] > Alert}

Regressed(before, now) ==
  {n \in Comparable(before, now) : now[n] - before[n] > Alert}

BaselineInit ==
  /\ table = InitialTable
  /\ snapshots = <<>> /\ profiles = <<>>
  /\ call = [c \in Calls |-> Idle]
  /\ returned = [c \in Calls |-> NothingTold]
  /\ late = {}
  /\ was = [n \in Names |-> IF n \in DOMAIN table THEN {table[n].nulls} ELSE {}]
  /\ changes = 0

-----------------------------------------------------------------------------
(* The warehouse, which is not the agent's *)

(* Somebody migrates the table, or its values go missing.                  *)
Alter ==
  /\ changes < MaxChanges
  /\ table' \in Tables \ {table}
  /\ was' = [n \in Names |-> was[n] \cup {table'[m].nulls : m \in {n} \cap DOMAIN table'}]
  /\ changes' = changes + 1
  /\ UNCHANGED <<snapshots, profiles, call, returned, late>>

-----------------------------------------------------------------------------
(* Every call *)

Holds(c, holding) == call' = [call EXCEPT ![c] = holding]

Return(c, result) ==
  /\ Holds(c, Done)
  /\ returned' = [returned EXCEPT ![c] = result]

NotFound == [kind |-> "not_found"]
Failed   == [kind |-> "failed"]

TooRecent == [kind |-> "too_recent"]

(* late remembers who began when a snapshot existed.                       *)
Began(c) == late' = IF NeverSeen THEN late ELSE late \cup {c}

(* The result of a commit may come after the timeout of the call.          *)
Commits(c, result) == \E told \in {result, Failed} : Return(c, told)

(* BaseTool.run: a timeout or an exception is a result, and the session    *)
(* rolls back.                                                             *)
Fail(c) ==
  /\ call[c].at \notin {"idle", "done"}
  /\ Return(c, Failed)
  /\ UNCHANGED <<table, snapshots, profiles, histories, changes>>

-----------------------------------------------------------------------------
(* compare_schema_snapshot *)

(* The table is read first, and the snapshots after it.                    *)
Reflect(c) ==
  /\ call[c].at = "idle"
  /\ IF DOMAIN table = {}
       THEN Return(c, NotFound)
       ELSE /\ \E asOf \in {NoAsOf} \cup 0 .. Len(snapshots) :
                 Holds(c, [Idle EXCEPT !.at = "look", !.asOf = asOf,
                                       !.shape = Shape(table)])
            /\ UNCHANGED returned
  /\ Began(c)
  /\ UNCHANGED <<table, snapshots, profiles, was, changes>>

Look(c) ==
  /\ call[c].at = "look"
  /\ LET latest == LatestSnapshot(call[c].asOf)
     IN  IF latest # 0
           THEN Return(c, Diff(snapshots[latest].shape, call[c].shape))
           ELSE /\ Holds(c, [call[c] EXCEPT !.at = "any"])
                /\ UNCHANGED returned
  /\ UNCHANGED <<table, snapshots, profiles, histories, changes>>

LookForAny_Skipped(c) ==
  /\ call[c].at = "any"
  /\ Holds(c, [call[c] EXCEPT !.at = "record"])
  /\ UNCHANGED <<returned, table, snapshots, profiles, histories, changes>>

LookForAny(c) ==
  /\ call[c].at = "any"
  /\ IF NeverSeen
       THEN Holds(c, [call[c] EXCEPT !.at = "record"]) /\ UNCHANGED returned
       ELSE Return(c, TooRecent)
  /\ UNCHANGED <<table, snapshots, profiles, histories, changes>>

RecordSnapshot(c) ==
  snapshots' = Append(snapshots, [shape |-> call[c].shape, by |-> c])

Bootstrap(c) ==
  /\ call[c].at = "record"
  /\ RecordSnapshot(c)
  /\ Commits(c, [kind |-> "created"])
  /\ UNCHANGED <<table, profiles, histories, changes>>

-----------------------------------------------------------------------------
(* profile_table *)

(* The columns asked for, perhaps none, have to be there; the baseline     *)
(* command asks for all of them.                                           *)
Profile(c) ==
  /\ call[c].at = IF c \in Recorders THEN "profile" ELSE "idle"
  /\ \E wanted \in IF c \in Recorders THEN {DOMAIN table} ELSE SUBSET Names :
       IF DOMAIN table # {} /\ wanted \subseteq DOMAIN table
         THEN /\ Holds(c, [Idle EXCEPT !.at = "measure",
                           !.shape = [n \in wanted |-> table[n].type]])
              /\ UNCHANGED returned
         ELSE Return(c, NotFound)
  /\ UNCHANGED <<table, snapshots, profiles, histories, changes>>

(* A column that is gone by now fails the query.                           *)
Measure(c) ==
  /\ call[c].at = "measure"
  /\ LET wanted == DOMAIN call[c].shape
     IN  /\ wanted \subseteq DOMAIN table
         /\ Holds(c, [Idle EXCEPT !.at = "compare", !.nulls = Nulls(table, wanted)])
  /\ UNCHANGED <<table, snapshots, profiles, returned, histories, changes>>

(* The profile to compare with is read here; asOf keeps which it was.      *)
Compare(c) ==
  /\ call[c].at = "compare"
  /\ Holds(c, [call[c] EXCEPT !.at = "store", !.asOf = LatestProfile])
  /\ UNCHANGED <<table, snapshots, profiles, returned, histories, changes>>

RecordProfile(c) == profiles' = Append(profiles, call[c].nulls)

Store(c) ==
  /\ call[c].at = "store"
  /\ LET before == IF call[c].asOf = 0 THEN <<>> ELSE profiles[call[c].asOf]
     IN  Commits(c, [kind |-> "profile", baseline |-> before, now |-> call[c].nulls,
                     regressed |-> Regressed(before, call[c].nulls)])
  /\ RecordProfile(c)
  /\ UNCHANGED <<table, snapshots, histories, changes>>

-----------------------------------------------------------------------------
(* The baseline command *)

(* A table that cannot be read has no baseline.                            *)
Survey(r) ==
  /\ call[r].at = "idle"
  /\ IF DOMAIN table = {}
       THEN Return(r, NotFound)
       ELSE /\ Holds(r, [Idle EXCEPT !.at = "snapshot", !.shape = Shape(table)])
            /\ UNCHANGED returned
  /\ UNCHANGED <<table, snapshots, profiles, histories, changes>>

(* Unconditionally, and then a profile of the same table.                  *)
Rebase(r) ==
  /\ call[r].at = "snapshot"
  /\ RecordSnapshot(r)
  /\ Holds(r, [Idle EXCEPT !.at = "profile"])
  /\ UNCHANGED <<table, profiles, returned, histories, changes>>

BaselineNext ==
  \/ Alter
  \/ \E c \in Calls : Fail(c)
  \/ \E c \in Comparers : \/ Reflect(c)
                          \/ Look(c)
                          \/ LookForAny(c)
                          \/ Bootstrap(c)
  \/ \E c \in Profilers \cup Recorders : \/ Profile(c)
                                        \/ Measure(c)
                                        \/ Compare(c)
                                        \/ Store(c)
  \/ \E r \in Recorders : \/ Survey(r)
                          \/ Rebase(r)

BaselineSpec == BaselineInit /\ [][BaselineNext]_baselineVars

-----------------------------------------------------------------------------
(* Properties *)

Answers ==
  {NothingTold, NotFound, Failed, TooRecent, [kind |-> "created"]}
    \cup [kind : {"diff"}, added : SUBSET Names, removed : SUBSET Names,
          changed : SUBSET Names, renames : SUBSET (Names \X Names)]
    \cup [kind : {"profile"}, baseline : Fractions, now : Fractions,
          regressed : SUBSET Names]

Places == {"idle", "look", "any", "record", "measure", "compare", "store",
           "snapshot", "profile", "done"}

BaselineTypeOK ==
  /\ table \in Tables
  /\ snapshots \in Seq([shape : Shapes, by : Comparers \cup Recorders])
  /\ profiles \in Seq(Fractions)
  /\ call \in [Calls -> [at : Places, shape : Shapes, asOf : Nat \cup {NoAsOf},
                         nulls : Fractions]]
  /\ returned \in [Calls -> Answers]
  /\ late \subseteq Comparers
  /\ was \in [Names -> SUBSET Levels]
  /\ changes \in 0 .. MaxChanges

(* "Recording the current shape would overwrite the very baseline the      *)
(* caller was asking to compare against": a comparison that began when a   *)
(* snapshot existed records none, whatever moment it asks about.           *)
KnownTableIsCompared ==
  \A i \in DOMAIN snapshots : snapshots[i].by \notin late

(* Between any recorded shape and the table, the likely renames pair       *)
(* columns of one type, none of them twice, and as many as there are.      *)
RenamesAreMatched ==
  \A i \in DOMAIN snapshots :
     LET before  == snapshots[i].shape
         after   == Shape(table)
         removed == DOMAIN before \ DOMAIN after
         added   == DOMAIN after \ DOMAIN before
         renames == Renames(before, after)
     IN  /\ \A pair \in renames : /\ pair \in removed \X added
                                  /\ before[pair[1]] = after[pair[2]]
         /\ \A pair, other \in renames :
               pair[1] = other[1] \/ pair[2] = other[2] => pair = other
         /\ \A gone \in removed, new \in added :
               before[gone] = after[new] =>
                 \E pair \in renames : pair[1] = gone \/ pair[2] = new

(* A column is called out only if it has really had both fractions, and    *)
(* they are further apart than the alert, whoever measured in between.     *)
AlarmHasACause ==
  \A c \in Calls : returned[c].kind = "profile" =>
     \A n \in returned[c].regressed :
        \E low, high \in was[n] : high - low > Alert

=============================================================================
