-------------------------- MODULE Investigator_proofs --------------------------
(***************************************************************************)
(* Proofs about Investigator, for any number of deliveries and replays,    *)
(* any retry limit, any length of an investigation, and any number of      *)
(* faults and crashes.                                                     *)
(***************************************************************************)
EXTENDS Investigator, SequenceTheorems, FiniteSetTheorems, TLAPS

-----------------------------------------------------------------------------
(* The invariant *)

(* The attempts with a diagnosis, and the numbers the stored runs end at.  *)
Diagnosed == {runs[i].attempt : i \in {k \in DOMAIN runs : HasDiagnosis(runs[k])}}
Lasts     == {runs[i].last : i \in DOMAIN runs}

(* What max() in a query is defined for: an empty set, or one with a       *)
(* highest element.                                                        *)
HasTop(S) == S = {} \/ \E n \in S : \A m \in S : m <= n

(* What a job read is still so when it uses it, whoever else stored a run  *)
(* in between: the attempts below its own are there, its offset is the end *)
(* of a stored run, what it is about to announce is stored, and a delivery *)
(* that leaves an incident alone leaves a stored run.                      *)
InHand(j) ==
  /\ job[j].at \in {"running", "number", "save"} =>
        /\ job[j].attempt # 0
        /\ \A n \in 1 .. job[j].attempt - 1 : n \in Diagnosed
  /\ job[j].at \in {"number", "save"} => job[j].outcome \in Outcomes
  /\ job[j].at = "save" => job[j].offset \in Lasts \cup {0}
  /\ job[j].at = "announce" =>
        \E i \in DOMAIN runs : /\ runs[i].attempt = job[j].attempt
                               /\ runs[i].outcome = job[j].outcome
  /\ j \in Deliveries /\ job[j].at \in {"announce", "done"} => runs # <<>>
  /\ job[j].at = "recount" /\ job[j].status \in Terminal => runs # <<>>

StoredInv ==
  /\ HasTop(Diagnosed) /\ HasTop(Lasts)
  /\ TraceIsNumbered /\ AttemptsHaveNoHoles /\ StatusIsEarned

CreatorInv ==
  /\ status = "absent" => creators = {}
  /\ \A c, d \in creators : c = d

IncidentInv ==
  /\ TypeOK
  /\ \A j \in Jobs : InHand(j)
  /\ StoredInv
  /\ AnnouncedIsStored
  /\ CreatorInv

-----------------------------------------------------------------------------
(* Operators *)

(* The highest of a set that has one is in it, and above all others.       *)
LEMMA HighestIsTop ==
  ASSUME NEW S \in SUBSET Nat, HasTop(S)
  PROVE  /\ Highest(S) \in S \cup {0}
         /\ Highest(S) \in Nat
         /\ \A m \in S : m <= Highest(S)
<1>1. CASE S = {}
  BY <1>1 DEF Highest
<1>2. CASE S # {}
  <2>1. \E n \in S : \A m \in S : m <= n
    BY <1>2 DEF HasTop
  <2> QED BY <1>2, <2>1 DEF Highest
<1> QED BY <1>1, <1>2

(* A set that has a highest element still has one with another number.     *)
LEMMA TopGrows ==
  ASSUME NEW S \in SUBSET Nat, HasTop(S), NEW n \in Nat
  PROVE  HasTop(S \cup {n})
<1>1. CASE S = {}
  BY <1>1 DEF HasTop
<1>2. CASE S # {}
  <2>1. PICK t \in S : \A m \in S : m <= t
    BY <1>2 DEF HasTop
  <2>2. CASE t <= n
    BY <2>1, <2>2 DEF HasTop
  <2>3. CASE n <= t
    BY <2>1, <2>3 DEF HasTop
  <2> QED BY <2>1, <2>2, <2>3
<1> QED BY <1>1, <1>2

LEMMA StoredNumbers ==
  ASSUME TypeOK
  PROVE  /\ Diagnosed \in SUBSET (Nat \ {0}) /\ Lasts \in SUBSET Nat
         /\ Len(runs) \in Nat /\ DOMAIN runs = 1 .. Len(runs)
         /\ \A i \in DOMAIN runs : runs[i] \in Runs
<1>1. /\ Len(runs) \in Nat /\ DOMAIN runs = 1 .. Len(runs)
      /\ \A i \in DOMAIN runs : runs[i] \in Runs
  BY LenProperties, ElementOfSeq DEF TypeOK
<1> QED BY <1>1 DEF Diagnosed, Lasts, Runs

(* The next attempt comes after every one below it is stored, and a save   *)
(* starts where a stored run ended.                                        *)
LEMMA NumbersInHand ==
  ASSUME TypeOK, StoredInv
  PROVE  /\ NextAttempt \in Nat \ {0}
         /\ \A n \in 1 .. NextAttempt - 1 : n \in Diagnosed
         /\ SequenceOffset \in Lasts \cup {0}
         /\ SequenceOffset \in Nat
<1>1. /\ NextAttempt = 1 + Highest(Diagnosed)
      /\ SequenceOffset = Highest(Lasts)
  BY DEF NextAttempt, SequenceOffset, Diagnosed, Lasts
<1>2. /\ Highest(Diagnosed) \in Diagnosed \cup {0} /\ Highest(Diagnosed) \in Nat
      /\ SequenceOffset \in Lasts \cup {0} /\ SequenceOffset \in Nat
  BY <1>1, StoredNumbers, HighestIsTop DEF StoredInv
<1>3. ASSUME NEW n \in 1 .. NextAttempt - 1
      PROVE  n \in Diagnosed
  <2>1. n <= Highest(Diagnosed) /\ n \in Nat \ {0}
    BY <1>1, <1>2, <1>3
  <2>2. CASE n = Highest(Diagnosed)
    BY <1>2, <2>1, <2>2
  <2>3. CASE n < Highest(Diagnosed)
    <3>1. PICK i \in DOMAIN runs : runs[i].attempt = Highest(Diagnosed)
      BY <1>2, <2>1, <2>3 DEF Diagnosed
    <3>2. n \in 1 .. runs[i].attempt - 1
      BY <1>2, <2>1, <2>3, <3>1
    <3> QED BY <3>1, <3>2 DEF StoredInv, AttemptsHaveNoHoles, Diagnosed
  <2> QED BY <1>2, <2>1, <2>2, <2>3
<1> QED BY <1>1, <1>2, <1>3

-----------------------------------------------------------------------------
(* Types *)

(* What a job may hold.                                                    *)
Holdings == [at : Places, status : Statuses, count : Nat, attempt : Nat,
             outcome : Outcomes \cup {"none"}, length : 0 .. MaxSteps,
             offset : Nat]

LEMMA BlankType ==
  ASSUME NEW place \in Places
  PROVE  Blank(place) \in Holdings
  BY BoundsAreNaturals DEF Blank, Holdings, Statuses

(* What a job reads and makes up on its way is kept with the rest.         *)
LEMMA HoldingUpdates ==
  ASSUME NEW h \in Holdings, NEW place \in Places
  PROVE  /\ [h EXCEPT !.at = place] \in Holdings
         /\ \A outcome \in Outcomes, length \in 0 .. MaxSteps :
               [h EXCEPT !.at = place, !.outcome = outcome, !.length = length]
                 \in Holdings
         /\ \A seen \in Statuses, offset \in Nat :
               [h EXCEPT !.at = place, !.status = seen, !.offset = offset]
                 \in Holdings
<1>1. [h EXCEPT !.at = place] \in Holdings
  BY DEF Holdings
<1>2. ASSUME NEW outcome \in Outcomes, NEW length \in 0 .. MaxSteps
      PROVE  [h EXCEPT !.at = place, !.outcome = outcome, !.length = length]
               \in Holdings
  BY DEF Holdings
<1>3. ASSUME NEW seen \in Statuses, NEW offset \in Nat
      PROVE  [h EXCEPT !.at = place, !.status = seen, !.offset = offset]
               \in Holdings
  BY DEF Holdings
<1> QED BY <1>1, <1>2, <1>3

(* A job that raised remembers nothing.                                    *)
LEMMA RaisesType ==
  ASSUME TypeOK, NEW j \in Jobs, Raises(j)
  PROVE  /\ job' \in [Jobs -> Holdings]
         /\ tries' \in [Deliveries -> 0 .. MaxAttempts]
         /\ \E place \in {"find", "parked", "dead"} :
               job' = [job EXCEPT ![j] = Blank(place)]
<1> DEFINE Again == j \in Deliveries /\ tries[j] < MaxAttempts
<1>1. \A place \in {"find", "parked", "dead"} : Blank(place) \in Holdings
  BY BlankType DEF Places
<1>2. job \in [Jobs -> Holdings]
  BY DEF TypeOK, Holdings
<1>3. CASE Again
  <2>1. /\ job' = [job EXCEPT ![j] = Blank("find")]
        /\ tries' = [tries EXCEPT ![j] = @ + 1]
    BY <1>3 DEF Raises
  <2>2. tries[j] + 1 \in 0 .. MaxAttempts
    BY <1>3, BoundsAreNaturals DEF TypeOK
  <2> QED BY <1>1, <1>2, <2>1, <2>2 DEF TypeOK
<1>4. CASE ~Again
  <2>1. /\ tries' = tries
        /\ \E place \in {"parked", "dead"} :
              job' = [job EXCEPT ![j] = Blank(place)]
    BY <1>4 DEF Raises
  <2> QED BY <1>1, <1>2, <2>1 DEF TypeOK
<1> QED BY <1>3, <1>4

LEMMA InitType == Init => TypeOK
<1> SUFFICES ASSUME Init PROVE TypeOK
  OBVIOUS
<1>1. job \in [Jobs -> Holdings]
  BY BlankType DEF Init, Places
<1>2. runs \in Seq(Runs)
  BY EmptySeq DEF Init
<1>3. tries \in [Deliveries -> 0 .. MaxAttempts]
  BY BoundsAreNaturals DEF Init
<1> QED BY <1>1, <1>2, <1>3 DEF Init, TypeOK, Statuses, Holdings

(* A status the unit of work may write is a status.                        *)
LEMMA StatusTypes ==
  ASSUME status \in Statuses
  PROVE  /\ \A seen : Written(seen, "investigating") \in {status, "investigating"}
         /\ \A seen, outcome :
               Written(seen, StatusFor(outcome)) \in {status, StatusFor(outcome)}
         /\ \A outcome : StatusFor(outcome) \in Terminal
  BY DEF Written, StatusFor, Terminal

LEMMA NextType ==
  ASSUME TypeOK, StoredInv, \A j \in Jobs : InHand(j), [Next]_vars
  PROVE  TypeOK'
<1> USE DEF incidentVars, historyVars, boundVars
<1>0. /\ job \in [Jobs -> Holdings]
      /\ \A place \in Places : Blank(place) \in Holdings
      /\ Deliveries \subseteq Jobs /\ Replays \subseteq Jobs
      /\ status \in Statuses
  BY BlankType DEF TypeOK, Holdings, Jobs
<1>1. ASSUME NEW d \in Deliveries, Deliver(d) PROVE TypeOK'
  <2>1. 1 \in 0 .. MaxAttempts
    BY BoundsAreNaturals
  <2>2. job' \in [Jobs -> Holdings]
    BY <1>0, <1>1 DEF Deliver, Places
  <2> QED BY <1>0, <1>1, <2>1, <2>2 DEF Deliver, TypeOK, Holdings
<1>2. ASSUME NEW d \in Deliveries, Find(d) PROVE TypeOK'
  <2>1. [Blank("recount") EXCEPT !.status = status, !.count = delivery_count]
          \in Holdings
    <3>1. Blank("recount") \in Holdings
      BY <1>0 DEF Places
    <3>2. delivery_count \in Nat
      BY DEF TypeOK
    <3>3. ASSUME NEW h \in Holdings, NEW s \in Statuses, NEW n \in Nat
          PROVE  [h EXCEPT !.status = s, !.count = n] \in Holdings
      BY DEF Holdings
    <3> QED BY <1>0, <3>1, <3>2, <3>3
  <2>2. job' \in [Jobs -> Holdings]
    BY <1>0, <1>2, <2>1 DEF Find, Places
  <2> QED BY <1>0, <1>2, <2>2 DEF Find, TypeOK, Holdings
<1>3. ASSUME NEW d \in Deliveries, Insert(d) PROVE TypeOK'
  <2>1. job' \in [Jobs -> Holdings]
    BY <1>0, <1>3 DEF Insert, Moves, Holdings, Places
  <2>2. status' \in Statuses /\ delivery_count' \in Nat /\ creators' \subseteq Deliveries
    BY <1>0, <1>3 DEF Insert, TypeOK, Statuses
  <2> QED BY <1>0, <1>3, <2>1, <2>2 DEF Insert, TypeOK, Holdings
<1>4. ASSUME NEW d \in Deliveries, Recount(d) PROVE TypeOK'
  <2>1. job' \in [Jobs -> Holdings]
    BY <1>0, <1>4 DEF Recount, Places
  <2>2. delivery_count' \in Nat
    BY <1>0, <1>4 DEF Recount, Holdings
  <2> QED BY <1>0, <1>4, <2>1, <2>2 DEF Recount, TypeOK, Holdings
<1>5. ASSUME NEW d \in Deliveries, Announce(d) PROVE TypeOK'
  <2>1. PICK i \in DOMAIN runs : /\ runs[i].attempt = job[d].attempt
                                 /\ runs[i].outcome = job[d].outcome
    BY <1>0, <1>5 DEF Announce, InHand
  <2>2. [attempt |-> job[d].attempt, outcome |-> job[d].outcome]
          \in [attempt : Nat \ {0}, outcome : Outcomes]
    BY <2>1, StoredNumbers DEF Runs
  <2>3. announced' \subseteq [attempt : Nat \ {0}, outcome : Outcomes]
    BY <1>5, <2>2 DEF Announce, TypeOK
  <2>4. job' \in [Jobs -> Holdings]
    BY <1>0, <1>5 DEF Announce, Places
  <2> QED BY <1>0, <1>5, <2>3, <2>4 DEF Announce, TypeOK, Holdings
<1>6. ASSUME NEW r \in Replays, Accept(r) PROVE TypeOK'
  <2>1. job' \in [Jobs -> Holdings]
    BY <1>0, <1>6 DEF Accept, Moves, Holdings, Places
  <2> QED BY <1>0, <1>6, <2>1 DEF Accept, TypeOK, Holdings
<1>7. ASSUME NEW j \in Jobs, Open(j) PROVE TypeOK'
  <2>1. [Blank("begin") EXCEPT !.status = status] \in Holdings
    BY <1>0 DEF Holdings, Blank, Places
  <2>2. job' \in [Jobs -> Holdings]
    BY <1>0, <1>7, <2>1 DEF Open
  <2> QED BY <1>0, <1>7, <2>2 DEF Open, TypeOK, Holdings
<1>8. ASSUME NEW j \in Jobs, Begin(j) PROVE TypeOK'
  <2>1. [Blank("running") EXCEPT !.attempt = NextAttempt] \in Holdings
    BY <1>0, NumbersInHand DEF Holdings, Blank, Places
  <2>2. job' \in [Jobs -> Holdings]
    BY <1>0, <1>8, <2>1 DEF Begin
  <2>3. status' \in Statuses
    BY <1>0, <1>8, StatusTypes DEF Begin, Statuses
  <2> QED BY <1>0, <1>8, <2>2, <2>3 DEF Begin, TypeOK, Holdings
<1>9. ASSUME NEW j \in Jobs, RunGraph(j) PROVE TypeOK'
  <2>1. PICK outcome \in Outcomes, length \in 0 .. MaxSteps :
           job' = [job EXCEPT ![j].at = "number", ![j].outcome = outcome,
                              ![j].length = length]
    BY <1>9 DEF RunGraph
  <2>2. [job[j] EXCEPT !.at = "number", !.outcome = outcome, !.length = length]
          \in Holdings
    BY <1>0, HoldingUpdates DEF Places
  <2>3. job' = [job EXCEPT ![j] = [job[j] EXCEPT !.at = "number",
                                    !.outcome = outcome, !.length = length]]
    BY <1>0, <2>1
  <2>4. job' \in [Jobs -> Holdings]
    BY <1>0, <2>2, <2>3
  <2> QED BY <1>0, <1>9, <2>4 DEF RunGraph, TypeOK, Holdings
<1>10. ASSUME NEW j \in Jobs, Number(j) PROVE TypeOK'
  <2>1. [job[j] EXCEPT !.at = "save", !.status = status,
                       !.offset = SequenceOffset] \in Holdings
    BY <1>0, NumbersInHand, HoldingUpdates DEF Places
  <2>2. job' = [job EXCEPT ![j] = [job[j] EXCEPT !.at = "save", !.status = status,
                                                 !.offset = SequenceOffset]]
    BY <1>0, <1>10 DEF Number
  <2>3. job' \in [Jobs -> Holdings]
    BY <1>0, <2>1, <2>2
  <2> QED BY <1>0, <1>10, <2>3 DEF Number, TypeOK, Holdings
<1>11. ASSUME NEW j \in Jobs, Save(j) PROVE TypeOK'
  <2>1. CASE Collides(j)
    <3>1. Raises(j) /\ UNCHANGED <<incidentVars, historyVars, boundVars>>
      BY <1>11, <2>1 DEF Save
    <3> QED BY <1>0, <3>1, RaisesType DEF TypeOK, Holdings
  <2>2. CASE ~Collides(j)
    <3> DEFINE run == [attempt |-> job[j].attempt, outcome |-> job[j].outcome,
                       first |-> job[j].offset + 1,
                       last |-> job[j].offset + job[j].length]
    <3>1. job[j].at = "save" /\ job[j].attempt # 0 /\ job[j].outcome \in Outcomes
      BY <1>11 DEF Save, InHand
    <3>2. run \in Runs
      BY <1>0, <3>1, BoundsAreNaturals DEF Runs, Holdings
    <3>3. runs' = Append(runs, run)
      BY <1>11, <2>2 DEF Save
    <3>4. runs' \in Seq(Runs)
      BY <3>2, <3>3, AppendProperties DEF TypeOK
    <3>5. status' \in Statuses
      BY <1>0, <1>11, <2>2, StatusTypes DEF Save, Statuses
    <3>6. \E h \in Holdings : job' = [job EXCEPT ![j] = h]
      <4>1. [job[j] EXCEPT !.at = "announce"] \in Holdings
        BY <1>0, HoldingUpdates DEF Places
      <4>2. \/ Moves(j, "announce")
            \/ job' = [job EXCEPT ![j] = Blank("done")]
        BY <1>11, <2>2 DEF Save
      <4>3. CASE Moves(j, "announce")
        <5>1. job' = [job EXCEPT ![j] = [job[j] EXCEPT !.at = "announce"]]
          BY <1>0, <4>3 DEF Moves
        <5> QED BY <4>1, <5>1
      <4> QED BY <1>0, <4>2, <4>3 DEF Places
    <3>7. job' \in [Jobs -> Holdings]
      BY <1>0, <3>6
    <3> QED BY <1>0, <1>11, <2>2, <3>4, <3>5, <3>7 DEF Save, TypeOK, Holdings
  <2> QED BY <2>1, <2>2
<1>12. ASSUME NEW j \in Jobs, Fault(j) PROVE TypeOK'
  BY <1>0, <1>12, RaisesType DEF Fault, TypeOK, Holdings
<1>13. ASSUME NEW j \in Jobs, Crash(j) PROVE TypeOK'
  <2>1. job' \in [Jobs -> Holdings]
    BY <1>0, <1>13 DEF Crash, Places
  <2> QED BY <1>0, <1>13, <2>1 DEF Crash, TypeOK, Holdings
<1>14. CASE UNCHANGED vars
  BY <1>14 DEF vars, TypeOK
<1> QED
  BY <1>1, <1>2, <1>3, <1>4, <1>5, <1>6, <1>7, <1>8, <1>9, <1>10, <1>11,
     <1>12, <1>13, <1>14 DEF Next

-----------------------------------------------------------------------------
(* One more stored run *)

(* Stored runs stay: what one job stores takes nothing from the others.    *)
Grows ==
  /\ Diagnosed \subseteq Diagnosed' /\ Lasts \subseteq Lasts'
  /\ \A i \in DOMAIN runs : i \in DOMAIN runs' /\ runs'[i] = runs[i]
  /\ runs # <<>> => runs' # <<>>

LEMMA SameRunsGrow ==
  ASSUME runs' = runs
  PROVE  Grows /\ Diagnosed' = Diagnosed /\ Lasts' = Lasts
  BY DEF Grows, Diagnosed, Lasts

LEMMA AppendGrows ==
  ASSUME TypeOK, NEW run \in Runs, runs' = Append(runs, run)
  PROVE  /\ Grows
         /\ DOMAIN runs' = 1 .. Len(runs) + 1 /\ runs'[Len(runs) + 1] = run
         /\ Lasts' = Lasts \cup {run.last}
         /\ Diagnosed' = Diagnosed \cup
              IF HasDiagnosis(run) THEN {run.attempt} ELSE {}
<1>1. /\ DOMAIN runs' = 1 .. Len(runs) + 1
      /\ \A i \in 1 .. Len(runs) : runs'[i] = runs[i]
      /\ runs'[Len(runs) + 1] = run /\ runs' # <<>>
      /\ Len(runs) \in Nat /\ DOMAIN runs = 1 .. Len(runs)
  BY AppendProperties, LenProperties DEF TypeOK
<1>2. Lasts' = Lasts \cup {run.last}
  <2>1. Lasts' = {runs'[i].last : i \in DOMAIN runs'}
    BY DEF Lasts
  <2> QED BY <1>1, <2>1 DEF Lasts
<1>3. Diagnosed' = Diagnosed \cup
        IF HasDiagnosis(run) THEN {run.attempt} ELSE {}
  <2>1. Diagnosed' = {runs'[i].attempt :
                        i \in {k \in DOMAIN runs' : HasDiagnosis(runs'[k])}}
    BY DEF Diagnosed, HasDiagnosis
  <2> QED BY <1>1, <2>1 DEF Diagnosed, HasDiagnosis
<1> QED BY <1>1, <1>2, <1>3 DEF Grows

(* A run whose steps begin right after a stored one, and meet none that is *)
(* stored, continues the numbering.                                        *)
LEMMA AppendIsNumbered ==
  ASSUME TypeOK, TraceIsNumbered, NEW run \in Runs, runs' = Append(runs, run),
         run.first - 1 \in Lasts \cup {0}, run.first - 1 <= run.last,
         \A i \in DOMAIN runs : Steps(i) \cap (run.first .. run.last) = {}
  PROVE  TraceIsNumbered'
<1> DEFINE new == Len(runs) + 1
           Span(r) == r.first .. r.last
<1>1. /\ DOMAIN runs' = DOMAIN runs \cup {new} /\ new \notin DOMAIN runs
      /\ \A i \in DOMAIN runs : runs'[i] = runs[i]
      /\ runs'[new] = run
  BY AppendGrows, StoredNumbers DEF Grows
<1>2. \A i \in DOMAIN runs : Span(runs[i]) \cap Span(run) = {}
  BY DEF Steps
<1>3. ASSUME NEW i \in DOMAIN runs', NEW k \in DOMAIN runs', k # i
      PROVE  Span(runs'[i]) \cap Span(runs'[k]) = {}
  <2> HIDE DEF new, Span
  <2>1. CASE i = new
    BY <1>1, <1>2, <1>3, <2>1
  <2>2. CASE k = new
    BY <1>1, <1>2, <1>3, <2>2
  <2>3. CASE i \in DOMAIN runs /\ k \in DOMAIN runs
    BY <1>1, <1>3, <2>3 DEF TraceIsNumbered, Steps, Span
  <2> QED BY <1>1, <2>1, <2>2, <2>3
<1>4. ASSUME NEW i \in DOMAIN runs', NEW n \in 1 .. runs'[i].last
      PROVE  \E k \in DOMAIN runs' : n \in Span(runs'[k])
  <2>1. ASSUME NEW p \in DOMAIN runs, n \in 1 .. runs[p].last
        PROVE  \E k \in DOMAIN runs' : n \in Span(runs'[k])
    <3>1. PICK k \in DOMAIN runs : n \in Span(runs[k])
      BY <2>1 DEF TraceIsNumbered, Steps
    <3>2. k \in DOMAIN runs' /\ runs'[k] = runs[k]
      BY <1>1
    <3> QED BY <3>1, <3>2
  <2>2. CASE i = new /\ n < run.first
    <3>1. n \in 1 .. run.first - 1 /\ run.first - 1 \in Nat \ {0}
      BY <1>1, <2>2 DEF Runs
    <3>2. PICK p \in DOMAIN runs : runs[p].last = run.first - 1
      BY <3>1 DEF Lasts
    <3> QED BY <2>1, <3>1, <3>2
  <2>3. CASE i = new /\ ~(n < run.first)
    <3>1. n \in Span(run)
      BY <1>1, <2>3 DEF Runs
    <3> QED BY <1>1, <3>1
  <2>4. CASE i \in DOMAIN runs
    BY <1>1, <2>1, <2>4
  <2> QED BY <1>1, <2>2, <2>3, <2>4
<1> QED BY <1>3, <1>4 DEF TraceIsNumbered, Steps

(* A run that comes after every attempt below its own leaves no hole.      *)
LEMMA AppendLeavesNoHole ==
  ASSUME TypeOK, AttemptsHaveNoHoles, NEW run \in Runs,
         runs' = Append(runs, run),
         \A n \in 1 .. run.attempt - 1 : n \in Diagnosed
  PROVE  AttemptsHaveNoHoles'
<1> DEFINE new == Len(runs) + 1
<1>1. /\ DOMAIN runs' = DOMAIN runs \cup {new}
      /\ \A i \in DOMAIN runs : runs'[i] = runs[i]
      /\ runs'[new] = run
  BY AppendGrows, StoredNumbers DEF Grows
<1>2. ASSUME NEW i \in DOMAIN runs', NEW n \in 1 .. runs'[i].attempt - 1
      PROVE  \E k \in DOMAIN runs' : HasDiagnosis(runs'[k]) /\ runs'[k].attempt = n
  <2>1. CASE i = new
    <3>1. PICK k \in DOMAIN runs : HasDiagnosis(runs[k]) /\ runs[k].attempt = n
      BY <1>1, <2>1 DEF Diagnosed
    <3> QED BY <1>1, <3>1
  <2>2. CASE i \in DOMAIN runs
    <3>1. PICK k \in DOMAIN runs : HasDiagnosis(runs[k]) /\ runs[k].attempt = n
      BY <1>1, <2>2 DEF AttemptsHaveNoHoles
    <3> QED BY <1>1, <3>1
  <2> QED BY <1>1, <2>1, <2>2
<1> QED BY <1>2 DEF AttemptsHaveNoHoles, HasDiagnosis

(* A save whose steps met none that was stored keeps what the store is     *)
(* worth, and stores what its job may go on to announce.                   *)
LEMMA SaveKeepsStored ==
  ASSUME TypeOK, StoredInv, NEW j \in Jobs, InHand(j), Save(j), ~Collides(j)
  PROVE  /\ Grows /\ StoredInv' /\ runs' # <<>>
         /\ \E i \in DOMAIN runs' : /\ runs'[i].attempt = job[j].attempt
                                   /\ runs'[i].outcome = job[j].outcome
<1> DEFINE run == [attempt |-> job[j].attempt, outcome |-> job[j].outcome,
                   first |-> job[j].offset + 1,
                   last |-> job[j].offset + job[j].length]
<1>1. /\ job[j].at = "save"
      /\ job[j].attempt \in Nat \ {0} /\ job[j].outcome \in Outcomes
      /\ job[j].offset \in Lasts \cup {0} /\ job[j].offset \in Nat
      /\ job[j].length \in Nat
      /\ \A n \in 1 .. job[j].attempt - 1 : n \in Diagnosed
  BY BoundsAreNaturals DEF Save, InHand, TypeOK
<1>2. run \in Runs
  BY <1>1 DEF Runs
<1>3. /\ runs' = Append(runs, run)
      /\ status' = Written(job[j].status, StatusFor(run.outcome))
  BY DEF Save
<1>4. /\ run.first - 1 = job[j].offset /\ run.first - 1 <= run.last
      /\ run.attempt = job[j].attempt /\ run.outcome = job[j].outcome
      /\ run.last \in Nat
  BY <1>1
<1>5. \A i \in DOMAIN runs : Steps(i) \cap (run.first .. run.last) = {}
  BY DEF Collides, Steps
<1> HIDE DEF run
<1>6. TraceIsNumbered'
  BY <1>1, <1>2, <1>3, <1>4, <1>5, AppendIsNumbered DEF StoredInv
<1>7. AttemptsHaveNoHoles'
  BY <1>1, <1>2, <1>3, <1>4, AppendLeavesNoHole DEF StoredInv
<1>8. /\ Grows
      /\ DOMAIN runs' = 1 .. Len(runs) + 1 /\ runs'[Len(runs) + 1] = run
      /\ Lasts' = Lasts \cup {run.last}
      /\ Diagnosed' = Diagnosed \cup
           IF HasDiagnosis(run) THEN {run.attempt} ELSE {}
  BY <1>2, <1>3, AppendGrows
<1>9. /\ Len(runs) + 1 \in DOMAIN runs' /\ DOMAIN runs \subseteq DOMAIN runs'
      /\ \A i \in DOMAIN runs : runs'[i] = runs[i]
  BY <1>8, StoredNumbers DEF Grows
<1>10. HasTop(Diagnosed)' /\ HasTop(Lasts)'
  <2>1. HasTop(Lasts \cup {run.last}) /\ HasTop(Diagnosed \cup {run.attempt})
    BY <1>1, <1>4, StoredNumbers, TopGrows DEF StoredInv
  <2>2. Diagnosed' = Diagnosed \cup {run.attempt} \/ Diagnosed' = Diagnosed
    BY <1>8
  <2>3. HasTop(Diagnosed') /\ HasTop(Lasts')
    BY <1>8, <2>1, <2>2 DEF StoredInv
  <2> QED BY <2>3 DEF HasTop
<1>11. StatusIsEarned'
  <2>1. CASE status' = status
    <3> SUFFICES ASSUME status \in Terminal
                 PROVE  \E i \in DOMAIN runs' :
                          CASE runs'[i].outcome = "conclusive"   -> status = "diagnosed"
                            [] runs'[i].outcome = "inconclusive" -> status = "inconclusive"
                            [] OTHER                             -> status = "failed"
      BY <2>1 DEF StatusIsEarned
    <3>1. PICK i \in DOMAIN runs :
             CASE runs[i].outcome = "conclusive"   -> status = "diagnosed"
               [] runs[i].outcome = "inconclusive" -> status = "inconclusive"
               [] OTHER                            -> status = "failed"
      BY DEF StoredInv, StatusIsEarned
    <3>2. i \in DOMAIN runs' /\ runs'[i] = runs[i]
      BY <1>9
    <3> QED BY <3>1, <3>2
  <2>2. CASE status' = StatusFor(run.outcome)
    BY <1>8, <1>9, <2>2 DEF StatusIsEarned, StatusFor
  <2> QED BY <1>3, <2>1, <2>2 DEF Written
<1> QED BY <1>4, <1>6, <1>7, <1>8, <1>9, <1>10, <1>11 DEF StoredInv, Grows

(* Whoever stores nothing keeps what the store is worth, as long as it     *)
(* leaves the status alone or sets it back to an open one.                 *)
LEMMA OthersKeepStored ==
  ASSUME StoredInv, runs' = runs, status' = status \/ status' \notin Terminal
  PROVE  StoredInv'
<1>1. HasTop(Diagnosed)' /\ HasTop(Lasts)'
  BY SameRunsGrow DEF StoredInv, HasTop
<1>2. TraceIsNumbered' /\ AttemptsHaveNoHoles'
  BY DEF StoredInv, TraceIsNumbered, Steps, AttemptsHaveNoHoles, HasDiagnosis
<1>3. StatusIsEarned'
  BY DEF StoredInv, StatusIsEarned
<1> QED BY <1>1, <1>2, <1>3 DEF StoredInv

-----------------------------------------------------------------------------
(* What a job holds *)

(* A job that does not move keeps what is in its hand.                     *)
LEMMA InHandIsKept ==
  ASSUME NEW k \in Jobs, InHand(k), Grows, job'[k] = job[k]
  PROVE  InHand(k)'
<1>1. \A i \in DOMAIN runs : i \in DOMAIN runs' /\ runs'[i] = runs[i]
  BY DEF Grows
<1>2. job[k].at = "announce" =>
        \E i \in DOMAIN runs' : /\ runs'[i].attempt = job[k].attempt
                               /\ runs'[i].outcome = job[k].outcome
  BY <1>1 DEF InHand
<1>3. runs # <<>> => runs' # <<>>
  BY DEF Grows
<1>4. Diagnosed \subseteq Diagnosed' /\ Lasts \subseteq Lasts'
  BY DEF Grows
<1> QED BY <1>2, <1>3, <1>4 DEF InHand

(* A job that remembers nothing has nothing in its hand to go stale.       *)
LEMMA IdleInHand ==
  ASSUME NEW j \in Jobs,
         \/ job'[j].at \in {"waiting", "find", "insert", "open", "begin",
                            "parked", "dead"}
         \/ job'[j].at = "done" /\ (j \in Deliveries => runs' # <<>>)
  PROVE  InHand(j)'
  BY DEF InHand

LEMMA AllInHand ==
  ASSUME \A k \in Jobs : InHand(k), Grows, NEW j \in Jobs, InHand(j)',
         \A k \in Jobs \ {j} : job'[k] = job[k]
  PROVE  \A k \in Jobs : InHand(k)'
  BY InHandIsKept

(* A job that raised leaves the database and the other jobs as they were.  *)
LEMMA RaisesInHand ==
  ASSUME TypeOK, NEW j \in Jobs, Raises(j)
  PROVE  InHand(j)' /\ \A k \in Jobs \ {j} : job'[k] = job[k]
<1>1. PICK place \in {"find", "parked", "dead"} :
         job' = [job EXCEPT ![j] = Blank(place)]
  BY RaisesType
<1>2. /\ job'[j] = Blank(place)
      /\ \A k \in Jobs \ {j} : job'[k] = job[k]
  BY <1>1 DEF TypeOK
<1>3. job'[j].at \in {"find", "parked", "dead"}
  BY <1>2 DEF Blank
<1> QED BY <1>2, <1>3, IdleInHand

(* A step that neither announces nor creates keeps both histories right.   *)
LEMMA HistoriesKept ==
  ASSUME AnnouncedIsStored, CreatorInv, Grows,
         announced' = announced, creators' = creators,
         status' = "absent" => status = "absent"
  PROVE  AnnouncedIsStored' /\ CreatorInv'
<1>1. \A i \in DOMAIN runs : i \in DOMAIN runs' /\ runs'[i] = runs[i]
  BY DEF Grows
<1>2. AnnouncedIsStored'
  BY <1>1 DEF AnnouncedIsStored
<1> QED BY <1>2 DEF CreatorInv

-----------------------------------------------------------------------------
(* The invariant is inductive *)

LEMMA InitIncident == Init => IncidentInv
<1> SUFFICES ASSUME Init PROVE IncidentInv
  OBVIOUS
<1>1. DOMAIN runs = {}
  BY DEF Init
<1>2. StoredInv
  BY <1>1 DEF Init, StoredInv, HasTop, Diagnosed, Lasts, TraceIsNumbered,
              AttemptsHaveNoHoles, StatusIsEarned, Terminal
<1>3. \A j \in Jobs : InHand(j)
  BY DEF Init, InHand, Blank
<1> QED BY <1>2, <1>3, InitType DEF IncidentInv, Init, AnnouncedIsStored, CreatorInv

(* What a step keeps besides the types.                                    *)
Keeps == /\ \A k \in Jobs : InHand(k)'
         /\ StoredInv' /\ AnnouncedIsStored' /\ CreatorInv'

(* A job that touches neither the stored runs nor a status that is final.  *)
LEMMA QuietStep ==
  ASSUME IncidentInv, NEW j \in Jobs, InHand(j)',
         \A k \in Jobs \ {j} : job'[k] = job[k],
         runs' = runs, announced' = announced, creators' = creators,
         status' = status \/ status' = "investigating"
  PROVE  Keeps
<1>1. Grows
  BY SameRunsGrow
<1>2. StoredInv'
  BY OthersKeepStored DEF IncidentInv, Terminal
<1>3. AnnouncedIsStored' /\ CreatorInv'
  BY <1>1, HistoriesKept DEF IncidentInv
<1> QED BY <1>1, <1>2, <1>3, AllInHand DEF Keeps, IncidentInv

LEMMA NextIncident ==
  ASSUME IncidentInv, [Next]_vars
  PROVE  IncidentInv'
<1> DEFINE Alone(j) == \A k \in Jobs \ {j} : job'[k] = job[k]
<1> USE DEF incidentVars, historyVars, boundVars
<1>0. /\ TypeOK /\ StoredInv /\ AnnouncedIsStored /\ CreatorInv
      /\ \A j \in Jobs : InHand(j)
      /\ DOMAIN job = Jobs /\ job = [j \in Jobs |-> job[j]]
      /\ Deliveries \subseteq Jobs /\ Replays \subseteq Jobs
  BY DEF IncidentInv, TypeOK, Jobs
<1>1. ASSUME NEW d \in Deliveries, Deliver(d) PROVE Keeps
  <2>1. job'[d] = Blank("find") /\ Alone(d)
    BY <1>0, <1>1 DEF Deliver
  <2>2. InHand(d)'
    BY <1>0, <2>1, IdleInHand DEF Blank
  <2> QED BY <1>0, <1>1, <2>1, <2>2, QuietStep DEF Deliver
<1>2. ASSUME NEW d \in Deliveries, Find(d) PROVE Keeps
  <2>1. Alone(d)
    BY <1>0, <1>2 DEF Find
  <2>2. InHand(d)'
    <3>1. CASE status = "absent"
      <4>1. job'[d] = Blank("insert")
        BY <1>0, <1>2, <3>1 DEF Find
      <4> QED BY <1>0, <4>1, IdleInHand DEF Blank
    <3>2. CASE status # "absent"
      <4>1. job'[d].at = "recount" /\ job'[d].status = status /\ runs' = runs
        BY <1>0, <1>2, <3>2 DEF Find, Blank
      <4>2. status \in Terminal => runs # <<>>
        BY <1>0 DEF StoredInv, StatusIsEarned
      <4> QED BY <4>1, <4>2 DEF InHand
    <3> QED BY <3>1, <3>2
  <2> QED BY <1>0, <1>2, <2>1, <2>2, QuietStep DEF Find
<1>3. ASSUME NEW d \in Deliveries, Insert(d) PROVE Keeps
  <2>1. PICK place \in {"find", "open"} : Moves(d, place)
    BY <1>3 DEF Insert
  <2>2. job'[d].at = place /\ Alone(d)
    BY <1>0, <2>1 DEF Moves
  <2>3. InHand(d)'
    BY <1>0, <2>2, IdleInHand
  <2>4. Grows
    BY <1>3, SameRunsGrow DEF Insert
  <2>5. StoredInv'
    BY <1>0, <1>3, OthersKeepStored DEF Insert, Terminal
  <2>6. AnnouncedIsStored' /\ CreatorInv'
    <3>1. CASE IsDuplicate
      BY <1>0, <1>3, <2>4, <3>1, HistoriesKept DEF Insert
    <3>2. CASE ~IsDuplicate
      <4>1. status = "absent" /\ status' = "received" /\ creators' = {d}
        BY <1>0, <1>3, <3>2 DEF Insert, IsDuplicate, CreatorInv
      <4>2. runs' = runs /\ announced' = announced
        BY <1>3 DEF Insert
      <4> QED BY <1>0, <4>1, <4>2 DEF AnnouncedIsStored, CreatorInv
    <3> QED BY <3>1, <3>2
  <2> QED BY <1>0, <2>2, <2>3, <2>4, <2>5, <2>6, AllInHand DEF Keeps
<1>4. ASSUME NEW d \in Deliveries, Recount(d) PROVE Keeps
  <2>1. /\ job'[d] = Blank(IF AlreadyDone(job[d].status) THEN "done" ELSE "open")
        /\ Alone(d)
    BY <1>0, <1>4 DEF Recount
  <2>2. AlreadyDone(job[d].status) => runs' # <<>>
    BY <1>0, <1>4 DEF Recount, AlreadyDone, InHand
  <2>3. InHand(d)'
    BY <1>0, <2>1, <2>2, IdleInHand DEF Blank
  <2> QED BY <1>0, <1>4, <2>1, <2>3, QuietStep DEF Recount
<1>5. ASSUME NEW d \in Deliveries, Announce(d) PROVE Keeps
  <2> DEFINE message == [attempt |-> job[d].attempt, outcome |-> job[d].outcome]
  <2>1. job'[d] = Blank("done") /\ Alone(d) /\ runs' = runs
    BY <1>0, <1>5 DEF Announce
  <2>2. runs # <<>> /\ \E i \in DOMAIN runs : /\ runs[i].attempt = message.attempt
                                             /\ runs[i].outcome = message.outcome
    BY <1>0, <1>5 DEF Announce, InHand
  <2>3. InHand(d)'
    BY <1>0, <2>1, <2>2, IdleInHand DEF Blank
  <2>4. AnnouncedIsStored'
    <3>1. announced' \subseteq announced \cup {message}
      BY <1>5 DEF Announce
    <3> QED BY <1>0, <2>1, <2>2, <3>1 DEF AnnouncedIsStored
  <2>5. StoredInv' /\ CreatorInv'
    BY <1>0, <1>5, OthersKeepStored DEF Announce, CreatorInv
  <2>6. Grows
    BY <2>1, SameRunsGrow
  <2> QED BY <1>0, <2>1, <2>3, <2>4, <2>5, <2>6, AllInHand DEF Keeps
<1>6. ASSUME NEW r \in Replays, Accept(r) PROVE Keeps
  <2>1. job'[r].at = "open" /\ Alone(r)
    BY <1>0, <1>6 DEF Accept, Moves
  <2>2. InHand(r)'
    BY <1>0, <2>1, IdleInHand
  <2> QED BY <1>0, <1>6, <2>1, <2>2, QuietStep DEF Accept
<1>7. ASSUME NEW j \in Jobs, Open(j) PROVE Keeps
  <2>1. job'[j].at = "begin" /\ Alone(j)
    BY <1>0, <1>7 DEF Open, Blank
  <2>2. InHand(j)'
    BY <1>0, <2>1, IdleInHand
  <2> QED BY <1>0, <1>7, <2>1, <2>2, QuietStep DEF Open
<1>8. ASSUME NEW j \in Jobs, Begin(j) PROVE Keeps
  <2>1. /\ job'[j].at = "running" /\ job'[j].attempt = NextAttempt
        /\ Alone(j) /\ runs' = runs
    BY <1>0, <1>8 DEF Begin, Blank
  <2>2. /\ job'[j].attempt # 0
        /\ \A n \in 1 .. job'[j].attempt - 1 : n \in Diagnosed'
    BY <1>0, <2>1, NumbersInHand, SameRunsGrow
  <2>3. InHand(j)'
    BY <2>1, <2>2 DEF InHand
  <2>4. status' = status \/ status' = "investigating"
    BY <1>8 DEF Begin, Written
  <2> QED BY <1>0, <1>8, <2>1, <2>3, <2>4, QuietStep DEF Begin
<1>9. ASSUME NEW j \in Jobs, RunGraph(j) PROVE Keeps
  <2>1. /\ job[j].at = "running" /\ job'[j].at = "number"
        /\ job'[j].attempt = job[j].attempt /\ job'[j].outcome \in Outcomes
        /\ Alone(j) /\ runs' = runs
    BY <1>0, <1>9 DEF RunGraph, TypeOK
  <2>2. Diagnosed' = Diagnosed
    BY <2>1, SameRunsGrow
  <2>3. InHand(j)'
    BY <1>0, <2>1, <2>2 DEF InHand
  <2> QED BY <1>0, <1>9, <2>1, <2>3, QuietStep DEF RunGraph
<1>10. ASSUME NEW j \in Jobs, Number(j) PROVE Keeps
  <2>1. /\ job[j].at = "number" /\ job'[j].at = "save"
        /\ job'[j].attempt = job[j].attempt /\ job'[j].outcome = job[j].outcome
        /\ job'[j].offset = SequenceOffset
        /\ Alone(j) /\ runs' = runs
    BY <1>0, <1>10 DEF Number, TypeOK
  <2>2. Diagnosed' = Diagnosed /\ Lasts' = Lasts
    BY <2>1, SameRunsGrow
  <2>3. InHand(j)'
    BY <1>0, <2>1, <2>2, NumbersInHand DEF InHand
  <2> QED BY <1>0, <1>10, <2>1, <2>3, QuietStep DEF Number
<1>11. ASSUME NEW j \in Jobs, Save(j) PROVE Keeps
  <2>1. CASE Collides(j)
    <3>1. Raises(j) /\ UNCHANGED <<incidentVars, historyVars, boundVars>>
      BY <1>11, <2>1 DEF Save
    <3> QED BY <1>0, <3>1, RaisesInHand, QuietStep
  <2>2. CASE ~Collides(j)
    <3>1. /\ Grows /\ StoredInv' /\ runs' # <<>>
          /\ \E i \in DOMAIN runs' : /\ runs'[i].attempt = job[j].attempt
                                    /\ runs'[i].outcome = job[j].outcome
      BY <1>0, <1>11, <2>2, SaveKeepsStored
    <3>2. Alone(j) /\ \/ /\ job'[j].at = "announce"
                         /\ job'[j].attempt = job[j].attempt
                         /\ job'[j].outcome = job[j].outcome
                      \/ job'[j].at = "done"
      <4>1. Moves(j, "announce") \/ job' = [job EXCEPT ![j] = Blank("done")]
        BY <1>11, <2>2 DEF Save
      <4>2. CASE Moves(j, "announce")
        <5>1. job' = [job EXCEPT ![j] = [job[j] EXCEPT !.at = "announce"]]
          BY <1>0, <4>2 DEF Moves
        <5>2. job[j] \in Holdings
          BY <1>0 DEF TypeOK, Holdings
        <5>3. /\ [job[j] EXCEPT !.at = "announce"].at = "announce"
              /\ [job[j] EXCEPT !.at = "announce"].attempt = job[j].attempt
              /\ [job[j] EXCEPT !.at = "announce"].outcome = job[j].outcome
          BY <5>2 DEF Holdings
        <5>4. job'[j] = [job[j] EXCEPT !.at = "announce"] /\ Alone(j)
          BY <1>0, <5>1
        <5> QED BY <5>3, <5>4
      <4>3. CASE job' = [job EXCEPT ![j] = Blank("done")]
        BY <1>0, <4>3 DEF Blank
      <4> QED BY <4>1, <4>2, <4>3
    <3>3. InHand(j)'
      BY <3>1, <3>2 DEF InHand
    <3>4. status' = "absent" => status = "absent"
      BY <1>11, <2>2 DEF Save, Written, StatusFor
    <3>5. AnnouncedIsStored' /\ CreatorInv'
      BY <1>0, <1>11, <3>1, <3>4, HistoriesKept DEF Save
    <3> QED BY <1>0, <3>1, <3>2, <3>3, <3>5, AllInHand DEF Keeps
  <2> QED BY <2>1, <2>2
<1>12. ASSUME NEW j \in Jobs, Fault(j) PROVE Keeps
  BY <1>0, <1>12, RaisesInHand, QuietStep DEF Fault
<1>13. ASSUME NEW j \in Jobs, Crash(j) PROVE Keeps
  <2>1. job'[j].at \in {"waiting", "dead"} /\ Alone(j)
    BY <1>0, <1>13 DEF Crash, Blank
  <2>2. InHand(j)'
    BY <2>1, IdleInHand
  <2> QED BY <1>0, <1>13, <2>1, <2>2, QuietStep DEF Crash
<1>14. ASSUME UNCHANGED vars PROVE Keeps
  <2>1. Grows /\ \A k \in Jobs : InHand(k)'
    BY <1>0, <1>14, SameRunsGrow, InHandIsKept DEF vars
  <2>2. StoredInv' /\ AnnouncedIsStored' /\ CreatorInv'
    BY <1>0, <1>14, <2>1, OthersKeepStored, HistoriesKept DEF vars
  <2> QED BY <2>1, <2>2 DEF Keeps
<1>15. Keeps
  BY <1>1, <1>2, <1>3, <1>4, <1>5, <1>6, <1>7, <1>8, <1>9, <1>10, <1>11,
     <1>12, <1>13, <1>14 DEF Next
<1>16. TypeOK'
  BY <1>0, NextType
<1>17. (\A j \in Jobs : InHand(j))'
  BY <1>15 DEF Keeps, Jobs
<1> QED BY <1>15, <1>16, <1>17 DEF Keeps, IncidentInv

-----------------------------------------------------------------------------
(* Theorems of the specification *)

(* The invariant holds of every reachable state: what a job has read stays *)
(* good for what it does next, whatever the others commit meanwhile.       *)
THEOREM IncidentInvariant == Spec => []IncidentInv
<1>1. IncidentInv /\ [Next]_vars => IncidentInv'
  BY NextIncident
<1> QED BY <1>1, InitIncident, PTL DEF Spec

(* Every variable keeps its type, through retries, faults and crashes.     *)
THEOREM TypeCorrect == Spec => []TypeOK
<1>1. IncidentInv => TypeOK
  BY DEF IncidentInv
<1> QED BY <1>1, IncidentInvariant, PTL

(* The steps of an incident are numbered from one without a gap and        *)
(* without a number used twice, however many jobs save at once.            *)
THEOREM TraceStaysNumbered == Spec => []TraceIsNumbered
<1>1. IncidentInv => TraceIsNumbered
  BY DEF IncidentInv, StoredInv
<1> QED BY <1>1, IncidentInvariant, PTL

(* The attempts with a diagnosis never leave one out.                      *)
THEOREM AttemptsStayWhole == Spec => []AttemptsHaveNoHoles
<1>1. IncidentInv => AttemptsHaveNoHoles
  BY DEF IncidentInv, StoredInv
<1> QED BY <1>1, IncidentInvariant, PTL

(* A final status always says how some stored investigation ended.         *)
THEOREM StatusStaysEarned == Spec => []StatusIsEarned
<1>1. IncidentInv => StatusIsEarned
  BY DEF IncidentInv, StoredInv
<1> QED BY <1>1, IncidentInvariant, PTL

(* Nothing is announced that the database does not have.                   *)
THEOREM AnnouncedStaysStored == Spec => []AnnouncedIsStored
<1>1. IncidentInv => AnnouncedIsStored
  BY DEF IncidentInv
<1> QED BY <1>1, IncidentInvariant, PTL

(* A delivery whose handler returned leaves a stored investigation.        *)
THEOREM HandledStaysStored == Spec => []HandledIsStored
<1>1. IncidentInv => HandledIsStored
  BY DEF IncidentInv, InHand, HandledIsStored, Jobs
<1> QED BY <1>1, IncidentInvariant, PTL

(* However many deliveries race to open the incident, one does.            *)
THEOREM OneCreatorOnly == Spec => []OneCreator
<1>1. IncidentInv => OneCreator
  <2> SUFFICES ASSUME IncidentInv PROVE OneCreator
    OBVIOUS
  <2>1. CASE creators = {}
    BY <2>1, FS_EmptySet DEF OneCreator
  <2>2. CASE creators # {}
    <3>1. PICK c \in creators : TRUE
      BY <2>2
    <3>2. creators = {c}
      BY <3>1 DEF IncidentInv, CreatorInv
    <3> QED BY <3>2, FS_Singleton DEF OneCreator
  <2> QED BY <2>1, <2>2
<1> QED BY <1>1, IncidentInvariant, PTL

=============================================================================
