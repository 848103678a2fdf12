------------------------- MODULE EvaluationRun_proofs -------------------------
(***************************************************************************)
(* Proofs about EvaluationRun, for any scenarios, any answers of the agent *)
(* and any number of replays.                                              *)
(*                                                                         *)
(* What is scored was read from one of the incidents left to read, so      *)
(* Earned follows what is known of those incidents (Reading).  That a      *)
(* silence is honest needs that a listing leaves none of them out: a task  *)
(* fails once before the evaluation and once in it (RunsAreTold), so its   *)
(* incidents fit on a page (WholeListing).                                 *)
(***************************************************************************)
EXTENDS EvaluationRun, FiniteSetTheorems, TLAPS

-----------------------------------------------------------------------------
(* A failure becomes one incident, and is not queued again.                *)
RunsAreTold ==
  /\ \A i, k \in DOMAIN incidents :
        /\ incidents[i].scenario = incidents[k].scenario
        /\ incidents[i].run = incidents[k].run
        => i = k
  /\ \A f \in queue, i \in DOMAIN incidents :
        f.scenario # incidents[i].scenario \/ f.run # incidents[i].run

(* The latest diagnosis of an incident is one of those it was given.       *)
LatestIsStored ==
  \A i \in DOMAIN incidents : HasDiagnosis(i) => incidents[i].diagnosis \in incidents[i].past

IsOwn(s, i) == incidents[i].scenario = s /\ ~incidents[i].early

(* What is left to read is of the scenario and of this evaluation.         *)
Reading == \A s \in Scenarios : \A i \in poll[s].rest : IsOwn(s, i)

(* What was observed was stored for such an incident.                      *)
Earned ==
  \A s \in Scenarios : observed[s].found =>
     /\ observed[s].incident \in DOMAIN incidents
     /\ IsOwn(s, observed[s].incident)
     /\ observed[s].diagnosis \in incidents[observed[s].incident].past

(* A diagnosis that was there when the poll began is still to be read, or  *)
(* one was read.                                                           *)
Waiting ==
  \A s \in waiting :
     \/ observed[s].found
     \/ poll[s].at = "read" /\ \E i \in poll[s].rest : HasDiagnosis(i)

(* Nothing is polled before every scenario is triggered.                   *)
NotBegun ==
  phase \in {"idle", "triggering"} => \A s \in Scenarios : poll[s].at = "idle"

IInv ==
  /\ TypeOK /\ RunsAreTold /\ LatestIsStored /\ Reading /\ Earned /\ Waiting
  /\ NotBegun

-----------------------------------------------------------------------------
(* Operators *)

LEMMA DiagnosesAreAnswers == Undiagnosed \notin Diagnoses
<1>1. "stage" \in DOMAIN Undiagnosed BY DEF Undiagnosed
<1>2. \A d \in [conclusive : BOOLEAN, category : BOOLEAN, task : BOOLEAN] :
        "stage" \notin DOMAIN d
  OBVIOUS
<1> QED BY <1>1, <1>2, DiagnosesAreKnown

LEMMA IncidentTypes ==
  ASSUME TypeOK
  PROVE  /\ DOMAIN incidents \subseteq Nat
         /\ \A i \in DOMAIN incidents :
              /\ incidents[i] \in Incidents
              /\ incidents[i].run \in {"older", "this"}
              /\ HasDiagnosis(i) => incidents[i].diagnosis \in Diagnoses
<1>1. /\ DOMAIN incidents \subseteq Nat
      /\ \A i \in DOMAIN incidents : incidents[i] \in Incidents
  BY DEF TypeOK
<1> QED BY <1>1 DEF Incidents, HasDiagnosis

(* The incidents of a task fit on a page: a listing is all of them.        *)
LEMMA WholeListing ==
  ASSUME TypeOK, RunsAreTold, NEW s \in Scenarios
  PROVE  Listing(s) = {i \in DOMAIN incidents : incidents[i].scenario = s}
<1> DEFINE mine == {i \in DOMAIN incidents : incidents[i].scenario = s}
           Newer(i) == {k \in mine : k > i}
<1>1. ASSUME NEW i \in mine
      PROVE  Cardinality(Newer(i)) < PageLimit
  <2>1. DOMAIN incidents \subseteq Nat BY IncidentTypes
  <2>2. \A k \in mine : incidents[k].run \in {"older", "this"}
    BY IncidentTypes
  <2>3. \A k, m \in Newer(i) : k = m
    <3> SUFFICES ASSUME NEW k \in Newer(i), NEW m \in Newer(i) PROVE k = m
      OBVIOUS
    <3>1. i # k /\ i # m BY <2>1
    <3>2. incidents[k].run # incidents[i].run /\ incidents[m].run # incidents[i].run
      BY <3>1 DEF RunsAreTold
    <3>3. incidents[k].run = incidents[m].run BY <2>2, <3>2
    <3> QED BY <3>3 DEF RunsAreTold
  <2>4. CASE Newer(i) = {}
    BY <2>4, FS_EmptySet, ListingsAreLongEnough
  <2>5. CASE Newer(i) # {}
    <3>1. PICK k \in Newer(i) : TRUE BY <2>5
    <3>2. Newer(i) = {k} BY <2>3, <3>1
    <3>3. Cardinality({k}) = 1 BY FS_Singleton
    <3> HIDE DEF Newer
    <3> QED BY <3>2, <3>3, ListingsAreLongEnough
  <2> QED BY <2>4, <2>5
<1> QED BY <1>1 DEF Listing

(* A poll that is sent somewhere holds nothing to read.                    *)
LEMMA GoesSomewhere ==
  ASSUME TypeOK, NEW s \in Scenarios, NEW place \in Places, Goes(s, place)
  PROVE  /\ poll' = [poll EXCEPT ![s] = [at |-> place, rest |-> {}]]
         /\ poll'[s] = [at |-> place, rest |-> {}]
         /\ \A t \in Scenarios \ {s} : poll'[t] = poll[t]
         /\ poll' \in [Scenarios -> [at : Places, rest : SUBSET Nat]]
<1>1. poll \in [Scenarios -> [at : Places, rest : SUBSET Nat]] BY DEF TypeOK
<1>2. [Quiet EXCEPT !.at = place] = [at |-> place, rest |-> {}] BY DEF Quiet
<1>3. [at |-> place, rest |-> {}] \in [at : Places, rest : SUBSET Nat] OBVIOUS
<1> QED BY <1>1, <1>2, <1>3 DEF Goes

LEMMA NextPollWaits ==
  ASSUME NEW s \in Scenarios, NextPoll(s)
  PROVE  \E place \in {"done", "sleep"} : Goes(s, place)
BY DEF NextPoll

-----------------------------------------------------------------------------
(* What a store, a read and an opened incident leave behind *)

(* Storing a diagnosis changes nothing else about the incident.            *)
LEMMA StoreKeeps ==
  ASSUME TypeOK, LatestIsStored, NEW i \in DOMAIN incidents,
         NEW diagnosis \in Diagnoses, NEW latest \in Diagnoses,
         latest = diagnosis \/ (latest = incidents[i].diagnosis /\ HasDiagnosis(i)),
         Store(i, diagnosis, latest)
  PROVE  /\ incidents' \in Seq(Incidents) /\ DOMAIN incidents' = DOMAIN incidents
         /\ \A k \in DOMAIN incidents :
              /\ incidents'[k].scenario = incidents[k].scenario
              /\ incidents'[k].run = incidents[k].run
              /\ incidents'[k].early = incidents[k].early
              /\ incidents[k].past \subseteq incidents'[k].past
              /\ HasDiagnosis(k) => HasDiagnosis(k)'
         /\ LatestIsStored'
<1> DEFINE new == [incidents[i] EXCEPT !.diagnosis = latest, !.past = @ \cup {diagnosis}]
<1>1. /\ incidents \in Seq(Incidents) /\ incidents[i] \in Incidents
  BY IncidentTypes DEF TypeOK
<1>2. incidents' = [incidents EXCEPT ![i] = new]
  BY DEF Store
<1>3. /\ new \in Incidents /\ new.diagnosis = latest
      /\ new.past = incidents[i].past \cup {diagnosis}
      /\ new.scenario = incidents[i].scenario
      /\ new.run = incidents[i].run /\ new.early = incidents[i].early
  BY <1>1 DEF Incidents
<1>4. latest # Undiagnosed /\ latest \in new.past
  BY <1>3, DiagnosesAreAnswers DEF LatestIsStored
<1> HIDE DEF new
<1>5. /\ incidents' \in Seq(Incidents) /\ DOMAIN incidents' = DOMAIN incidents
      /\ incidents'[i] = new
      /\ \A k \in DOMAIN incidents \ {i} : incidents'[k] = incidents[k]
  BY <1>1, <1>2, <1>3
<1> QED BY <1>3, <1>4, <1>5 DEF HasDiagnosis, LatestIsStored

-----------------------------------------------------------------------------
(* The steps of Airflow, the worker and whoever replays *)

LEMMA StartsWell ==
  Init => IInv
<1> SUFFICES ASSUME Init PROVE IInv OBVIOUS
<1> USE DEF Init
<1>1. TypeOK
  <2>1. queue \subseteq [scenario : Scenarios, run : {"older", "this"}]
    BY ScenariosAreDistinct
  <2>2. incidents \in Seq(Incidents) /\ replays \in 0 .. MaxReplays
    BY BoundIsNatural
  <2>3. poll \in [Scenarios -> [at : Places, rest : SUBSET Nat]]
    BY DEF Quiet, Places
  <2>4. \A s \in Scenarios : poll[s].at = "idle" /\ poll[s].rest = {}
    BY DEF Quiet
  <2> QED BY <2>1, <2>2, <2>3, <2>4 DEF TypeOK
<1>2. RunsAreTold /\ LatestIsStored BY DEF RunsAreTold, LatestIsStored
<1>3. Reading /\ Earned /\ Waiting /\ NotBegun
  BY DEF Reading, Earned, Waiting, NotBegun, Quiet, Nothing
<1> QED BY <1>1, <1>2, <1>3 DEF IInv

LEMMA TaskFailsKeeps ==
  ASSUME IInv, NEW s \in Scenarios, TaskFails(s)
  PROVE  IInv'
<1> USE DEF TaskFails
<1>1. TypeOK'
  <2>1. queue' \subseteq [scenario : Scenarios, run : {"older", "this"}]
    BY DEF IInv, TypeOK
  <2> QED BY <2>1 DEF IInv, TypeOK
<1>2. RunsAreTold' BY DEF IInv, RunsAreTold
<1>3. LatestIsStored' /\ Reading' /\ Earned' /\ Waiting'
  BY DEF IInv, LatestIsStored, Reading, Earned, Waiting, HasDiagnosis, IsOwn
<1> QED BY <1>1, <1>2, <1>3 DEF IInv, NotBegun

LEMMA OpenIncidentKeeps ==
  ASSUME IInv, NEW failure \in queue, OpenIncident(failure)
  PROVE  IInv'
<1> DEFINE new == [scenario |-> failure.scenario, run |-> failure.run,
                   early |-> phase = "idle", diagnosis |-> Undiagnosed, past |-> {}]
           n == Len(incidents) + 1
<1> USE DEF OpenIncident
<1>1. failure \in [scenario : Scenarios, run : {"older", "this"}]
  BY DEF IInv, TypeOK
<1>2. incidents \in Seq(Incidents) BY DEF IInv, TypeOK
<1>3. new \in Incidents BY <1>1 DEF Incidents
<1>4. /\ new.scenario = failure.scenario /\ new.run = failure.run
      /\ new.diagnosis = Undiagnosed
  OBVIOUS
<1>5. incidents' = Append(incidents, new) OBVIOUS
<1> HIDE DEF new
<1>6. /\ incidents' \in Seq(Incidents) /\ DOMAIN incidents' = DOMAIN incidents \cup {n}
      /\ n \notin DOMAIN incidents /\ incidents'[n] = new
      /\ \A i \in DOMAIN incidents : incidents'[i] = incidents[i]
  BY <1>2, <1>3, <1>5
<1>7. TypeOK' BY <1>6 DEF IInv, TypeOK
<1>8. RunsAreTold'
  <2>1. \A i \in DOMAIN incidents :
          failure.scenario # incidents[i].scenario \/ failure.run # incidents[i].run
    BY DEF IInv, RunsAreTold
  <2>2. \A i, k \in DOMAIN incidents' :
          /\ incidents'[i].scenario = incidents'[k].scenario
          /\ incidents'[i].run = incidents'[k].run
          => i = k
    BY <1>4, <1>6, <2>1 DEF IInv, RunsAreTold
  <2>3. \A f \in queue', i \in DOMAIN incidents' :
          f.scenario # incidents'[i].scenario \/ f.run # incidents'[i].run
    <3> SUFFICES ASSUME NEW f \in queue, f # failure, NEW i \in DOMAIN incidents'
                 PROVE  \/ f.scenario # incidents'[i].scenario
                        \/ f.run # incidents'[i].run
      OBVIOUS
    <3>1. CASE i \in DOMAIN incidents BY <3>1, <1>6 DEF IInv, RunsAreTold
    <3>2. CASE i = n
      <4>1. f \in [scenario : Scenarios, run : {"older", "this"}]
        BY DEF IInv, TypeOK
      <4>2. f.scenario # failure.scenario \/ f.run # failure.run
        BY <1>1, <4>1
      <4> QED BY <3>2, <4>2, <1>4, <1>6
    <3> QED BY <3>1, <3>2, <1>6
  <2> QED BY <2>2, <2>3 DEF RunsAreTold
<1>9. LatestIsStored' BY <1>4, <1>6 DEF IInv, LatestIsStored, HasDiagnosis
<1>10. /\ \A s \in Scenarios : poll[s].rest \subseteq DOMAIN incidents
       /\ waiting \subseteq Scenarios
  BY DEF IInv, TypeOK
<1>11. Reading' BY <1>6, <1>10 DEF IInv, Reading, IsOwn
<1>12. Earned' BY <1>6 DEF IInv, Earned, IsOwn
<1>13. Waiting' BY <1>6, <1>10 DEF IInv, Waiting, HasDiagnosis
<1> QED BY <1>7, <1>8, <1>9, <1>11, <1>12, <1>13 DEF IInv, NotBegun

LEMMA StoreKeepsAll ==
  ASSUME IInv, NEW i \in DOMAIN incidents,
         NEW diagnosis \in Diagnoses, NEW latest \in Diagnoses,
         latest = diagnosis \/ (latest = incidents[i].diagnosis /\ HasDiagnosis(i)),
         Store(i, diagnosis, latest), replays' \in 0 .. MaxReplays,
         UNCHANGED <<phase, triggered, queue, poll, observed, expired, waiting>>
  PROVE  IInv'
<1>1. TypeOK /\ LatestIsStored BY DEF IInv
<1> DEFINE Kept(k) == /\ incidents'[k].scenario = incidents[k].scenario
                      /\ incidents'[k].run = incidents[k].run
                      /\ incidents'[k].early = incidents[k].early
                      /\ incidents[k].past \subseteq incidents'[k].past
                      /\ HasDiagnosis(k) => HasDiagnosis(k)'
<1>2. /\ incidents' \in Seq(Incidents) /\ DOMAIN incidents' = DOMAIN incidents
      /\ \A k \in DOMAIN incidents : Kept(k)
      /\ LatestIsStored'
  BY <1>1, StoreKeeps
<1>3. TypeOK' BY <1>2 DEF IInv, TypeOK
<1>4. RunsAreTold' BY <1>2 DEF IInv, RunsAreTold
<1>5. Reading' BY <1>2 DEF IInv, TypeOK, Reading, IsOwn
<1>6. Earned' BY <1>2 DEF IInv, TypeOK, Earned, IsOwn
<1>7. Waiting'
  <2>1. \A s \in Scenarios : poll[s].rest \subseteq DOMAIN incidents
    BY <1>1 DEF TypeOK
  <2>2. waiting \subseteq Scenarios BY <1>1 DEF TypeOK
  <2> QED BY <1>2, <2>1, <2>2 DEF IInv, Waiting
<1> QED BY <1>2, <1>3, <1>4, <1>5, <1>6, <1>7 DEF IInv, NotBegun


-----------------------------------------------------------------------------
(* The steps of evaluate *)

(* A step that only moves the evaluation on.                               *)
LEMMA PhaseKeeps ==
  ASSUME IInv,
         \/ Start
         \/ Score
         \/ \E s \in Scenarios : Trigger(s) \/ Expire(s)
  PROVE  IInv'
<1>1. /\ UNCHANGED <<queue, incidents, replays, poll, observed, waiting>>
      /\ phase' \in {"idle", "triggering", "awaiting", "scored", "failed"}
      /\ triggered' \subseteq Scenarios /\ expired' \subseteq Scenarios
      /\ phase' \in {"idle", "triggering"} => phase \in {"idle", "triggering"}
  BY DEF Start, Score, Trigger, Expire, agentVars, IInv, TypeOK
<1>2. TypeOK' BY <1>1 DEF IInv, TypeOK
<1>3. RunsAreTold' /\ LatestIsStored' /\ Reading' /\ Earned' /\ Waiting' /\ NotBegun'
  BY <1>1 DEF IInv, RunsAreTold, LatestIsStored, Reading, Earned, Waiting,
              HasDiagnosis, IsOwn, NotBegun
<1> QED BY <1>2, <1>3 DEF IInv

LEMMA AwaitKeeps ==
  ASSUME IInv, Await
  PROVE  IInv'
<1>1. /\ UNCHANGED <<queue, incidents, replays, triggered, observed, expired, waiting>>
      /\ phase' = "awaiting"
      /\ \A s \in Scenarios : poll[s].at = "idle"
      /\ \A s \in Scenarios : poll'[s] = [at |-> "list", rest |-> {}]
      /\ poll' \in [Scenarios -> [at : Places, rest : SUBSET Nat]]
  BY DEF Await, agentVars, IInv, NotBegun, Quiet, Places
<1>2. TypeOK'
  <2>1. \A s \in Scenarios : poll'[s].at = "list" /\ poll'[s].rest = {}
    BY <1>1
  <2>2. /\ poll' \in [Scenarios -> [at : Places, rest : SUBSET Nat]]
        /\ \A s \in Scenarios :
             /\ poll'[s].rest \subseteq DOMAIN incidents
             /\ poll'[s].at = "read" <=> poll'[s].rest # {}
    BY <1>1, <2>1
  <2>3. phase' \in {"idle", "triggering", "awaiting", "scored", "failed"}
    BY <1>1
  <2>4. UNCHANGED <<queue, incidents, replays, triggered, observed, expired, waiting>>
    BY <1>1
  <2> QED BY <2>2, <2>3, <2>4 DEF IInv, TypeOK
<1>3. RunsAreTold' /\ LatestIsStored' /\ Reading' /\ Earned' /\ NotBegun'
  BY <1>1 DEF IInv, RunsAreTold, LatestIsStored, Reading, Earned,
              HasDiagnosis, IsOwn, NotBegun
<1>4. Waiting'
  <2>1. waiting \subseteq Scenarios BY DEF IInv, TypeOK
  <2> QED BY <1>1, <2>1 DEF IInv, Waiting
<1> QED BY <1>2, <1>3, <1>4 DEF IInv

-----------------------------------------------------------------------------
(* The steps of await_diagnosis *)

(* A poll that goes on, with own incidents to read if any, and that waits  *)
(* for a diagnosis only if one of them has it.                             *)
LEMMA PollKeeps ==
  ASSUME IInv, NEW s \in Scenarios, NEW at \in Places, poll[s].at # "idle",
         NEW rest \in SUBSET DOMAIN incidents,
         at = "read" <=> rest # {},
         \A i \in rest : IsOwn(s, i),
         poll' = [poll EXCEPT ![s] = [at |-> at, rest |-> rest]],
         waiting' \subseteq waiting \cup {s},
         s \in waiting' => observed[s].found \/ \E i \in rest : HasDiagnosis(i),
         UNCHANGED <<phase, triggered, queue, incidents, replays, observed, expired>>
  PROVE  IInv'
<1>1. poll \in [Scenarios -> [at : Places, rest : SUBSET Nat]] BY DEF IInv, TypeOK
<1>2. [at |-> at, rest |-> rest] \in [at : Places, rest : SUBSET Nat]
  BY IncidentTypes DEF IInv
<1>3. /\ poll' \in [Scenarios -> [at : Places, rest : SUBSET Nat]]
      /\ poll'[s].at = at /\ poll'[s].rest = rest
      /\ \A t \in Scenarios \ {s} : poll'[t] = poll[t]
  BY <1>1, <1>2
<1>4. waiting' \subseteq Scenarios BY DEF IInv, TypeOK
<1>5. TypeOK'
  <2>1. \A t \in Scenarios :
          /\ poll'[t].rest \subseteq DOMAIN incidents
          /\ poll'[t].at = "read" <=> poll'[t].rest # {}
    BY <1>3 DEF IInv, TypeOK
  <2> QED BY <1>3, <1>4, <2>1 DEF IInv, TypeOK
<1>6. Reading' BY <1>3 DEF IInv, Reading, IsOwn
<1>7. Waiting'
  <2> SUFFICES ASSUME NEW t \in waiting'
               PROVE  \/ observed[t].found
                      \/ poll'[t].at = "read" /\ \E i \in poll'[t].rest : HasDiagnosis(i)
    BY DEF Waiting, HasDiagnosis
  <2>1. CASE t = s BY <2>1, <1>3
  <2>2. CASE t # s BY <2>2, <1>3, <1>4 DEF IInv, Waiting
  <2> QED BY <2>1, <2>2
<1>8. RunsAreTold' /\ LatestIsStored' /\ Earned'
  BY DEF IInv, RunsAreTold, LatestIsStored, Earned, HasDiagnosis, IsOwn
<1>9. NotBegun' BY DEF IInv, NotBegun
<1> QED BY <1>5, <1>6, <1>7, <1>8, <1>9 DEF IInv

(* LosePoll, Wake and List: nothing is observed.                           *)
LEMMA LosePollKeeps ==
  ASSUME IInv, NEW s \in Scenarios, LosePoll(s)
  PROVE  IInv'
<1>1. PICK place \in {"done", "sleep"} : Goes(s, place)
  BY NextPollWaits DEF LosePoll
<1>2. poll' = [poll EXCEPT ![s] = [at |-> place, rest |-> {}]]
  BY <1>1, GoesSomewhere DEF IInv, Places
<1>3. /\ UNCHANGED <<phase, triggered, queue, incidents, replays, observed, expired>>
      /\ waiting' = waiting \ {s} /\ poll[s].at # "idle"
  BY DEF LosePoll, agentVars
<1>4. place \in Places /\ place # "read" BY DEF Places
<1> QED BY <1>2, <1>3, <1>4, PollKeeps

LEMMA WakeKeeps ==
  ASSUME IInv, NEW s \in Scenarios, Wake(s)
  PROVE  IInv'
<1>1. poll' = [poll EXCEPT ![s] = [at |-> "list", rest |-> {}]]
  BY GoesSomewhere DEF IInv, Places, Wake
<1>2. /\ UNCHANGED <<phase, triggered, queue, incidents, replays, observed, expired>>
      /\ waiting' = waiting /\ poll[s].at = "sleep"
  BY DEF Wake, agentVars
<1>3. s \in waiting => observed[s].found BY <1>2 DEF IInv, Waiting
<1>4. "list" \in Places BY DEF Places
<1> QED BY <1>1, <1>2, <1>3, <1>4, PollKeeps

LEMMA ListKeeps ==
  ASSUME IInv, NEW s \in Scenarios, List(s)
  PROVE  IInv'
<1> DEFINE rest == {i \in Listing(s) : Counts(i)}
           place == IF rest # {} THEN "read"
                    ELSE IF s \in expired THEN "done" ELSE "sleep"
<1>1. rest = {i \in DOMAIN incidents : IsOwn(s, i)}
  BY WholeListing DEF IInv, Counts, IsOwn
<1>2. poll' = [poll EXCEPT ![s] = [at |-> place, rest |-> rest]]
  <2>1. CASE rest # {} BY <2>1 DEF List
  <2>2. CASE rest = {}
    <3>1. Goes(s, place) BY <2>2 DEF List, NextPoll
    <3>2. place \in Places BY DEF Places
    <3>3. poll' = [poll EXCEPT ![s] = [at |-> place, rest |-> {}]]
      BY <3>1, <3>2, GoesSomewhere DEF IInv
    <3> QED BY <2>2, <3>3
  <2> QED BY <2>1, <2>2
<1>3. /\ UNCHANGED <<phase, triggered, queue, incidents, replays, observed, expired>>
      /\ poll[s].at = "list"
      /\ waiting' \subseteq waiting \cup {s}
      /\ s \in waiting' => \E i \in DOMAIN incidents : IsOwn(s, i) /\ HasDiagnosis(i)
  BY DEF List, agentVars, IsOwn
<1>4. place \in Places /\ (place = "read" <=> rest # {}) BY DEF Places
<1>5. s \in waiting' => \E i \in rest : HasDiagnosis(i) BY <1>1, <1>3
<1>6. rest \in SUBSET DOMAIN incidents /\ \A i \in rest : IsOwn(s, i) BY <1>1
<1> HIDE DEF rest, place
<1> QED BY <1>2, <1>3, <1>4, <1>5, <1>6, PollKeeps

(* The newest of what is left is read: if it has no diagnosis, another one *)
(* that has it is still there.                                             *)
LEMMA ReadKeeps ==
  ASSUME IInv, NEW s \in Scenarios, Read(s)
  PROVE  IInv'
<1>1. PICK i \in poll[s].rest :
        IF HasDiagnosis(i)
          THEN /\ observed' = [observed EXCEPT ![s] = Observe(i)]
               /\ Goes(s, "done")
          ELSE /\ IF poll[s].rest = {i} THEN NextPoll(s)
                  ELSE poll' = [poll EXCEPT ![s].rest = @ \ {i}]
               /\ UNCHANGED observed
  BY DEF Read
<1>2. /\ UNCHANGED <<phase, triggered, queue, incidents, replays, expired, waiting>>
      /\ poll[s].at = "read"
  BY DEF Read, agentVars
<1>3. /\ poll[s].rest \subseteq DOMAIN incidents
      /\ \A k \in poll[s].rest : IsOwn(s, k)
      /\ poll \in [Scenarios -> [at : Places, rest : SUBSET Nat]]
  BY DEF IInv, TypeOK, Reading
<1>4. CASE HasDiagnosis(i)
  <2>1. /\ poll'[s] = [at |-> "done", rest |-> {}]
        /\ \A t \in Scenarios \ {s} : poll'[t] = poll[t]
        /\ poll' \in [Scenarios -> [at : Places, rest : SUBSET Nat]]
    BY <1>1, <1>4, GoesSomewhere DEF IInv, Places
  <2>2. DOMAIN observed = Scenarios BY DEF IInv, TypeOK
  <2>3. /\ DOMAIN observed' = Scenarios /\ observed'[s] = Observe(i)
        /\ \A t \in Scenarios \ {s} : observed'[t] = observed[t]
    BY <1>1, <1>4, <2>2
  <2>4. /\ i \in DOMAIN incidents /\ incidents[i].diagnosis \in Diagnoses
        /\ incidents[i].diagnosis \in incidents[i].past
    BY <1>3, <1>4, IncidentTypes DEF IInv, LatestIsStored
  <2>5. /\ Observe(i) \in [found : {TRUE}, incident : DOMAIN incidents, diagnosis : Diagnoses]
        /\ Observe(i).found /\ Observe(i).incident = i
        /\ Observe(i).diagnosis = incidents[i].diagnosis
    BY <2>4 DEF Observe
  <2>6. TypeOK'
    <3>1. \A t \in Scenarios :
            /\ poll'[t].rest \subseteq DOMAIN incidents
            /\ poll'[t].at = "read" <=> poll'[t].rest # {}
      <4>1. poll'[s].at = "done" /\ poll'[s].rest = {} BY <2>1
      <4> QED BY <2>1, <4>1 DEF IInv, TypeOK
    <3>2. \A t \in Scenarios :
            observed'[t] \in {Nothing} \cup
              [found : {TRUE}, incident : DOMAIN incidents, diagnosis : Diagnoses]
      BY <2>3, <2>5 DEF IInv, TypeOK
    <3> HIDE DEF Nothing
    <3> QED BY <1>2, <2>1, <2>3, <3>1, <3>2 DEF IInv, TypeOK
  <2>7. Earned' BY <1>2, <1>3, <2>3, <2>4, <2>5 DEF IInv, Earned, IsOwn
  <2>8. Reading'
    <3>1. poll'[s].rest = {} BY <2>1
    <3> QED BY <1>2, <2>1, <3>1 DEF IInv, Reading, IsOwn
  <2>9. Waiting'
    <3>1. waiting \subseteq Scenarios BY DEF IInv, TypeOK
    <3> QED BY <1>2, <2>1, <2>3, <2>5, <3>1 DEF IInv, Waiting, HasDiagnosis
  <2>10. RunsAreTold' /\ LatestIsStored' /\ NotBegun'
    BY <1>2 DEF IInv, RunsAreTold, LatestIsStored, HasDiagnosis, NotBegun
  <2> QED BY <2>6, <2>7, <2>8, <2>9, <2>10 DEF IInv
<1>5. CASE ~HasDiagnosis(i)
  <2> DEFINE rest == poll[s].rest \ {i}
             place == IF rest # {} THEN "read"
                      ELSE IF s \in expired THEN "done" ELSE "sleep"
  <2>1. poll' = [poll EXCEPT ![s] = [at |-> place, rest |-> rest]]
    <3>1. CASE rest # {}
      <4>1. poll' = [poll EXCEPT ![s].rest = @ \ {i}] BY <1>1, <1>5, <3>1
      <4>2. [poll[s] EXCEPT !.rest = rest] = [at |-> "read", rest |-> rest]
        BY <1>2, <1>3
      <4>3. poll' = [poll EXCEPT ![s] = [poll[s] EXCEPT !.rest = rest]]
        BY <4>1
      <4> QED BY <3>1, <4>2, <4>3
    <3>2. CASE rest = {}
      <4>1. Goes(s, place) BY <1>1, <1>5, <3>2 DEF NextPoll
      <4>2. place \in Places BY DEF Places
      <4>3. poll' = [poll EXCEPT ![s] = [at |-> place, rest |-> {}]]
        BY <4>1, <4>2, GoesSomewhere DEF IInv
      <4> QED BY <3>2, <4>3
    <3> QED BY <3>1, <3>2
  <2>2. place \in Places /\ (place = "read" <=> rest # {}) BY DEF Places
  <2>3. s \in waiting => observed[s].found \/ \E k \in rest : HasDiagnosis(k)
    BY <1>2, <1>5 DEF IInv, Waiting
  <2>4. rest \in SUBSET DOMAIN incidents /\ \A k \in rest : IsOwn(s, k) BY <1>3
  <2>5. UNCHANGED observed BY <1>1, <1>5
  <2> HIDE DEF rest, place
  <2> QED BY <1>2, <2>1, <2>2, <2>3, <2>4, <2>5, PollKeeps
<1> QED BY <1>4, <1>5

LEMMA StepsKeep ==
  ASSUME IInv, [Next]_vars
  PROVE  IInv'
<1>1. CASE UNCHANGED vars
  <2>1. UNCHANGED <<phase, triggered, queue, incidents, replays, poll, observed,
                    expired, waiting>>
    BY <1>1 DEF vars, agentVars
  <2>2. TypeOK' BY <2>1 DEF IInv, TypeOK
  <2>3. /\ RunsAreTold' /\ LatestIsStored' /\ Reading' /\ Earned' /\ Waiting'
        /\ NotBegun'
    BY <2>1 DEF IInv, RunsAreTold, LatestIsStored, Reading, Earned, Waiting,
                HasDiagnosis, IsOwn, NotBegun
  <2> QED BY <2>2, <2>3 DEF IInv
<1>2. ASSUME NEW i \in DOMAIN incidents, Diagnose(i) PROVE IInv'
  <2>1. PICK diagnosis \in Diagnoses, latest \in Diagnoses :
          latest = diagnosis /\ Store(i, diagnosis, latest)
    BY <1>2 DEF Diagnose
  <2>2. UNCHANGED <<phase, triggered, queue, poll, observed, expired, waiting>>
    BY <1>2 DEF Diagnose
  <2>3. replays' \in 0 .. MaxReplays BY <1>2 DEF Diagnose, IInv, TypeOK
  <2> QED BY <2>1, <2>2, <2>3, StoreKeepsAll
<1>3. ASSUME NEW i \in DOMAIN incidents, Replay(i) PROVE IInv'
  <2>1. PICK diagnosis \in Diagnoses :
          \E latest \in {diagnosis, incidents[i].diagnosis} : Store(i, diagnosis, latest)
    BY <1>3 DEF Replay
  <2>2. PICK latest \in {diagnosis, incidents[i].diagnosis} : Store(i, diagnosis, latest)
    BY <2>1
  <2>3. HasDiagnosis(i) BY <1>3 DEF Replay
  <2>4. latest \in Diagnoses BY <2>2, <2>3, IncidentTypes DEF IInv
  <2>5. UNCHANGED <<phase, triggered, queue, poll, observed, expired, waiting>>
    BY <1>3 DEF Replay
  <2>6. replays' \in 0 .. MaxReplays
    BY <1>3, BoundIsNatural DEF Replay, IInv, TypeOK
  <2>7. latest = diagnosis \/ (latest = incidents[i].diagnosis /\ HasDiagnosis(i))
    BY <2>2, <2>3
  <2> QED BY <2>2, <2>4, <2>5, <2>6, <2>7, StoreKeepsAll
<1>4. ASSUME NEW s \in Scenarios, TaskFails(s) \/ List(s) \/ Read(s) \/ LosePoll(s) \/ Wake(s)
      PROVE  IInv'
  BY <1>4, TaskFailsKeeps, ListKeeps, ReadKeeps, LosePollKeeps, WakeKeeps
<1>5. ASSUME NEW failure \in queue, OpenIncident(failure) PROVE IInv'
  BY <1>5, OpenIncidentKeeps
<1> QED BY <1>1, <1>2, <1>3, <1>4, <1>5, PhaseKeeps, AwaitKeeps DEF Next

-----------------------------------------------------------------------------
(* Theorems *)

THEOREM Invariance == Spec => []IInv
<1>1. Init => IInv BY StartsWell
<1>2. IInv /\ [Next]_vars => IInv' BY StepsKeep
<1> QED BY <1>1, <1>2, PTL DEF Spec

(* The variables keep their types, however many scenarios and replays.     *)
THEOREM TypeCorrect == Spec => []TypeOK
<1>1. IInv => TypeOK BY DEF IInv
<1> QED BY <1>1, Invariance, PTL

(* No marks without a stored, conclusive diagnosis of this evaluation's    *)
(* own incident (_latest_diagnosis, ScenarioResult).                       *)
THEOREM MarksAreEarned == Spec => []CorrectIsEarned
<1>1. IInv => CorrectIsEarned
  <2> SUFFICES ASSUME IInv, NEW s \in Failing
               PROVE  /\ CategoryCorrect(s) =>
                           \E i \in DOMAIN incidents :
                              /\ incidents[i].scenario = s /\ ~incidents[i].early
                              /\ \E said \in incidents[i].past :
                                    said.conclusive /\ said.category
                      /\ AttributionCorrect(s) =>
                           \E i \in DOMAIN incidents :
                              /\ incidents[i].scenario = s /\ ~incidents[i].early
                              /\ \E said \in incidents[i].past :
                                    said.conclusive /\ said.task
                      /\ Verdict(s) = "correct" <=> CategoryCorrect(s)
    BY DEF CorrectIsEarned
  <2>1. s \in Scenarios /\ s \notin Controls
    BY ScenariosAreDistinct DEF Scenarios
  <2>2. CategoryCorrect(s) <=> /\ observed[s].found /\ observed[s].diagnosis.conclusive
                               /\ observed[s].diagnosis.category
    BY DEF CategoryCorrect
  <2>3. observed[s].found =>
          /\ observed[s].incident \in DOMAIN incidents
          /\ IsOwn(s, observed[s].incident)
          /\ observed[s].diagnosis \in incidents[observed[s].incident].past
    BY <2>1 DEF IInv, Earned
  <2>4. Verdict(s) = "correct" <=> CategoryCorrect(s)
    BY <2>1, <2>2 DEF Verdict
  <2> QED BY <2>2, <2>3, <2>4 DEF IsOwn, AttributionCorrect
<1> QED BY <1>1, Invariance, PTL

(* "No diagnosis" is said of a scenario only if nothing was diagnosed when *)
(* its last answered poll began (await_diagnosis).                         *)
THEOREM SilencesAreHonest == Spec => []SilenceIsHonest
<1>1. IInv => SilenceIsHonest BY DEF IInv, Waiting, SilenceIsHonest
<1> QED BY <1>1, Invariance, PTL

===============================================================================
