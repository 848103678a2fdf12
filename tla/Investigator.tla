----------------------------- MODULE Investigator -----------------------------
(***************************************************************************)
(* One incident, and everybody who investigates it: the deliveries of its  *)
(* failure that workers handle, and the replays the API runs               *)
(* (src/dag_doctor/worker/investigator.py, db/repositories.py, db/models.py *)
(* and api/v1/routes/incidents.py).  Two deliveries are under way at once  *)
(* when a partition moves to another worker while the first still holds    *)
(* the record; a replay may run beside either.                             *)
(*                                                                         *)
(* An action is one statement against the database, or the commit that     *)
(* follows it: a transaction sees what others committed before each of its *)
(* statements, and the unit of work writes a column only when the value    *)
(* assigned differs from the value it loaded.  The graph is one action     *)
(* here, and a state machine of its own in InvestigationGraph; what stands *)
(* before and after the handler is FailureConsumer.                        *)
(*                                                                         *)
(* announced and creators are histories; the program keeps neither.        *)
(***************************************************************************)
EXTENDS Integers, Sequences, FiniteSets

CONSTANTS
  Deliveries,    \* deliveries of the failure
  Replays,       \* replays of the incident
  MaxAttempts,   \* KafkaSettings.max_delivery_attempts
  Outcomes,      \* how an investigation may end
  MaxSteps,      \* bound: nodes one investigation runs
  MaxFaults,     \* bound: exceptions of the database or of the graph
  MaxCrashes     \* bound: processes that die

Jobs == Deliveries \cup Replays

ASSUME JobsAreDistinct == Deliveries \cap Replays = {}

ASSUME BoundsAreNaturals ==
  /\ MaxAttempts \in Nat \ {0} /\ MaxSteps \in Nat \ {0}
  /\ MaxFaults \in Nat /\ MaxCrashes \in Nat

ASSUME OutcomesAreKnown ==
  /\ Outcomes \subseteq {"conclusive", "inconclusive", "broken", "undiagnosed"}
  /\ Outcomes # {}

VARIABLES
  status,          \* Incident.status; "absent" while there is no row
  delivery_count,  \* Incident.delivery_count
  runs,            \* investigations stored, in the order they were committed
  job,             \* what a job is doing, and what it holds in memory
  tries,           \* calls of the handler within the current delivery
  announced,       \* diagnoses the broker accepted an announcement of
  creators,        \* history: deliveries that created the row
  faults, crashes

incidentVars == <<status, delivery_count, runs>>
historyVars  == <<announced, creators>>
boundVars    == <<faults, crashes>>

vars == <<incidentVars, job, tries, historyVars, boundVars>>

-----------------------------------------------------------------------------
Terminal == {"diagnosed", "inconclusive", "failed"}
Statuses == {"absent", "received", "investigating"} \cup Terminal

Places == {"waiting", "find", "insert", "recount", "open", "begin", "running",
           "number", "save", "announce", "done", "parked", "dead"}

AtRest == {"waiting", "done", "parked", "dead"}

(* A job that remembers nothing.                                           *)
Blank(place) ==
  [at |-> place, status |-> "absent", count |-> 0, attempt |-> 0,
   outcome |-> "none", length |-> 0, offset |-> 0]

Active(j) == job[j].at \notin AtRest

Moves(j, place) == job' = [job EXCEPT ![j].at = place]

(* _status_for: broken and undecided are kept apart.                       *)
StatusFor_NotKeptApart(outcome) ==
  IF outcome = "conclusive" THEN "diagnosed" ELSE "inconclusive"

StatusFor(outcome) ==
  CASE outcome = "conclusive"   -> "diagnosed"
    [] outcome = "inconclusive" -> "inconclusive"
    [] OTHER                    -> "failed"

HasDiagnosis(run) == run.outcome # "undiagnosed"

Highest(S) == IF S = {} THEN 0 ELSE CHOOSE n \in S : \A m \in S : m <= n

(* next_attempt: one more than the highest attempt with a diagnosis.       *)
NextAttempt ==
  1 + Highest({runs[i].attempt : i \in {k \in DOMAIN runs : HasDiagnosis(runs[k])}})

(* _sequence_offset: the highest step number stored.                       *)
SequenceOffset == Highest({runs[i].last : i \in DOMAIN runs})

(* uq_step_sequence: the steps a job is about to insert meet a stored one. *)
Collides_Never(j) == FALSE

Collides(j) ==
  \E i \in DOMAIN runs :
     runs[i].first .. runs[i].last
       \cap (job[j].offset + 1 .. job[j].offset + job[j].length) # {}

(* handle: a redelivery of an incident that was investigated before.       *)
AlreadyDone_WhenBegun(seen) == seen # "received"

AlreadyDone(seen) == seen \in Terminal

(* uq_incidents_identity.                                                  *)
IsDuplicate_AnyError == TRUE

IsDuplicate == status # "absent"

(* The unit of work leaves alone a column whose value did not change.      *)
Written(seen, value) == IF seen = value THEN status ELSE value

Init ==
  /\ status = "absent" /\ delivery_count = 0 /\ runs = <<>>
  /\ job = [j \in Jobs |-> Blank("waiting")]
  /\ tries = [d \in Deliveries |-> 0]
  /\ announced = {} /\ creators = {}
  /\ faults = 0 /\ crashes = 0

-----------------------------------------------------------------------------
(* The handler of a delivery *)

(* Kafka hands the record to a worker, for the first time or because its   *)
(* offset was never committed.                                             *)
Deliver(d) ==
  /\ job[d].at = "waiting"
  /\ job' = [job EXCEPT ![d] = Blank("find")]
  /\ tries' = [tries EXCEPT ![d] = 1]
  /\ UNCHANGED <<incidentVars, historyVars, boundVars>>

(* get_or_create looks for the row first.                                  *)
Find(d) ==
  /\ job[d].at = "find"
  /\ job' = [job EXCEPT ![d] =
               IF status = "absent"
                 THEN Blank("insert")
                 ELSE [Blank("recount") EXCEPT !.status = status,
                                               !.count = delivery_count]]
  /\ UNCHANGED <<incidentVars, tries, historyVars, boundVars>>

(* The constraint arbitrates: the loser of the race looks again.           *)
Insert(d) ==
  /\ job[d].at = "insert"
  /\ IF IsDuplicate
       THEN /\ Moves(d, "find")
            /\ UNCHANGED <<status, delivery_count, creators>>
       ELSE /\ status' = "received"
            /\ delivery_count' = 1
            /\ creators' = creators \cup {d}
            /\ Moves(d, "open")
  /\ UNCHANGED <<runs, tries, announced, boundVars>>

(* _record_redelivery writes the count it read plus one, and handle goes   *)
(* by the status it read.                                                  *)
Recount(d) ==
  /\ job[d].at = "recount"
  /\ delivery_count' = job[d].count + 1
  /\ job' = [job EXCEPT ![d] =
               Blank(IF AlreadyDone(job[d].status) THEN "done" ELSE "open")]
  /\ UNCHANGED <<status, runs, tries, historyVars, boundVars>>

-----------------------------------------------------------------------------
(* investigate, by a delivery or a replay *)

(* replay_incident requires the incident, and investigates it after the    *)
(* response.                                                               *)
Accept(r) ==
  /\ job[r].at = "waiting"
  /\ status # "absent"
  /\ Moves(r, "open")
  /\ UNCHANGED <<incidentVars, tries, historyVars, boundVars>>

Open(j) ==
  /\ job[j].at = "open"
  /\ job' = [job EXCEPT ![j] = [Blank("begin") EXCEPT !.status = status]]
  /\ UNCHANGED <<incidentVars, tries, historyVars, boundVars>>

(* set_status, next_attempt and the commit.                                *)
Begin(j) ==
  /\ job[j].at = "begin"
  /\ status' = Written(job[j].status, "investigating")
  /\ job' = [job EXCEPT ![j] = [Blank("running") EXCEPT !.attempt = NextAttempt]]
  /\ UNCHANGED <<delivery_count, runs, tries, historyVars, boundVars>>

(* The graph ends; the net around it turns an error of the graph itself    *)
(* into a broken investigation without a step.                             *)
RunGraph(j) ==
  /\ job[j].at = "running"
  /\ \E outcome \in Outcomes, length \in 0 .. MaxSteps :
        /\ length = 0 => outcome = "broken"
        /\ job' = [job EXCEPT ![j].at = "number", ![j].outcome = outcome,
                              ![j].length = length]
  /\ UNCHANGED <<incidentVars, tries, historyVars, boundVars>>

(* save numbers its steps from the highest one stored, and loads the row.  *)
Number(j) ==
  /\ job[j].at = "number"
  /\ job' = [job EXCEPT ![j].at = "save", ![j].status = status,
                        ![j].offset = SequenceOffset]
  /\ UNCHANGED <<incidentVars, tries, historyVars, boundVars>>

(* An exception leaves the transaction undone.  The consumer calls the     *)
(* handler again or parks the record; nobody repeats a replay.             *)
Raises_Swallowed(j) ==
  /\ Moves(j, IF j \in Deliveries THEN "announce" ELSE "done")
  /\ UNCHANGED tries

Raises(j) ==
  IF j \in Deliveries /\ tries[j] < MaxAttempts
    THEN /\ job' = [job EXCEPT ![j] = Blank("find")]
         /\ tries' = [tries EXCEPT ![j] = @ + 1]
    ELSE /\ job' = [job EXCEPT ![j] =
                      Blank(IF j \in Deliveries THEN "parked" ELSE "dead")]
         /\ UNCHANGED tries

(* Steps, evidence, hypotheses, diagnosis and status, in one commit.  Only *)
(* a worker has somewhere to announce what it found.                       *)
Save(j) ==
  LET run == [attempt |-> job[j].attempt, outcome |-> job[j].outcome,
              first |-> job[j].offset + 1, last |-> job[j].offset + job[j].length]
  IN  /\ job[j].at = "save"
      /\ IF Collides(j)
           THEN Raises(j) /\ UNCHANGED <<status, runs>>
           ELSE /\ runs' = Append(runs, run)
                /\ status' = Written(job[j].status, StatusFor(run.outcome))
                /\ IF j \in Deliveries /\ HasDiagnosis(run)
                     THEN Moves(j, "announce")
                     ELSE job' = [job EXCEPT ![j] = Blank("done")]
                /\ UNCHANGED tries
      /\ UNCHANGED <<delivery_count, historyVars, boundVars>>

(* A broker that refuses does not fail the investigation.                  *)
Announce(d) ==
  /\ job[d].at = "announce"
  /\ \E accepted \in BOOLEAN :
        announced' = announced \cup
          IF accepted
            THEN {[attempt |-> job[d].attempt, outcome |-> job[d].outcome]}
            ELSE {}
  /\ job' = [job EXCEPT ![d] = Blank("done")]
  /\ UNCHANGED <<incidentVars, tries, creators, boundVars>>

-----------------------------------------------------------------------------
(* What goes wrong *)

(* A statement or a commit fails, or the graph raises what its net does    *)
(* not catch.                                                              *)
Fault(j) ==
  /\ Active(j) /\ job[j].at # "announce"
  /\ faults < MaxFaults
  /\ Raises(j)
  /\ faults' = faults + 1
  /\ UNCHANGED <<incidentVars, historyVars, crashes>>

(* The process of a job dies.  A record whose offset was not committed is  *)
(* delivered again, also when its handler had finished.                    *)
Crash(j) ==
  /\ IF j \in Deliveries THEN job[j].at # "waiting" ELSE Active(j)
  /\ crashes < MaxCrashes
  /\ job' = [job EXCEPT ![j] =
               Blank(IF j \in Deliveries THEN "waiting" ELSE "dead")]
  /\ crashes' = crashes + 1
  /\ UNCHANGED <<incidentVars, tries, historyVars, faults>>

Investigate(j) == Open(j) \/ Begin(j) \/ RunGraph(j) \/ Number(j) \/ Save(j)

Handle(d) == Find(d) \/ Insert(d) \/ Recount(d) \/ Announce(d)

Next ==
  \/ \E d \in Deliveries : \/ Deliver(d)
                           \/ Find(d)
                           \/ Insert(d)
                           \/ Recount(d)
                           \/ Announce(d)
  \/ \E r \in Replays : Accept(r)
  \/ \E j \in Jobs : \/ Open(j)
                     \/ Begin(j)
                     \/ RunGraph(j)
                     \/ Number(j)
                     \/ Save(j)
                     \/ Fault(j)
                     \/ Crash(j)

(* Kafka delivers again what was not committed, and neither the database   *)
(* nor the graph, whose calls have timeouts, blocks a job for ever.        *)
Fairness ==
  /\ \A d \in Deliveries : WF_vars(Deliver(d)) /\ WF_vars(Handle(d))
  /\ \A j \in Jobs : WF_vars(Investigate(j))

Spec == Init /\ [][Next]_vars /\ Fairness

-----------------------------------------------------------------------------
(* Properties *)

Runs == [attempt : Nat \ {0}, outcome : Outcomes, first : Nat \ {0}, last : Nat]

TypeOK ==
  /\ status \in Statuses
  /\ delivery_count \in Nat
  /\ runs \in Seq(Runs)
  /\ job \in [Jobs -> [at : Places, status : Statuses, count : Nat,
                       attempt : Nat, outcome : Outcomes \cup {"none"},
                       length : 0 .. MaxSteps, offset : Nat]]
  /\ tries \in [Deliveries -> 0 .. MaxAttempts]
  /\ announced \subseteq [attempt : Nat \ {0}, outcome : Outcomes]
  /\ creators \subseteq Deliveries
  /\ faults \in Nat /\ crashes \in Nat

Steps(i) == runs[i].first .. runs[i].last

(* "The database arbitrates rather than the application": however many     *)
(* workers handle a failure at once, one of them opens the incident.       *)
OneCreator == Cardinality(creators) <= 1

(* "A replay continues the numbering rather than colliding with the run    *)
(* before it": the steps of an incident are numbered from one, without a   *)
(* number used twice and without a gap, whatever ran at the same time.     *)
TraceIsNumbered ==
  /\ \A i \in DOMAIN runs : \A k \in DOMAIN runs \ {i} :
        Steps(i) \cap Steps(k) = {}
  /\ \A i \in DOMAIN runs : \A n \in 1 .. runs[i].last :
        \E k \in DOMAIN runs : n \in Steps(k)

(* "Acknowledged and then lost": a delivery whose handler returned leaves  *)
(* a stored investigation behind.                                          *)
HandledIsStored ==
  (\E d \in Deliveries : job[d].at \in {"announce", "done"}) => runs # <<>>

(* An incident at rest shows how some stored investigation ended, and one  *)
(* that is only being looked at never shows an ending.                     *)
StatusIsEarned ==
  status \in Terminal =>
    \E i \in DOMAIN runs :
       CASE runs[i].outcome = "conclusive"   -> status = "diagnosed"
         [] runs[i].outcome = "inconclusive" -> status = "inconclusive"
         [] OTHER                            -> status = "failed"

(* Replays are "numbered": the attempts with a diagnosis are 1, 2, ...     *)
(* without a hole, so the highest one tells how far they go.               *)
AttemptsHaveNoHoles ==
  \A i \in DOMAIN runs : \A n \in 1 .. runs[i].attempt - 1 :
     \E k \in DOMAIN runs : HasDiagnosis(runs[k]) /\ runs[k].attempt = n

(* "Never an announcement of something the database does not have."        *)
AnnouncedIsStored ==
  \A message \in announced :
     \E i \in DOMAIN runs : /\ runs[i].attempt = message.attempt
                            /\ runs[i].outcome = message.outcome

(* Every delivery comes to an end: its handler returns, or its record is   *)
(* parked.                                                                 *)
EveryDeliveryEnds ==
  \A d \in Deliveries : Active(d) ~> job[d].at \in {"done", "parked"}

(* As long as fewer statements fail than a delivery has attempts, an       *)
(* incident always comes to rest: the deliveries recover from colliding    *)
(* with each other, from a failed statement and from a process that died.  *)
EveryIncidentIsSettled == status # "absent" ~> status \in Terminal

=============================================================================
