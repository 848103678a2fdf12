---------------------------- MODULE EvaluationRun ----------------------------
(***************************************************************************)
(* One evaluation of the agent: every scenario's DAG is triggered, the API *)
(* is polled for what the agent made of each failure until a deadline, and *)
(* what was found is scored (src/dag_doctor/evaluation/runner.py,          *)
(* scorer.py, scenarios.py, and the listing of api/v1/routes/incidents.py). *)
(* Around it Airflow, the worker and people who replay investigations go   *)
(* on.  A poll is a listing and then one request per incident, so what is  *)
(* read in one request is stale in the next.                               *)
(***************************************************************************)
EXTENDS Integers, Sequences, FiniteSets

CONSTANTS
  Failing,    \* scenarios whose DAG fails
  Controls,   \* scenarios whose DAG succeeds
  Attributed, \* scenarios whose responsible task is scored
  Older,      \* scenarios that failed before the evaluation, as well
  Diagnoses,  \* what the agent answers, as far as the scorer can tell
  PageLimit,  \* incidents a listing returns
  MaxReplays  \* bound: investigations repeated

Scenarios == Failing \cup Controls

ASSUME ScenariosAreDistinct ==
  /\ Failing \cap Controls = {}
  /\ Attributed \subseteq Failing
  /\ Older \subseteq Scenarios

(* Of the expected answer, category and responsible task may be met.       *)
ASSUME DiagnosesAreKnown ==
  Diagnoses \subseteq [conclusive : BOOLEAN, category : BOOLEAN, task : BOOLEAN]

(* A task fails at most twice here; _latest_diagnosis asks for ten.         *)
ASSUME ListingsAreLongEnough == PageLimit \in Nat /\ PageLimit >= 2

ASSUME BoundIsNatural == MaxReplays \in Nat

VARIABLES
  phase,      \* what evaluate() is doing
  triggered,  \* scenarios Airflow accepted
  queue,      \* failures no worker has taken
  incidents,  \* incidents, in the order they were received
  poll,       \* what the poll of a scenario is doing
  observed,   \* what a scenario was found to have
  expired,    \* scenarios whose deadline has passed
  waiting,    \* history: scenarios with a diagnosis when their poll began
  replays

agentVars == <<queue, incidents, replays>>

vars == <<phase, triggered, agentVars, poll, observed, expired, waiting>>

-----------------------------------------------------------------------------
Undiagnosed == [stage |-> "undiagnosed"]

Nothing == [found |-> FALSE]

Quiet == [at |-> "idle", rest |-> {}]

(* _latest_diagnosis skips what was received before the evaluation began.  *)
Counts_All(i) == TRUE

Counts(i) == ~incidents[i].early

(* _observe.                                                               *)
Observe(i) ==
  [found |-> TRUE, incident |-> i, diagnosis |-> incidents[i].diagnosis]

HasDiagnosis(i) == incidents[i].diagnosis # Undiagnosed

(* list_incidents: the newest of the scenario, up to the limit.            *)
Listing_AnyTask(s) == {i \in DOMAIN incidents : Len(incidents) - i < PageLimit}

Listing(s) ==
  LET mine == {i \in DOMAIN incidents : incidents[i].scenario = s}
  IN  {i \in mine : Cardinality({k \in mine : k > i}) < PageLimit}

(* ScenarioResult.                                                         *)
CategoryCorrect_Generous(s) ==
  IF s \in Failing THEN observed[s].found /\ observed[s].diagnosis.category
                   ELSE ~observed[s].found

CategoryCorrect(s) ==
  IF s \in Failing
    THEN observed[s].found /\ observed[s].diagnosis.conclusive
                           /\ observed[s].diagnosis.category
    ELSE ~observed[s].found

AttributionCorrect(s) ==
  observed[s].found /\ observed[s].diagnosis.conclusive /\ observed[s].diagnosis.task

Verdict(s) ==
  CASE s \in Controls                         -> IF CategoryCorrect(s) THEN "correct"
                                                                       ELSE "false positive"
    [] s \in Failing /\ ~observed[s].found    -> "no diagnosis"
    [] s \in Failing /\ observed[s].found     ->
         IF ~observed[s].diagnosis.conclusive THEN "inconclusive"
         ELSE IF CategoryCorrect(s) THEN "correct" ELSE "wrong"

Init ==
  /\ phase = "idle" /\ triggered = {}
  /\ queue = {[scenario |-> s, run |-> "older"] : s \in Older}
  /\ incidents = <<>>
  /\ poll = [s \in Scenarios |-> Quiet]
  /\ observed = [s \in Scenarios |-> Nothing]
  /\ expired = {} /\ waiting = {}
  /\ replays = 0

-----------------------------------------------------------------------------
(* Airflow, the worker, and whoever replays *)

(* A run of a triggered DAG fails, the control's too if something is wrong *)
(* with it.                                                                *)
TaskFails(s) ==
  /\ s \in triggered
  /\ [scenario |-> s, run |-> "this"] \notin queue
  /\ \A i \in DOMAIN incidents :
       incidents[i].scenario = s => incidents[i].run # "this"
  /\ queue' = queue \cup {[scenario |-> s, run |-> "this"]}
  /\ UNCHANGED <<phase, triggered, incidents, poll, observed, expired, waiting,
                 replays>>

(* received_at is when the worker opens the incident.                      *)
OpenIncident(failure) ==
  /\ failure \in queue
  /\ queue' = queue \ {failure}
  /\ incidents' = Append(incidents,
       [scenario |-> failure.scenario, run |-> failure.run,
        early |-> phase = "idle", diagnosis |-> Undiagnosed, past |-> {}])
  /\ UNCHANGED <<phase, triggered, poll, observed, expired, waiting, replays>>

(* diagnosis is the one with the highest attempt; past keeps them all, as  *)
(* the table does.                                                         *)
Store(i, diagnosis, latest) ==
  incidents' = [incidents EXCEPT ![i].diagnosis = latest,
                                 ![i].past = @ \cup {diagnosis}]

Diagnose(i) ==
  /\ ~HasDiagnosis(i)
  /\ \E diagnosis \in Diagnoses : Store(i, diagnosis, diagnosis)
  /\ UNCHANGED <<phase, triggered, queue, poll, observed, expired, waiting,
                 replays>>

(* Two attempts may have one number, and then either is the latest.        *)
Replay(i) ==
  /\ HasDiagnosis(i)
  /\ replays < MaxReplays
  /\ \E diagnosis \in Diagnoses :
       \E latest \in {diagnosis, incidents[i].diagnosis} :
         Store(i, diagnosis, latest)
  /\ replays' = replays + 1
  /\ UNCHANGED <<phase, triggered, queue, poll, observed, expired, waiting>>

-----------------------------------------------------------------------------
(* evaluate *)

Start ==
  /\ phase = "idle"
  /\ phase' = "triggering"
  /\ UNCHANGED <<triggered, agentVars, poll, observed, expired, waiting>>

(* One after the other, in an order that makes no difference.  Airflow     *)
(* that refuses, or whose answer is lost, ends the evaluation.             *)
Trigger(s) ==
  /\ phase = "triggering" /\ s \notin triggered
  /\ \/ triggered' = triggered \cup {s} /\ phase' \in {phase, "failed"}
     \/ UNCHANGED triggered /\ phase' = "failed"
  /\ UNCHANGED <<agentVars, poll, observed, expired, waiting>>

(* Every scenario is awaited at once.                                      *)
Await ==
  /\ phase = "triggering" /\ triggered = Scenarios
  /\ phase' = "awaiting"
  /\ poll' = [s \in Scenarios |-> [Quiet EXCEPT !.at = "list"]]
  /\ UNCHANGED <<triggered, agentVars, observed, expired, waiting>>

(* The deadline of a scenario, whatever its poll is doing.                 *)
Expire(s) ==
  /\ phase = "awaiting" /\ s \notin expired
  /\ expired' = expired \cup {s}
  /\ UNCHANGED <<phase, triggered, agentVars, poll, observed, waiting>>

Goes(s, place) == poll' = [poll EXCEPT ![s] = [Quiet EXCEPT !.at = place]]

(* After a poll that found nothing: sleep, or give up past the deadline.   *)
NextPoll(s) == Goes(s, IF s \in expired THEN "done" ELSE "sleep")

(* What is left to read is the listing without the incidents skipped.      *)
List(s) ==
  /\ poll[s].at = "list"
  /\ LET rest == {i \in Listing(s) : Counts(i)}
     IN  IF rest = {} THEN NextPoll(s)
         ELSE poll' = [poll EXCEPT ![s] = [at |-> "read", rest |-> rest]]
  /\ waiting' =
       IF \E i \in DOMAIN incidents : /\ incidents[i].scenario = s
                                      /\ ~incidents[i].early
                                      /\ HasDiagnosis(i)
         THEN waiting \cup {s} ELSE waiting \ {s}
  /\ UNCHANGED <<phase, triggered, agentVars, observed, expired>>

(* get_incident, newest first: the most recent diagnosis of it, if any.    *)
Read(s) ==
  /\ poll[s].at = "read"
  /\ \E i \in poll[s].rest :
       /\ \A k \in poll[s].rest : k <= i
       /\ IF HasDiagnosis(i)
            THEN /\ observed' = [observed EXCEPT ![s] = Observe(i)]
                 /\ Goes(s, "done")
            ELSE /\ IF poll[s].rest = {i} THEN NextPoll(s)
                    ELSE poll' = [poll EXCEPT ![s].rest = @ \ {i}]
                 /\ UNCHANGED observed
  /\ UNCHANGED <<phase, triggered, agentVars, expired, waiting>>

(* "A poll that fails is not a scenario that failed."                      *)
LosePoll_Retries(s) ==
  /\ poll[s].at \in {"list", "read"}
  /\ Goes(s, "sleep")
  /\ waiting' = waiting \ {s}
  /\ UNCHANGED <<phase, triggered, agentVars, observed, expired>>

LosePoll(s) ==
  /\ poll[s].at \in {"list", "read"}
  /\ NextPoll(s)
  /\ waiting' = waiting \ {s}
  /\ UNCHANGED <<phase, triggered, agentVars, observed, expired>>

Wake(s) ==
  /\ poll[s].at = "sleep"
  /\ Goes(s, "list")
  /\ UNCHANGED <<phase, triggered, agentVars, observed, expired, waiting>>

(* gather returns when every scenario has.                                 *)
Score ==
  /\ phase = "awaiting"
  /\ \A s \in Scenarios : poll[s].at = "done"
  /\ phase' = "scored"
  /\ UNCHANGED <<triggered, agentVars, poll, observed, expired, waiting>>

Next ==
  \/ \E s \in Scenarios : TaskFails(s)
  \/ \E failure \in queue : OpenIncident(failure)
  \/ \E i \in DOMAIN incidents : \/ Diagnose(i)
                                \/ Replay(i)
  \/ Start
  \/ Await
  \/ Score
  \/ \E s \in Scenarios : \/ Trigger(s)
                          \/ Expire(s)
                          \/ List(s)
                          \/ Read(s)
                          \/ LosePoll(s)
                          \/ Wake(s)

(* A request has a timeout, and time passes.  Nobody promises that a task  *)
(* fails, that a worker has time or that a request is answered.            *)
Fairness ==
  /\ WF_vars(Await) /\ WF_vars(Score)
  /\ \A s \in Scenarios : /\ WF_vars(Trigger(s)) /\ WF_vars(Expire(s))
                          /\ WF_vars(List(s) \/ Read(s) \/ LosePoll(s))
                          /\ WF_vars(Wake(s))

Spec == Init /\ [][Next]_vars /\ Fairness

-----------------------------------------------------------------------------
(* Properties *)

Places == {"idle", "list", "read", "sleep", "done"}

Incidents ==
  [scenario : Scenarios, run : {"older", "this"}, early : BOOLEAN,
   diagnosis : Diagnoses \cup {Undiagnosed}, past : SUBSET Diagnoses]

TypeOK ==
  /\ poll \in [Scenarios -> [at : Places, rest : SUBSET Nat]]
  /\ DOMAIN observed = Scenarios
  /\ phase \in {"idle", "triggering", "awaiting", "scored", "failed"}
  /\ triggered \subseteq Scenarios /\ expired \subseteq Scenarios
  /\ waiting \subseteq Scenarios
  /\ queue \subseteq [scenario : Scenarios, run : {"older", "this"}]
  /\ incidents \in Seq(Incidents)
  /\ \A s \in Scenarios :
       /\ poll[s].rest \subseteq DOMAIN incidents
       /\ poll[s].at = "read" <=> poll[s].rest # {}
       /\ observed[s] \in {Nothing} \cup
            [found : {TRUE}, incident : DOMAIN incidents, diagnosis : Diagnoses]
  /\ replays \in 0 .. MaxReplays

(* What a failing scenario is given marks for is a conclusive diagnosis    *)
(* that is stored, of an incident of its own task, received after the      *)
(* evaluation began: "an incident from an earlier evaluation run" would    *)
(* "score the previous run's agent".  The label says the same.             *)
CorrectIsEarned ==
  phase = "scored" => \A s \in Failing :
    /\ CategoryCorrect(s) =>
         \E i \in DOMAIN incidents :
            /\ incidents[i].scenario = s /\ ~incidents[i].early
            /\ \E said \in incidents[i].past : said.conclusive /\ said.category
    /\ s \in Attributed /\ AttributionCorrect(s) =>
         \E i \in DOMAIN incidents :
            /\ incidents[i].scenario = s /\ ~incidents[i].early
            /\ \E said \in incidents[i].past : said.conclusive /\ said.task
    /\ Verdict(s) = "correct" <=> CategoryCorrect(s)

(* A scenario is given up on only if its task had nothing diagnosed when   *)
(* its last answered poll began: waiting is not reported as being wrong.   *)
SilenceIsHonest ==
  \A s \in Scenarios :
     poll[s].at = "done" /\ ~observed[s].found => s \notin waiting

(* An evaluation comes to an end, whatever the agent and its API do.       *)
EvaluationEnds == phase = "triggering" ~> phase \in {"scored", "failed"}

=============================================================================
