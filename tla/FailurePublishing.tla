--------------------------- MODULE FailurePublishing ---------------------------
(***************************************************************************)
(* How a failed Airflow task becomes an incident, and a finished           *)
(* investigation an announcement: the failure callback                     *)
(* (src/dag_doctor/messaging/airflow_callback.py), the two publishers      *)
(* (producer.py), and what the messages between them identify (schemas.py  *)
(* and FailureEvent in core/models.py).                                    *)
(*                                                                         *)
(* Kafka is outside the repository and appears as the producers configure  *)
(* it: acks="all" answers once every replica has the record, idempotence   *)
(* recognises what the same producer sends again, and a new leader knows   *)
(* what was replicated and nothing else.  Airflow calls the callback of an *)
(* attempt before the next attempt starts.  One worker reads the topic,    *)
(* and an investigation is one step of it: FailureConsumer and             *)
(* Investigator are the detail.                                            *)
(***************************************************************************)
EXTENDS Integers, Sequences

CONSTANTS
  Tasks,         \* task instances: a DAG, a run, a task, a map index
  MaxTries,      \* bound: attempts of a task instance
  Foreign,       \* what other programs write on the failure topic
  MaxForeign,    \* bound: records other programs write
  MaxResends,    \* bound: requests a producer repeats
  MaxFailovers,  \* bound: partitions that change their leader
  MaxCrashes     \* bound: processes that die

ASSUME BoundsAreNaturals ==
  /\ MaxTries \in Nat \ {0} /\ MaxForeign \in Nat
  /\ MaxResends \in Nat /\ MaxFailovers \in Nat /\ MaxCrashes \in Nat

(* Not an event at all, or one of a schema this code does not know.        *)
ASSUME ForeignIsKnown == Foreign \subseteq {"malformed", "future"}

VARIABLES
  callback,     \* the failure callback of every attempt
  log,          \* both topics: records by partition key, oldest first
  replicated,   \* how much of each every replica has
  inflight,     \* requests on their way to a broker
  consumed,     \* offset the worker committed
  worker,       \* what the worker is doing, and for which record
  session,      \* worker processes started so far
  incidents,    \* incidents with a stored diagnosis
  received,     \* history: events the worker handled
  parked,       \* records on the dead-letter topic
  answered,     \* announcements DiagnosisPublisher.publish returned True for
  foreign, resends, failovers, crashes

brokerVars == <<log, replicated, inflight>>
workerVars == <<consumed, worker, session, incidents, received, parked, answered>>
boundVars  == <<foreign, resends, failovers, crashes>>

vars == <<callback, brokerVars, workerVars, boundVars>>

-----------------------------------------------------------------------------
(* What is sent *)

Failures == Tasks \X (1 .. MaxTries)

(* What FailureEvent and the wire accept as try_number.                    *)
TryNumbers == Nat \ {0}

(* TaskFailureMessage.from_event, and who sent it: every callback has a    *)
(* producer of its own.                                                    *)
FailureMessage(f, n) ==
  [topic |-> "failures", task |-> f[1], try |-> n, sender |-> <<"callback", f[2]>>]

ForeignMessage(t, form) ==
  [topic |-> "failures", task |-> t, try |-> 1, sender |-> <<form, 0>>]

(* DiagnosisCompletedMessage.from_diagnosis, by one producer per worker.   *)
Announcement(i, s) ==
  [topic |-> "diagnoses", task |-> i[1], try |-> i[2], sender |-> <<"worker", s>>]

Messages ==
  {FailureMessage(f, n) : f \in Failures, n \in 1 .. MaxTries}
    \cup {ForeignMessage(t, form) : t \in Tasks, form \in Foreign}
    \cup {Announcement(i, s) : i \in Failures, s \in 1 .. MaxCrashes + 1}

(* partition_key: the retries of a task share one, and so do the attempts  *)
(* at one incident.                                                        *)
PartitionKey_PerTry(m) == <<m.topic, m.task, m.try>>

PartitionKey(m) ==
  IF m.topic = "failures" THEN <<m.topic, m.task, 0>>
                          ELSE <<m.topic, m.task, m.try>>

Keys == {PartitionKey(m) : m \in Messages}

FailureKeys == {k \in Keys : k[1] = "failures"}

(* idempotency_key, which uq_incidents_identity holds unique.              *)
IdempotencyKey(m) == <<m.task, m.try>>

(* from_bytes: an event of a schema version this code does not know is     *)
(* refused like one that is malformed.                                     *)
Readable(m) == m.sender[1] \notin {"malformed", "future"}

(* What Airflow's try_number may be when the callback reads it: the        *)
(* attempt, a number of another convention, or nothing.                    *)
Readings(f) == {f[2], 0, -1}

Unreadable == -1

(* build_failure_event                                                     *)
TryNumber(reading) == IF reading >= 1 THEN reading ELSE 1

-----------------------------------------------------------------------------
(* The topics *)

On(m) == \E n \in DOMAIN log[PartitionKey(m)] : log[PartitionKey(m)][n] = m

Durable(m) ==
  \E n \in 1 .. replicated[PartitionKey(m)] : log[PartitionKey(m)][n] = m

(* acks="all".                                                             *)
Acknowledged_ByLeader(m) == On(m)

Acknowledged(m) == Durable(m)

(* enable_idempotence=True.                                                *)
Written(m) ==
  IF On(m) THEN log[PartitionKey(m)] ELSE Append(log[PartitionKey(m)], m)

(* A request that never arrives is lost, and one that does may be late.    *)
Arrive(m) ==
  /\ m \in inflight
  /\ log' = [log EXCEPT ![PartitionKey(m)] = Written(m)]
  /\ inflight' = inflight \ {m}
  /\ UNCHANGED <<callback, replicated, workerVars, boundVars>>

Replicate(k) ==
  /\ replicated[k] < Len(log[k])
  /\ replicated' = [replicated EXCEPT ![k] = @ + 1]
  /\ UNCHANGED <<callback, log, inflight, workerVars, boundVars>>

(* The leader of a partition is lost, and with it what only it had.        *)
Failover(k) ==
  /\ failovers < MaxFailovers
  /\ log' = [log EXCEPT ![k] = SubSeq(@, 1, replicated[k])]
  /\ failovers' = failovers + 1
  /\ UNCHANGED <<callback, replicated, inflight, workerVars, foreign, resends,
                 crashes>>

WriteForeign(t, form) ==
  /\ foreign < MaxForeign
  /\ inflight' = inflight \cup {ForeignMessage(t, form)}
  /\ foreign' = foreign + 1
  /\ UNCHANGED <<callback, log, replicated, workerVars, resends, failovers,
                 crashes>>

-----------------------------------------------------------------------------
(* The failure callback *)

(* A callback ends by returning, by an exception it does not catch, or with *)
(* its process; acked tells whether publish returned.                      *)
Places == {"none", "starting", "sending", "stopping", "ended"}

Message(f) == FailureMessage(f, callback[f].try)

MovesTo(f, place) == callback' = [callback EXCEPT ![f].at = place]

(* on_task_failure: nothing is sent for a context that names no task       *)
(* instance, from inside a running event loop, or with settings that do    *)
(* not validate.                                                           *)
Fail(f) ==
  /\ callback[f].at = "none"
  /\ f[2] > 1 => callback[<<f[1], f[2] - 1>>].at = "ended"
  /\ \/ \E reading \in Readings(f) :
           callback' = [callback EXCEPT ![f] =
                          [at |-> "starting", try |-> TryNumber(reading),
                           acked |-> FALSE]]
     \/ MovesTo(f, "ended")
  /\ UNCHANGED <<brokerVars, workerVars, boundVars>>

(* FailurePublisher.start, and the first request of send_and_wait.  Where  *)
(* start raises there is nothing to stop.                                  *)
Connect(f) ==
  /\ callback[f].at = "starting"
  /\ \/ /\ MovesTo(f, "sending")
        /\ inflight' = inflight \cup {Message(f)}
     \/ /\ MovesTo(f, "ended")
        /\ UNCHANGED inflight
  /\ UNCHANGED <<log, replicated, workerVars, boundVars>>

SendReturns(f) ==
  /\ callback[f].at = "sending"
  /\ Acknowledged(Message(f))
  /\ callback' = [callback EXCEPT ![f].at = "stopping", ![f].acked = TRUE]
  /\ UNCHANGED <<brokerVars, workerVars, boundVars>>

(* The client gives up in its own time, whatever becomes of the request.   *)
SendRaises(f) ==
  /\ callback[f].at = "sending"
  /\ MovesTo(f, "stopping")
  /\ UNCHANGED <<brokerVars, workerVars, boundVars>>

(* __aexit__ runs stop, which may itself raise, whatever became of publish. *)
Disconnect(f) ==
  /\ callback[f].at = "stopping"
  /\ MovesTo(f, "ended")
  /\ UNCHANGED <<brokerVars, workerVars, boundVars>>

Kill(f) ==
  /\ callback[f].at \in {"starting", "sending", "stopping"}
  /\ crashes < MaxCrashes
  /\ MovesTo(f, "ended")
  /\ crashes' = crashes + 1
  /\ UNCHANGED <<brokerVars, workerVars, foreign, resends, failovers>>

-----------------------------------------------------------------------------
(* The worker *)

Idle(place) == worker' = [at |-> place, key |-> <<>>, message |-> <<>>]

Answer(a) == worker.at = "announcing" /\ worker.message = a

(* Investigator.__aenter__ starts the publisher before the consumer.       *)
StartWorker ==
  /\ worker.at = "down"
  /\ Idle("reading")
  /\ session' = session + 1
  /\ UNCHANGED <<callback, brokerVars, consumed, incidents, received, parked,
                 answered, boundVars>>

(* A redelivery of what was investigated changes nothing, and is not       *)
(* announced.                                                              *)
IsNew_Always(m) == TRUE

IsNew(m) == IdempotencyKey(m) \notin incidents

Advance(k) == consumed' = [consumed EXCEPT ![k] = @ + 1]

Consume(k) ==
  LET m == log[k][consumed[k] + 1]
      a == Announcement(IdempotencyKey(m), session)
  IN  /\ worker.at = "reading"
      /\ consumed[k] < replicated[k]
      /\ \/ /\ ~Readable(m)
            /\ parked' = parked \cup {m}
            /\ Advance(k)
            /\ UNCHANGED <<incidents, received, worker, inflight>>
         \/ /\ Readable(m) /\ IsNew(m)
            /\ incidents' = incidents \cup {IdempotencyKey(m)}
            /\ received' = received \cup {m}
            /\ worker' = [at |-> "announcing", key |-> k, message |-> a]
            /\ inflight' = inflight \cup {a}
            /\ UNCHANGED <<consumed, parked>>
         \/ /\ Readable(m) /\ ~IsNew(m)
            /\ received' = received \cup {m}
            /\ Advance(k)
            /\ UNCHANGED <<incidents, parked, worker, inflight>>
      /\ UNCHANGED <<callback, log, replicated, session, answered, boundVars>>

(* DiagnosisPublisher.publish: whatever it returns, the record is          *)
(* committed.                                                              *)
EndAnnouncement ==
  /\ worker.at = "announcing"
  /\ \/ Acknowledged(worker.message) /\ answered' = answered \cup {worker.message}
     \/ UNCHANGED answered
  /\ Advance(worker.key)
  /\ Idle("reading")
  /\ UNCHANGED <<callback, brokerVars, session, incidents, received, parked,
                 boundVars>>

CrashWorker ==
  /\ worker.at # "down"
  /\ crashes < MaxCrashes
  /\ Idle("down")
  /\ crashes' = crashes + 1
  /\ UNCHANGED <<callback, brokerVars, consumed, session, incidents, received,
                 parked, answered, foreign, resends, failovers>>

(* A producer repeats a request it has no answer to.                       *)
Resend(m) ==
  /\ \/ \E f \in Failures : callback[f].at = "sending" /\ Message(f) = m
     \/ Answer(m)
  /\ m \notin inflight
  /\ resends < MaxResends
  /\ inflight' = inflight \cup {m}
  /\ resends' = resends + 1
  /\ UNCHANGED <<callback, log, replicated, workerVars, foreign, failovers,
                 crashes>>

-----------------------------------------------------------------------------
Init ==
  /\ callback = [f \in Failures |-> [at |-> "none", try |-> 1, acked |-> FALSE]]
  /\ log = [k \in Keys |-> <<>>]
  /\ replicated = [k \in Keys |-> 0]
  /\ inflight = {}
  /\ consumed = [k \in Keys |-> 0]
  /\ worker = [at |-> "down", key |-> <<>>, message |-> <<>>]
  /\ session = 0
  /\ incidents = {} /\ received = {} /\ parked = {} /\ answered = {}
  /\ foreign = 0 /\ resends = 0 /\ failovers = 0 /\ crashes = 0

Next ==
  \/ \E m \in Messages : Arrive(m) \/ Resend(m)
  \/ \E k \in Keys : Replicate(k) \/ Failover(k)
  \/ \E k \in FailureKeys : Consume(k)
  \/ \E t \in Tasks, form \in Foreign : WriteForeign(t, form)
  \/ \E f \in Failures : \/ Fail(f)
                         \/ Connect(f)
                         \/ SendReturns(f)
                         \/ SendRaises(f)
                         \/ Disconnect(f)
                         \/ Kill(f)
  \/ StartWorker
  \/ EndAnnouncement
  \/ CrashWorker

(* Kafka replicates what a leader has, and the worker is restarted and does *)
(* not wait for ever in one call.                                          *)
Fairness ==
  /\ \A k \in FailureKeys : WF_vars(Replicate(k)) /\ WF_vars(Consume(k))
  /\ WF_vars(StartWorker) /\ WF_vars(EndAnnouncement)

Spec == Init /\ [][Next]_vars /\ Fairness

-----------------------------------------------------------------------------
(* Properties *)

Workers == {"down", "reading", "announcing"}

(* A failure's try_number, as Airflow counts and as the event says, is     *)
(* never less than one; the topics hold only what somebody sends.          *)
TypeOK ==
  /\ callback \in [Failures -> [at : Places, try : TryNumbers, acked : BOOLEAN]]
  /\ log \in [Keys -> Seq(Messages)]
  /\ replicated \in [Keys -> Nat] /\ consumed \in [Keys -> Nat]
  /\ \A k \in Keys : consumed[k] <= replicated[k] /\ replicated[k] <= Len(log[k])
  /\ inflight \subseteq Messages
  /\ worker.at \in Workers
  /\ worker.at = "announcing" => worker.key \in Keys /\ worker.message \in Messages
  /\ session \in Nat
  /\ incidents \subseteq Tasks \X TryNumbers
  /\ received \subseteq Messages /\ parked \subseteq Messages
  /\ answered \subseteq Messages

(* "A failure event that the broker never durably accepted is an incident  *)
(* nobody will ever investigate": what a publisher says it published is    *)
(* on its topic for good, whichever leader is lost afterwards.             *)
PublishedStays ==
  /\ \A f \in Failures : callback[f].acked => Durable(Message(f))
  /\ \A a \in answered : Durable(a)

(* Requests that are repeated, answers that are lost and workers that die  *)
(* between storing a diagnosis and committing its record: a failure is on  *)
(* its topic once, and its incident is announced once.                     *)
WrittenOnce ==
  \A k \in Keys : \A n, o \in DOMAIN log[k] :
     (n # o /\ Readable(log[k][n]) /\ Readable(log[k][o]))
        => \/ log[k][n].topic = "failures" /\ log[k][n].sender # log[k][o].sender
           \/ IdempotencyKey(log[k][n]) # IdempotencyKey(log[k][o])

(* "A consumer benefits from seeing them in the order they happened": the  *)
(* worker hears of an attempt that was published before it hears of one    *)
(* that came later.                                                        *)
RetriesInOrder ==
  \A f, g \in Failures :
     (f[1] = g[1] /\ f[2] < g[2] /\ callback[f].acked /\ Message(g) \in received)
        => Message(f) \in received

(* What was published is investigated in the end.                          *)
PublishedIsInvestigated ==
  \A f \in Failures :
     callback[f].acked ~> IdempotencyKey(Message(f)) \in incidents

=============================================================================
