--------------------------- MODULE FailureConsumer ---------------------------
(***************************************************************************)
(* The worker's consumption of the failure topic                           *)
(* (src/dag_doctor/messaging/consumer.py, dlq.py and worker/main.py):      *)
(* take a record, run the handler with bounded retries, park what cannot   *)
(* be handled on the dead-letter topic, and commit the offset by hand.     *)
(*                                                                         *)
(* Workers are the processes of one consumer group.  The group coordinator *)
(* and the two topics are outside the repository and appear here only as   *)
(* the code relies on them: an assignment starts at the committed offset,  *)
(* a commit by a worker that lost the partition is refused.                *)
(*                                                                         *)
(* An action is what happens between two awaits.  handled, parked and      *)
(* unparked are histories; the program keeps none of them.                 *)
(***************************************************************************)
EXTENDS Integers, Sequences

CONSTANTS
  Workers,        \* worker processes of the consumer group
  NoWorker,       \* owner of an unassigned partition
  Partitions,     \* partitions of the failure topic
  MaxRecords,     \* bound: records published on one partition
  MaxAttempts,    \* KafkaSettings.max_delivery_attempts
  ParkOutcomes,   \* what a dead-letter write may do
  MaxCrashes,     \* bound: worker processes that die
  MaxRevokes,     \* bound: partitions taken from a live worker
  MaxStops        \* bound: stop signals

ASSUME BoundsAreNaturals ==
  /\ MaxRecords \in Nat
  /\ MaxAttempts \in Nat \ {0}
  /\ MaxCrashes \in Nat /\ MaxRevokes \in Nat /\ MaxStops \in Nat

ASSUME NoWorkerIsNoWorker == NoWorker \notin Workers

(* A write that times out may have reached the topic all the same.         *)
ASSUME ParkOutcomesAreKnown ==
  ParkOutcomes \subseteq {"written", "refused", "unacknowledged"}

VARIABLES
  log,         \* the failure topic: payloads by partition, oldest first
  committed,   \* committed offset of the group, by partition
  owner,       \* worker a partition is assigned to
  position,    \* offset its owner reads next
  phase,       \* where in run() a worker is
  record,      \* record a worker took last
  attempt,     \* attempt of the current delivery
  stopping,    \* FailureConsumer._stopping
  taken,       \* history: records some worker took
  handled,     \* history: records whose handler returned
  parked,      \* history: records the dead-letter topic holds
  unparked,    \* history: records whose dead-letter write raised
  crashes, revokes, stops

groupVars   == <<committed, owner, position>>
workerVars  == <<phase, record, attempt, stopping>>
historyVars == <<taken, handled, parked, unparked>>
boundVars   == <<crashes, revokes, stops>>

vars == <<log, groupVars, workerVars, historyVars, boundVars>>

-----------------------------------------------------------------------------
(* A record is named by its partition and its offset.                      *)
Records  == Partitions \X Nat
Payloads == {"failure", "unparseable"}
Phases   == {"down", "idle", "handling", "parking", "committing"}

Busy(w) == phase[w] \in {"handling", "parking", "committing"}

Published(r) == r[2] < Len(log[r[1]])

Payload(r) == log[r[1]][r[2] + 1]

(* auto_offset_reset="earliest": with nothing committed, from the start.   *)
StartingOffset_Latest(p) ==
  IF committed[p] = 0 THEN Len(log[p]) ELSE committed[p]

StartingOffset_WhereLeft(p) == position[p]

StartingOffset(p) == committed[p]

(* Kafka commits the offset of the next record to read.                    *)
CommitOffset_OfRecord(r) == r[2]

CommitOffset(r) == r[2] + 1

(* Whether _park lets the offset move.                                     *)
MayCommit(outcome) == outcome = "written"

(* The last attempt of a delivery, after which a failure is parked.        *)
LastAttempt(w) == attempt[w] = MaxAttempts

Init ==
  /\ log = [p \in Partitions |-> <<>>]
  /\ committed = [p \in Partitions |-> 0]
  /\ owner = [p \in Partitions |-> NoWorker]
  /\ position = [p \in Partitions |-> 0]
  /\ phase = [w \in Workers |-> "down"]
  /\ record = [w \in Workers |-> <<>>]
  /\ attempt = [w \in Workers |-> 1]
  /\ stopping = [w \in Workers |-> FALSE]
  /\ taken = {} /\ handled = {} /\ parked = {} /\ unparked = {}
  /\ crashes = 0 /\ revokes = 0 /\ stops = 0

-----------------------------------------------------------------------------
(* The topic and the consumer group *)

(* Airflow's failure callback, or anything else that writes to the topic.  *)
Publish(p) ==
  /\ Len(log[p]) < MaxRecords
  /\ \E payload \in Payloads :
        log' = [log EXCEPT ![p] = Append(@, payload)]
  /\ UNCHANGED <<groupVars, workerVars, historyVars, boundVars>>

Assign(p) ==
  /\ owner[p] = NoWorker
  /\ \E w \in Workers :
        /\ phase[w] # "down"
        /\ owner' = [owner EXCEPT ![p] = w]
  /\ position' = [position EXCEPT ![p] = StartingOffset(p)]
  /\ UNCHANGED <<log, committed, workerVars, historyVars, boundVars>>

(* A rebalance: another worker joins, or this one has not polled for       *)
(* longer than the group allows.  Nothing tells the handler.               *)
Revoke(p) ==
  /\ owner[p] # NoWorker
  /\ revokes < MaxRevokes
  /\ owner' = [owner EXCEPT ![p] = NoWorker]
  /\ revokes' = revokes + 1
  /\ UNCHANGED <<log, committed, position, workerVars, historyVars, crashes,
                 stops>>

(* A worker leaves the group, on purpose or because its process is gone.   *)
Leave(w) ==
  owner' = [p \in Partitions |-> IF owner[p] = w THEN NoWorker ELSE owner[p]]

-----------------------------------------------------------------------------
(* The worker *)

Start(w) ==
  /\ phase[w] = "down"
  /\ phase' = [phase EXCEPT ![w] = "idle"]
  /\ stopping' = [stopping EXCEPT ![w] = FALSE]
  /\ UNCHANGED <<log, groupVars, record, attempt, historyVars, boundVars>>

(* run() takes the next record, whether or not it was asked to stop, and   *)
(* process() parses it; what cannot be parsed is parked at once.           *)
Fetch(w) ==
  /\ phase[w] = "idle"
  /\ \E p \in Partitions :
        LET r == <<p, position[p]>>
        IN  /\ owner[p] = w
            /\ Published(r)
            /\ position' = [position EXCEPT ![p] = @ + 1]
            /\ record' = [record EXCEPT ![w] = r]
            /\ taken' = taken \cup {r}
            /\ phase' = [phase EXCEPT ![w] =
                           IF Payload(r) = "failure" THEN "handling"
                                                     ELSE "parking"]
  /\ attempt' = [attempt EXCEPT ![w] = 1]
  /\ UNCHANGED <<log, committed, owner, stopping, handled, parked, unparked,
                 boundVars>>

HandlerReturns(w) ==
  /\ phase[w] = "handling"
  /\ handled' = handled \cup {record[w]}
  /\ phase' = [phase EXCEPT ![w] = "committing"]
  /\ UNCHANGED <<log, groupVars, record, attempt, stopping, taken, parked,
                 unparked, boundVars>>

(* InvalidFailureEventError: no retry would help.                          *)
HandlerRejects(w) ==
  /\ phase[w] = "handling"
  /\ phase' = [phase EXCEPT ![w] = "parking"]
  /\ UNCHANGED <<log, groupVars, record, attempt, stopping, historyVars,
                 boundVars>>

(* Any other exception: retried within the delivery, then parked.          *)
HandlerRaises(w) ==
  /\ phase[w] = "handling"
  /\ IF LastAttempt(w)
       THEN /\ phase' = [phase EXCEPT ![w] = "parking"]
            /\ UNCHANGED attempt
       ELSE /\ attempt' = [attempt EXCEPT ![w] = @ + 1]
            /\ UNCHANGED phase
  /\ UNCHANGED <<log, groupVars, record, stopping, historyVars, boundVars>>

(* The end of an iteration of run(): the loop goes on to the next record   *)
(* unless it was asked to stop, and stopping leaves the group.             *)
NextPhase_Ignores(w) == "idle"

NextPhase(w) == IF stopping[w] THEN "down" ELSE "idle"

EndIteration(w) ==
  /\ phase' = [phase EXCEPT ![w] = NextPhase(w)]
  /\ IF NextPhase(w) = "down" THEN Leave(w) ELSE UNCHANGED owner

(* _park: a write that raises leaves the offset alone, and the worker      *)
(* carries on with the record that follows.                                *)
Park(w) ==
  /\ phase[w] = "parking"
  /\ \E outcome \in ParkOutcomes :
        /\ parked' = IF outcome = "refused" THEN parked
                                            ELSE parked \cup {record[w]}
        /\ unparked' = IF outcome = "written" THEN unparked
                                              ELSE unparked \cup {record[w]}
        /\ IF MayCommit(outcome)
             THEN /\ phase' = [phase EXCEPT ![w] = "committing"]
                  /\ UNCHANGED owner
             ELSE EndIteration(w)
  /\ UNCHANGED <<log, committed, position, record, attempt, stopping, taken,
                 handled, boundVars>>

(* A refused commit is an exception nobody catches: the process ends.      *)
Commit(w) ==
  LET p == record[w][1]
  IN  /\ phase[w] = "committing"
      /\ IF owner[p] = w
           THEN /\ committed' = [committed EXCEPT ![p] = CommitOffset(record[w])]
                /\ EndIteration(w)
           ELSE /\ phase' = [phase EXCEPT ![w] = "down"]
                /\ Leave(w)
                /\ UNCHANGED committed
      /\ UNCHANGED <<log, position, record, attempt, stopping, historyVars,
                     boundVars>>

(* SIGTERM or SIGINT: _install_signal_handlers calls request_stop.         *)
RequestStop(w) ==
  /\ phase[w] # "down" /\ ~stopping[w]
  /\ stops < MaxStops
  /\ stopping' = [stopping EXCEPT ![w] = TRUE]
  /\ stops' = stops + 1
  /\ UNCHANGED <<log, groupVars, phase, record, attempt, historyVars, crashes,
                 revokes>>

Crash(w) ==
  /\ phase[w] # "down"
  /\ crashes < MaxCrashes
  /\ phase' = [phase EXCEPT ![w] = "down"]
  /\ Leave(w)
  /\ crashes' = crashes + 1
  /\ UNCHANGED <<log, committed, position, record, attempt, stopping,
                 historyVars, revokes, stops>>

Handle(w) == HandlerReturns(w) \/ HandlerRejects(w) \/ HandlerRaises(w)

Next ==
  \/ \E p \in Partitions : Publish(p) \/ Assign(p) \/ Revoke(p)
  \/ \E w \in Workers : \/ Start(w)
                        \/ Fetch(w)
                        \/ HandlerReturns(w)
                        \/ HandlerRejects(w)
                        \/ HandlerRaises(w)
                        \/ Park(w)
                        \/ Commit(w)
                        \/ RequestStop(w)
                        \/ Crash(w)

(* Restarted processes, an assigning coordinator, and a worker that does   *)
(* not stay forever in one await: handlers are under timeouts.             *)
Fairness ==
  /\ \A p \in Partitions : WF_vars(Assign(p))
  /\ \A w \in Workers : /\ WF_vars(Start(w))
                        /\ WF_vars(Fetch(w))
                        /\ WF_vars(Handle(w))
                        /\ WF_vars(Park(w))
                        /\ WF_vars(Commit(w))

Spec == Init /\ [][Next]_vars /\ Fairness

-----------------------------------------------------------------------------
(* Properties *)

TypeOK ==
  /\ log \in [Partitions -> Seq(Payloads)]
  /\ committed \in [Partitions -> Nat]
  /\ owner \in [Partitions -> Workers \cup {NoWorker}]
  /\ position \in [Partitions -> Nat]
  /\ phase \in [Workers -> Phases]
  /\ record \in [Workers -> Records \cup {<<>>}]
  /\ \A w \in Workers : Busy(w) => record[w] \in Records
  /\ attempt \in [Workers -> 1 .. MaxAttempts]
  /\ stopping \in [Workers -> BOOLEAN]
  /\ taken \subseteq Records /\ handled \subseteq Records
  /\ parked \subseteq Records /\ unparked \subseteq Records
  /\ crashes \in Nat /\ revokes \in Nat /\ stops \in Nat

Settled == handled \cup parked

(* "Committed manually, only after processing succeeded": an offset never  *)
(* moves past a record that no worker finished with, whatever crashes,     *)
(* rebalances and late commits come between.                               *)
NothingSkipped ==
  \A p \in Partitions : \A o \in 0 .. committed[p] - 1 :
     <<p, o>> \in Settled \cup unparked

(* The record an offset was committed for was handled, or is on the        *)
(* dead-letter topic: a failed write never moves the offset by itself.     *)
AcknowledgedIsSettled ==
  \A p \in Partitions :
     committed[p] > 0 => <<p, committed[p] - 1>> \in Settled

(* "A consumer benefits from seeing them in the order they happened": no   *)
(* worker holds a record while an earlier one of its partition still waits *)
(* for its first attempt.                                                  *)
InOrder ==
  \A w \in Workers :
     Busy(w) => \A o \in 0 .. record[w][2] - 1 :
                   <<record[w][1], o>> \in Settled \cup unparked

(* A deploy costs nothing: as long as no process dies, no partition is     *)
(* taken away and no dead-letter write fails, stopping and restarting      *)
(* workers never makes one take a record a second time.                    *)
StopsCauseNoRework ==
  [][\A w \in Workers :
       (phase[w] = "idle" /\ phase'[w] \in {"handling", "parking"}
          /\ record'[w] \in taken)
       => crashes > 0 \/ revokes > 0 \/ unparked # {}]_vars

(* "One poison message must not starve every later incident": every record *)
(* published is in the end handled or parked, or had its dead-letter write *)
(* raise, in which case NothingSkipped is all that holds of it.            *)
EveryRecordIsSettled ==
  \A r \in Partitions \X (0 .. MaxRecords - 1) :
     Published(r) ~> r \in Settled \cup unparked

(* A worker asked to stop while it holds a record finishes it and leaves.  *)
BusyWorkerStops ==
  \A w \in Workers : Busy(w) /\ stopping[w] ~> phase[w] = "down"

-----------------------------------------------------------------------------
(* What the repository says and the code does not do *)

(* consumer.py:283-285: committing a record the dead-letter topic refused  *)
(* would drop it, "which is the one outcome the event log exists to        *)
(* prevent"; it is "redelivered rather than dropped" (consumer.py:224).    *)
NothingDropped ==
  \A p \in Partitions : \A o \in 0 .. committed[p] - 1 : <<p, o>> \in Settled

=============================================================================
