------------------------ MODULE FailurePublishing_proofs ------------------------
(***************************************************************************)
(* What is proved of FailurePublishing for every number of tasks, attempts *)
(* and faults: its types, that what a publisher says it published is on    *)
(* its topic for good, that nothing is written twice, and that attempts    *)
(* of a task are handled in their order.                                   *)
(***************************************************************************)
EXTENDS FailurePublishing, TLAPS

(* A number an event may carry, and where a publish that returned can be.  *)
CallbacksOK ==
  \A f \in Failures :
     /\ callback[f].try \in 1 .. MaxTries
     /\ callback[f].acked => callback[f].at \in {"stopping", "ended"}

(* A worker process is counted, and follows one that died; the record it   *)
(* announces the end of is the next one it will commit.                    *)
WorkerOK ==
  /\ crashes \in 0 .. MaxCrashes
  /\ worker.at = "down" => session <= crashes
  /\ worker.at # "down" => session \in 1 .. crashes + 1
  /\ worker.at = "announcing" => consumed[worker.key] < replicated[worker.key]

IInv == TypeOK /\ CallbacksOK /\ WorkerOK /\ PublishedStays

(* What every replica has stays where it is.                               *)
PrefixStays ==
  \A k \in Keys :
     /\ replicated[k] <= replicated'[k]
     /\ \A n \in 1 .. replicated[k] : log'[k][n] = log[k][n]

LEMMA RangesGrow ==
  ASSUME NEW a \in Nat, NEW b \in Nat, a <= b, NEW s \in 1 .. a + 1
  PROVE  s \in 1 .. b + 1
OBVIOUS

LEMMA MessageType ==
  ASSUME NEW m \in Messages
  PROVE  /\ m.task \in Tasks /\ m.try \in 1 .. MaxTries
         /\ PartitionKey(m) \in Keys
         /\ IdempotencyKey(m) \in Failures
<1>1. PartitionKey(m) \in Keys BY DEF Keys
<1>2. m.task \in Tasks /\ m.try \in 1 .. MaxTries
  BY BoundsAreNaturals DEF Messages, FailureMessage, ForeignMessage,
     Announcement, Failures
<1> QED BY <1>1, <1>2 DEF IdempotencyKey, Failures

LEMMA MessageOfCallback ==
  ASSUME NEW f \in Failures, callback[f].try \in 1 .. MaxTries
  PROVE  Message(f) \in Messages
BY DEF Message, Messages

LEMMA AnnouncementType ==
  ASSUME NEW i \in Failures, NEW s \in 1 .. MaxCrashes + 1
  PROVE  Announcement(i, s) \in Messages
BY DEF Messages

LEMMA NumbersAreAccepted ==
  ASSUME NEW f \in Failures, NEW r \in Readings(f)
  PROVE  TryNumber(r) \in 1 .. MaxTries
<1>1. f[2] \in 1 .. MaxTries BY DEF Failures
<1> QED BY <1>1, BoundsAreNaturals DEF Readings, TryNumber

LEMMA DurableStays ==
  ASSUME TypeOK, PrefixStays, replicated' \in [Keys -> Nat],
         NEW m \in Messages, Durable(m)
  PROVE  Durable(m)'
<1> DEFINE k == PartitionKey(m)
<1>1. k \in Keys BY MessageType
<1>2. PICK n \in 1 .. replicated[k] : log[k][n] = m BY DEF Durable
<1>3. replicated[k] \in Nat /\ replicated'[k] \in Nat BY <1>1 DEF TypeOK
<1> HIDE DEF k
<1>4. n \in 1 .. replicated'[k] BY <1>1, <1>2, <1>3 DEF PrefixStays
<1>5. log'[k][n] = m BY <1>1, <1>2 DEF PrefixStays
<1> QED BY <1>4, <1>5 DEF Durable, k

(* The steps that leave the callbacks and the answers alone.               *)
LEMMA OthersKeepPublished ==
  ASSUME IInv, PrefixStays, replicated' \in [Keys -> Nat],
         UNCHANGED <<callback, answered>>
  PROVE  PublishedStays'
<1>1. ASSUME NEW f \in Failures, callback'[f].acked PROVE Durable(Message(f))'
  <2>1. Message(f) \in Messages BY MessageOfCallback DEF IInv, CallbacksOK
  <2>2. Durable(Message(f)) BY <1>1 DEF IInv, PublishedStays
  <2>3. Message(f)' = Message(f) BY DEF Message
  <2>4. \A m \in Messages : Durable(m) => Durable(m)'
    BY DurableStays DEF IInv
  <2> QED BY <2>1, <2>2, <2>3, <2>4 DEF Durable
<1>2. ASSUME NEW a \in answered' PROVE Durable(a)'
  <2>1. a \in Messages /\ Durable(a) BY <1>2 DEF IInv, TypeOK, PublishedStays
  <2> QED BY <2>1, DurableStays DEF IInv
<1> QED BY <1>1, <1>2 DEF PublishedStays

LEMMA NoBrokerStep ==
  ASSUME TypeOK, UNCHANGED <<log, replicated>>
  PROVE  PrefixStays /\ replicated' \in [Keys -> Nat]
BY DEF TypeOK, PrefixStays

(* A step of one callback: it moves, and may have been answered.           *)
LEMMA CallbackStep ==
  ASSUME IInv, NEW f \in Failures, NEW c,
         c \in [at : Places, try : 1 .. MaxTries, acked : BOOLEAN],
         callback' = [callback EXCEPT ![f] = c],
         c.acked => /\ c.at \in {"stopping", "ended"}
                    /\ c.try = callback[f].try
                    /\ callback[f].acked \/ Durable(Message(f)),
         UNCHANGED <<log, replicated, answered>>
  PROVE  /\ callback' \in [Failures -> [at : Places, try : TryNumbers, acked : BOOLEAN]]
         /\ CallbacksOK' /\ PublishedStays'
<1>1. callback \in [Failures -> [at : Places, try : TryNumbers, acked : BOOLEAN]]
  BY DEF IInv, TypeOK
<1>2. callback' \in [Failures -> [at : Places, try : TryNumbers, acked : BOOLEAN]]
  BY <1>1, BoundsAreNaturals DEF TryNumbers
<1>3. CallbacksOK'
  BY <1>1 DEF IInv, CallbacksOK
<1>4. ASSUME NEW g \in Failures, callback'[g].acked PROVE Durable(Message(g))'
  <2>1. callback'[g].try = callback[g].try BY <1>1, <1>4
  <2>2. Message(g)' = Message(g) BY <2>1 DEF Message
  <2>3. Durable(Message(g)) BY <1>1, <1>4 DEF IInv, PublishedStays
  <2> QED BY <2>2, <2>3 DEF Durable
<1>5. ASSUME NEW a \in answered' PROVE Durable(a)'
  BY <1>5 DEF IInv, PublishedStays, Durable
<1> QED BY <1>2, <1>3, <1>4, <1>5 DEF PublishedStays

LEMMA InitIInv == Init => IInv
<1> SUFFICES ASSUME Init PROVE IInv OBVIOUS
<1> USE DEF Init
<1>1. 1 \in 1 .. MaxTries BY BoundsAreNaturals
<1>2. callback \in [Failures -> [at : Places, try : TryNumbers, acked : BOOLEAN]]
  BY DEF Places, TryNumbers
<1>3. TypeOK
  <2>1. log \in [Keys -> Seq(Messages)] /\ \A k \in Keys : log[k] = <<>> OBVIOUS
  <2> QED BY <1>2, <2>1 DEF TypeOK, Workers
<1>4. CallbacksOK BY <1>1 DEF CallbacksOK
<1>5. WorkerOK BY BoundsAreNaturals DEF WorkerOK
<1>6. PublishedStays BY DEF PublishedStays
<1> QED BY <1>3, <1>4, <1>5, <1>6 DEF IInv

-----------------------------------------------------------------------------
(* The brokers *)

LEMMA ArriveIInv == ASSUME IInv, NEW m \in Messages, Arrive(m) PROVE IInv'
<1> DEFINE k == PartitionKey(m)
<1>1. k \in Keys /\ log[k] \in Seq(Messages) /\ log \in [Keys -> Seq(Messages)]
  BY MessageType DEF IInv, TypeOK
<1>2. Written(m) \in Seq(Messages) /\ Len(Written(m)) >= Len(log[k])
      /\ \A n \in 1 .. Len(log[k]) : Written(m)[n] = log[k][n]
  BY <1>1 DEF Written
<1>3. log' = [log EXCEPT ![k] = Written(m)] BY DEF Arrive
<1> HIDE DEF k
<1>4. log' \in [Keys -> Seq(Messages)] BY <1>1, <1>2, <1>3
<1>5. \A j \in Keys : /\ Len(log'[j]) >= Len(log[j])
                      /\ \A n \in 1 .. Len(log[j]) : log'[j][n] = log[j][n]
  BY <1>1, <1>2, <1>3
<1>6. \A j \in Keys : /\ replicated[j] \in Nat /\ Len(log[j]) \in Nat
                      /\ Len(log'[j]) \in Nat /\ consumed[j] \in Nat
                      /\ consumed[j] <= replicated[j]
                      /\ replicated[j] <= Len(log[j])
  BY <1>4 DEF IInv, TypeOK
<1>7. PrefixStays BY <1>5, <1>6 DEF PrefixStays, Arrive
<1>8. \A j \in Keys : replicated[j] <= Len(log'[j]) BY <1>5, <1>6
<1>9. TypeOK' BY <1>4, <1>6, <1>8 DEF IInv, TypeOK, Arrive, workerVars
<1>10. CallbacksOK' /\ WorkerOK'
  BY DEF IInv, CallbacksOK, WorkerOK, Arrive, workerVars, boundVars
<1>11. PublishedStays'
  BY <1>7, <1>9, OthersKeepPublished DEF Arrive, workerVars, TypeOK
<1> QED BY <1>9, <1>10, <1>11 DEF IInv

LEMMA ReplicateIInv == ASSUME IInv, NEW k \in Keys, Replicate(k) PROVE IInv'
<1>1. \A j \in Keys : /\ replicated[j] \in Nat /\ Len(log[j]) \in Nat
                      /\ consumed[j] \in Nat /\ consumed[j] <= replicated[j]
                      /\ replicated[j] <= Len(log[j])
  BY DEF IInv, TypeOK
<1>2. replicated' \in [Keys -> Nat] BY <1>1 DEF IInv, TypeOK, Replicate
<1>3. \A j \in Keys : /\ replicated[j] <= replicated'[j]
                      /\ consumed[j] <= replicated'[j]
                      /\ replicated'[j] <= Len(log[j])
  BY <1>1 DEF IInv, TypeOK, Replicate
<1>4. PrefixStays BY <1>3 DEF PrefixStays, Replicate
<1>5. TypeOK' BY <1>2, <1>3 DEF IInv, TypeOK, Replicate, workerVars
<1>6. CallbacksOK' BY DEF IInv, CallbacksOK, Replicate
<1>7. WorkerOK'
  <2>1. worker.at = "announcing" => consumed[worker.key] < replicated'[worker.key]
    BY <1>1, <1>2, <1>3 DEF IInv, TypeOK, WorkerOK
  <2> QED BY <2>1 DEF IInv, WorkerOK, Replicate, workerVars, boundVars
<1>8. PublishedStays'
  BY <1>2, <1>4, OthersKeepPublished DEF Replicate, workerVars
<1> QED BY <1>5, <1>6, <1>7, <1>8 DEF IInv

LEMMA FailoverIInv == ASSUME IInv, NEW k \in Keys, Failover(k) PROVE IInv'
<1> DEFINE kept == SubSeq(log[k], 1, replicated[k])
<1>1. log \in [Keys -> Seq(Messages)] /\ log[k] \in Seq(Messages)
      /\ replicated[k] \in Nat /\ replicated[k] <= Len(log[k])
  BY DEF IInv, TypeOK
<1>2. /\ kept \in Seq(Messages) /\ Len(kept) = replicated[k]
      /\ \A n \in 1 .. replicated[k] : kept[n] = log[k][n]
  BY <1>1
<1>3. log' = [log EXCEPT ![k] = kept] /\ replicated' = replicated
  BY DEF Failover
<1> HIDE DEF kept
<1>4. log' \in [Keys -> Seq(Messages)] BY <1>1, <1>2, <1>3
<1>5. \A j \in Keys : /\ replicated[j] <= Len(log'[j])
                      /\ \A n \in 1 .. replicated[j] : log'[j][n] = log[j][n]
  BY <1>1, <1>2, <1>3 DEF IInv, TypeOK
<1>6. PrefixStays BY <1>3, <1>5 DEF PrefixStays, IInv, TypeOK
<1>7. TypeOK' BY <1>3, <1>4, <1>5 DEF IInv, TypeOK, Failover, workerVars
<1>8. CallbacksOK' /\ WorkerOK'
  BY DEF IInv, CallbacksOK, WorkerOK, Failover, workerVars
<1>9. PublishedStays'
  BY <1>6, <1>7, OthersKeepPublished DEF Failover, workerVars, TypeOK
<1> QED BY <1>7, <1>8, <1>9 DEF IInv

(* A request is put on its way.                                            *)
LEMMA RequestIInv ==
  ASSUME IInv, NEW m \in Messages, inflight' = inflight \cup {m},
         UNCHANGED <<callback, log, replicated, workerVars, crashes>>
  PROVE  IInv'
<1>1. TypeOK' BY DEF IInv, TypeOK, workerVars
<1>2. CallbacksOK' /\ WorkerOK'
  BY DEF IInv, CallbacksOK, WorkerOK, workerVars
<1>3. PublishedStays'
  BY NoBrokerStep, OthersKeepPublished DEF IInv, workerVars
<1> QED BY <1>1, <1>2, <1>3 DEF IInv

LEMMA ForeignIInv ==
  ASSUME IInv, NEW t \in Tasks, NEW form \in Foreign, WriteForeign(t, form)
  PROVE  IInv'
<1>1. ForeignMessage(t, form) \in Messages BY DEF Messages
<1> QED BY <1>1, RequestIInv DEF WriteForeign

LEMMA ResendIInv == ASSUME IInv, NEW m \in Messages, Resend(m) PROVE IInv'
BY RequestIInv DEF Resend

-----------------------------------------------------------------------------
(* The callbacks *)

(* What is left of IInv when a step of a callback is done.                 *)
LEMMA CallbackIInv ==
  ASSUME IInv, NEW f \in Failures, NEW c,
         c \in [at : Places, try : 1 .. MaxTries, acked : BOOLEAN],
         callback' = [callback EXCEPT ![f] = c],
         c.acked => /\ c.at \in {"stopping", "ended"}
                    /\ c.try = callback[f].try
                    /\ callback[f].acked \/ Durable(Message(f)),
         inflight' \subseteq Messages, crashes' \in crashes .. MaxCrashes,
         UNCHANGED <<log, replicated, workerVars>>
  PROVE  IInv'
<1>1. callback' \in [Failures -> [at : Places, try : TryNumbers, acked : BOOLEAN]]
      /\ CallbacksOK' /\ PublishedStays'
  BY CallbackStep DEF workerVars
<1>2. TypeOK' BY <1>1 DEF IInv, TypeOK, workerVars
<1>3. WorkerOK'
  <2>1. crashes \in Nat /\ crashes' \in Nat /\ crashes <= crashes'
        /\ crashes' <= MaxCrashes /\ MaxCrashes \in Nat /\ session \in Nat
    BY BoundsAreNaturals DEF IInv, WorkerOK, TypeOK
  <2>2. crashes' \in 0 .. MaxCrashes BY <2>1
  <2>3. worker.at = "down" => session <= crashes'
    BY <2>1 DEF IInv, WorkerOK
  <2>4. worker.at # "down" => session \in 1 .. crashes' + 1
    <3>1. worker.at # "down" => session \in 1 .. crashes + 1
      BY DEF IInv, WorkerOK
    <3> QED BY <2>1, <3>1, RangesGrow
  <2> QED BY <2>2, <2>3, <2>4 DEF IInv, WorkerOK, workerVars
<1> QED BY <1>1, <1>2, <1>3 DEF IInv

LEMMA CallbackType ==
  ASSUME IInv, NEW f \in Failures
  PROVE  /\ callback[f] \in [at : Places, try : 1 .. MaxTries, acked : BOOLEAN]
         /\ inflight \subseteq Messages /\ Message(f) \in Messages
         /\ crashes \in crashes .. MaxCrashes
<1>1. callback[f] \in [at : Places, try : TryNumbers, acked : BOOLEAN]
      /\ callback[f].try \in 1 .. MaxTries
  BY DEF IInv, TypeOK, CallbacksOK
<1>2. crashes \in crashes .. MaxCrashes
  BY BoundsAreNaturals DEF IInv, WorkerOK
<1> QED BY <1>1, <1>2, MessageOfCallback DEF IInv, TypeOK

(* A callback that moves on without an answer of the broker.               *)
LEMMA MoveIInv ==
  ASSUME IInv, NEW f \in Failures,
         NEW place \in Places, MovesTo(f, place),
         callback[f].acked => place \in {"stopping", "ended"},
         inflight' \subseteq Messages, crashes' \in crashes .. MaxCrashes,
         UNCHANGED <<log, replicated, workerVars>>
  PROVE  IInv'
<1> DEFINE c == [callback[f] EXCEPT !.at = place]
<1>1. callback[f] \in [at : Places, try : 1 .. MaxTries, acked : BOOLEAN]
  BY CallbackType
<1>2. c \in [at : Places, try : 1 .. MaxTries, acked : BOOLEAN]
      /\ c.at = place /\ c.try = callback[f].try /\ c.acked = callback[f].acked
  BY <1>1
<1>3. callback' = [callback EXCEPT ![f] = c] BY DEF MovesTo
<1> HIDE DEF c
<1> QED BY <1>2, <1>3, CallbackIInv

LEMMA FailIInv == ASSUME IInv, NEW f \in Failures, Fail(f) PROVE IInv'
<1>1. inflight' \subseteq Messages /\ crashes' \in crashes .. MaxCrashes
      /\ UNCHANGED <<log, replicated, workerVars>>
  BY CallbackType DEF Fail, brokerVars, boundVars
<1>2. CASE MovesTo(f, "ended")
  BY <1>1, <1>2, MoveIInv DEF Places
<1>3. CASE \E r \in Readings(f) :
             callback' = [callback EXCEPT ![f] =
                            [at |-> "starting", try |-> TryNumber(r), acked |-> FALSE]]
  <2>1. PICK r \in Readings(f) :
               callback' = [callback EXCEPT ![f] =
                              [at |-> "starting", try |-> TryNumber(r), acked |-> FALSE]]
    BY <1>3
  <2> DEFINE c == [at |-> "starting", try |-> TryNumber(r), acked |-> FALSE]
  <2>2. c \in [at : Places, try : 1 .. MaxTries, acked : BOOLEAN] /\ ~c.acked
    BY NumbersAreAccepted DEF Places
  <2>3. callback' = [callback EXCEPT ![f] = c] BY <2>1
  <2> HIDE DEF c
  <2> QED BY <1>1, <2>2, <2>3, CallbackIInv
<1> QED BY <1>2, <1>3 DEF Fail

LEMMA ConnectIInv == ASSUME IInv, NEW f \in Failures, Connect(f) PROVE IInv'
<1>1. inflight' \subseteq Messages /\ crashes' \in crashes .. MaxCrashes
      /\ UNCHANGED <<log, replicated, workerVars>>
  BY CallbackType DEF Connect, boundVars
<1>2. ~callback[f].acked BY DEF IInv, CallbacksOK, Connect
<1>3. PICK place \in {"sending", "ended"} : MovesTo(f, place) BY DEF Connect
<1> QED BY <1>1, <1>2, <1>3, MoveIInv DEF Places

LEMMA SendReturnsIInv ==
  ASSUME IInv, NEW f \in Failures, SendReturns(f) PROVE IInv'
<1> DEFINE c == [callback[f] EXCEPT !.at = "stopping", !.acked = TRUE]
<1>1. callback[f] \in [at : Places, try : 1 .. MaxTries, acked : BOOLEAN]
  BY CallbackType
<1>2. c \in [at : Places, try : 1 .. MaxTries, acked : BOOLEAN]
      /\ c.at = "stopping" /\ c.try = callback[f].try
  BY <1>1 DEF Places
<1>3. callback' = [callback EXCEPT ![f] = c]
  BY DEF SendReturns
<1>4. Durable(Message(f)) BY DEF SendReturns, Acknowledged
<1>5. inflight' \subseteq Messages /\ crashes' \in crashes .. MaxCrashes
      /\ UNCHANGED <<log, replicated, workerVars>>
  BY CallbackType DEF SendReturns, brokerVars, boundVars
<1> HIDE DEF c
<1> QED BY <1>2, <1>3, <1>4, <1>5, CallbackIInv

LEMMA LeaveIInv ==
  ASSUME IInv, NEW f \in Failures, SendRaises(f) \/ Disconnect(f) \/ Kill(f)
  PROVE  IInv'
<1>1. inflight' \subseteq Messages /\ UNCHANGED <<log, replicated, workerVars>>
  BY CallbackType DEF SendRaises, Disconnect, Kill, brokerVars
<1>2. crashes' \in crashes .. MaxCrashes
  <2>1. crashes \in 0 .. MaxCrashes /\ MaxCrashes \in Nat
    BY BoundsAreNaturals DEF IInv, WorkerOK
  <2> QED BY <2>1 DEF SendRaises, Disconnect, Kill, boundVars
<1>3. PICK place \in {"stopping", "ended"} : MovesTo(f, place)
  BY DEF SendRaises, Disconnect, Kill
<1> QED BY <1>1, <1>2, <1>3, MoveIInv DEF Places

-----------------------------------------------------------------------------
(* The worker *)

(* The steps of the worker that leave the topics and the answers alone.    *)
LEMMA WorkerIInv ==
  ASSUME IInv, TypeOK', WorkerOK',
         UNCHANGED <<callback, log, replicated, answered>>
  PROVE  IInv'
<1>1. CallbacksOK' BY DEF IInv, CallbacksOK
<1>2. PublishedStays' BY NoBrokerStep, OthersKeepPublished DEF IInv
<1> QED BY <1>1, <1>2 DEF IInv

LEMMA StartIInv == ASSUME IInv, StartWorker PROVE IInv'
<1>1. TypeOK' BY DEF IInv, TypeOK, StartWorker, Idle, brokerVars, Workers
<1>2. WorkerOK'
  BY DEF IInv, TypeOK, WorkerOK, StartWorker, Idle, boundVars
<1> QED BY <1>1, <1>2, WorkerIInv DEF StartWorker, brokerVars

LEMMA CrashIInv == ASSUME IInv, CrashWorker PROVE IInv'
<1>1. TypeOK' BY DEF IInv, TypeOK, CrashWorker, Idle, brokerVars, Workers
<1>2. WorkerOK'
  <2>1. crashes \in Nat /\ MaxCrashes \in Nat /\ session \in Nat
        /\ crashes < MaxCrashes /\ crashes' = crashes + 1
        /\ session <= crashes + 1 /\ session' = session
    BY BoundsAreNaturals DEF IInv, TypeOK, WorkerOK, CrashWorker
  <2>2. worker'.at = "down" BY DEF CrashWorker, Idle
  <2> QED BY <2>1, <2>2 DEF WorkerOK
<1> QED BY <1>1, <1>2, WorkerIInv DEF CrashWorker, brokerVars

LEMMA ConsumeIInv == ASSUME IInv, NEW k \in FailureKeys, Consume(k) PROVE IInv'
<1> DEFINE m == log[k][consumed[k] + 1]
           a == Announcement(IdempotencyKey(m), session)
<1>1. k \in Keys BY DEF FailureKeys
<1>2. /\ consumed \in [Keys -> Nat] /\ consumed[k] \in Nat
      /\ replicated[k] \in Nat /\ Len(log[k]) \in Nat
      /\ log[k] \in Seq(Messages)
      /\ consumed[k] < replicated[k] /\ replicated[k] <= Len(log[k])
  BY <1>1 DEF IInv, TypeOK, Consume
<1>3. m \in Messages BY <1>2
<1>4. IdempotencyKey(m) \in Failures /\ IdempotencyKey(m) \in Tasks \X TryNumbers
  BY <1>3, MessageType DEF Failures, TryNumbers
<1>5. session \in 1 .. MaxCrashes + 1
  BY BoundsAreNaturals DEF IInv, WorkerOK, TypeOK, Consume
<1>6. a \in Messages BY <1>4, <1>5, AnnouncementType
<1> HIDE DEF m, a
<1>7. UNCHANGED <<callback, log, replicated, session, answered, boundVars>>
  BY DEF Consume
<1>8. /\ consumed' \in [Keys -> Nat]
      /\ \A j \in Keys : consumed'[j] <= replicated[j]
  <2>1. \A j \in Keys : consumed[j] <= replicated[j] BY DEF IInv, TypeOK
  <2>2. CASE consumed' = consumed BY <1>2, <2>1, <2>2
  <2>3. CASE consumed' = [consumed EXCEPT ![k] = @ + 1]
    BY <1>1, <1>2, <2>1, <2>3
  <2> QED BY <2>2, <2>3 DEF Consume, Advance
<1>9. /\ inflight' \subseteq Messages /\ received' \subseteq Messages
      /\ parked' \subseteq Messages /\ incidents' \subseteq Tasks \X TryNumbers
  BY <1>3, <1>4, <1>6 DEF IInv, TypeOK, Consume, m, a
<1>10. \/ worker' = worker
       \/ worker' = [at |-> "announcing", key |-> k, message |-> a]
  BY DEF Consume, m, a
<1>11. TypeOK'
  BY <1>1, <1>6, <1>7, <1>8, <1>9, <1>10 DEF IInv, TypeOK, Workers
<1>12. WorkerOK'
  <2>1. worker'.at = "announcing" =>
          worker'.key = k /\ consumed' = consumed
    BY DEF Consume
  <2>2. worker'.at = "announcing" => consumed'[worker'.key] < replicated'[worker'.key]
    BY <1>2, <1>7, <2>1
  <2>3. worker'.at # "down" /\ session' \in 1 .. crashes' + 1
        /\ crashes' \in 0 .. MaxCrashes
    BY <1>7, <1>10 DEF IInv, WorkerOK, Consume, boundVars
  <2> QED BY <2>2, <2>3 DEF WorkerOK
<1> QED BY <1>7, <1>11, <1>12, WorkerIInv

LEMMA EndAnnouncementIInv == ASSUME IInv, EndAnnouncement PROVE IInv'
<1> DEFINE k == worker.key
           a == worker.message
<1>1. k \in Keys /\ a \in Messages BY DEF IInv, TypeOK, EndAnnouncement
<1>2. /\ consumed \in [Keys -> Nat] /\ replicated \in [Keys -> Nat]
      /\ \A j \in Keys : consumed[j] <= replicated[j]
      /\ consumed[k] < replicated[k]
  BY DEF IInv, TypeOK, WorkerOK, EndAnnouncement
<1>3. consumed' = [consumed EXCEPT ![k] = @ + 1]
  BY DEF EndAnnouncement, Advance
<1>4. worker' = [at |-> "reading", key |-> <<>>, message |-> <<>>]
  BY DEF EndAnnouncement, Idle
<1>5. answered' \subseteq answered \cup {a} /\ (a \in answered' => a \in answered \/ Durable(a))
  BY DEF EndAnnouncement, Acknowledged
<1>6. UNCHANGED <<callback, log, replicated, inflight, session, incidents,
                  received, parked, crashes>>
  BY DEF EndAnnouncement, brokerVars, boundVars
<1>7. worker.at = "announcing" BY DEF EndAnnouncement
<1> HIDE DEF k, a
<1>8. consumed' \in [Keys -> Nat] /\ \A j \in Keys : consumed'[j] <= replicated[j]
  BY <1>1, <1>2, <1>3
<1>9. TypeOK'
  <2>1. answered' \subseteq Messages BY <1>1, <1>5 DEF IInv, TypeOK
  <2>2. worker'.at = "reading" BY <1>4
  <2> QED BY <1>6, <1>8, <2>1, <2>2 DEF IInv, TypeOK, Workers
<1>10. WorkerOK'
  <2>1. worker'.at = "reading" BY <1>4
  <2> QED BY <1>6, <1>7, <2>1 DEF IInv, WorkerOK
<1>11. CallbacksOK' BY <1>6 DEF IInv, CallbacksOK
<1>12. PublishedStays'
  <2>1. \A f \in Failures : callback'[f].acked => Durable(Message(f))'
    BY <1>6 DEF IInv, PublishedStays, Durable, Message
  <2>2. \A b \in answered' : Durable(b)'
    BY <1>5, <1>6 DEF IInv, PublishedStays, Durable
  <2> QED BY <2>1, <2>2 DEF PublishedStays
<1> QED BY <1>9, <1>10, <1>11, <1>12 DEF IInv

-----------------------------------------------------------------------------

LEMMA StutterIInv == ASSUME IInv, UNCHANGED vars PROVE IInv'
<1>1. UNCHANGED <<callback, answered, log, replicated>>
  BY DEF vars, brokerVars, workerVars
<1>2. TypeOK' BY DEF IInv, TypeOK, vars, brokerVars, workerVars
<1>3. WorkerOK'
  BY DEF IInv, WorkerOK, vars, brokerVars, workerVars, boundVars
<1> QED BY <1>1, <1>2, <1>3, WorkerIInv

LEMMA StepIInv == ASSUME IInv, [Next]_vars PROVE IInv'
<1>1. ASSUME NEW m \in Messages, Arrive(m) \/ Resend(m) PROVE IInv'
  BY <1>1, ArriveIInv, ResendIInv
<1>2. ASSUME NEW k \in Keys, Replicate(k) \/ Failover(k) PROVE IInv'
  BY <1>2, ReplicateIInv, FailoverIInv
<1>3. ASSUME NEW k \in FailureKeys, Consume(k) PROVE IInv'
  BY <1>3, ConsumeIInv
<1>4. ASSUME NEW t \in Tasks, NEW form \in Foreign, WriteForeign(t, form)
      PROVE  IInv'
  BY <1>4, ForeignIInv
<1>5. ASSUME NEW f \in Failures,
             \/ Fail(f) \/ Connect(f) \/ SendReturns(f)
             \/ SendRaises(f) \/ Disconnect(f) \/ Kill(f)
      PROVE  IInv'
  BY <1>5, FailIInv, ConnectIInv, SendReturnsIInv, LeaveIInv
<1>6. CASE StartWorker \/ EndAnnouncement \/ CrashWorker
  BY <1>6, StartIInv, EndAnnouncementIInv, CrashIInv
<1>7. CASE UNCHANGED vars BY <1>7, StutterIInv
<1> QED BY <1>1, <1>2, <1>3, <1>4, <1>5, <1>6, <1>7 DEF Next

THEOREM Inductive == Spec => []IInv
<1>1. Init => IInv BY InitIInv
<1>2. IInv /\ [Next]_vars => IInv' BY StepIInv
<1> QED BY <1>1, <1>2, PTL DEF Spec

(* Events carry a number of one or more whatever Airflow says, offsets run *)
(* neither past what is replicated nor past what there is.                 *)
THEOREM TypeCorrect == Spec => []TypeOK
<1>1. IInv => TypeOK BY DEF IInv
<1> QED BY <1>1, Inductive, PTL

(* What publish returned for is on its topic for good, through any number  *)
(* of lost leaders, repeated requests and dying processes.                 *)
THEOREM PublishedIsDurable == Spec => []PublishedStays
<1>1. IInv => PublishedStays BY DEF IInv
<1> QED BY <1>1, Inductive, PTL

-----------------------------------------------------------------------------
(* What keeps the topics free of duplicates and the worker's view in order *)

(* A request somebody sent that may still be written, or repeated.         *)
Around(m) == m \in inflight \/ On(m) \/ Answer(m)

(* The callback of an attempt sees its predecessors' callbacks ended.      *)
AttemptsInTurn ==
  \A f, g \in Failures :
     f[1] = g[1] /\ f[2] < g[2] /\ callback[g].at # "none"
        => callback[f].at = "ended"

Attempt(m) == <<m.task, m.sender[2]>>

(* All a callback sends, it sends once and of the event it built.          *)
SentByCallbacks ==
  \A m \in Messages :
     Around(m) /\ m.sender[1] = "callback"
        => /\ m = Message(Attempt(m))
           /\ callback[Attempt(m)].at \in {"sending", "stopping", "ended"}

(* An incident has announcements of one worker process, after the diagnosis *)
(* is stored.                                                              *)
AnnouncedOnce ==
  \A a \in Messages :
     Around(a) /\ a.topic = "diagnoses"
        => /\ IdempotencyKey(a) \in incidents
           /\ \A b \in Messages :
                 Around(b) /\ b.topic = "diagnoses"
                 /\ IdempotencyKey(b) = IdempotencyKey(a)
                    => b = a

(* A broker writes a record where its key says, and recognises it.         *)
RecordsOK ==
  \A k \in Keys : \A n \in 1 .. Len(log[k]) :
     /\ PartitionKey(log[k][n]) = k
     /\ \A o \in 1 .. Len(log[k]) : log[k][n] = log[k][o] => n = o

(* A record of an attempt has those published of earlier ones before it.   *)
FirstPublishedFirst ==
  \A f, g \in Failures :
     f[1] = g[1] /\ f[2] < g[2] /\ callback[f].acked
        => \A o \in 1 .. Len(log[PartitionKey(Message(g))]) :
              log[PartitionKey(Message(g))][o] = Message(g)
                 => \E n \in 1 .. o - 1 :
                       log[PartitionKey(Message(g))][n] = Message(f)

(* The worker has handled what it committed, and of the rest at most the   *)
(* next record.                                                            *)
HandledInOrder ==
  /\ \A k \in Keys : \A n \in 1 .. consumed[k] :
        Readable(log[k][n]) => log[k][n] \in received
  /\ worker.at = "announcing" =>
        log[worker.key][consumed[worker.key] + 1] \in received
  /\ \A m \in received : \E n \in 1 .. replicated[PartitionKey(m)] :
        n <= consumed[PartitionKey(m)] + 1 /\ log[PartitionKey(m)][n] = m

TopicsInv ==
  /\ AttemptsInTurn /\ SentByCallbacks /\ AnnouncedOnce
  /\ RecordsOK /\ FirstPublishedFirst /\ HandledInOrder

(* What a broker may do to a topic short of writing: keep a part of it.    *)
LogsShrink ==
  \A k \in Keys : /\ Len(log'[k]) <= Len(log[k])
                  /\ \A n \in 1 .. Len(log'[k]) : log'[k][n] = log[k][n]

(* What was sent by a callback, and where it is then.                      *)
Sent == {"sending", "stopping", "ended"}

LEMMA MessageForms ==
  ASSUME NEW m \in Messages
  PROVE  \/ /\ m.topic = "failures" /\ m.sender[1] = "callback"
            /\ Attempt(m) \in Failures
            /\ m = FailureMessage(Attempt(m), m.try)
         \/ m.topic = "failures" /\ ~Readable(m) /\ m.sender[1] # "callback"
         \/ m.topic = "diagnoses" /\ m.sender[1] # "callback"
<1>1. CASE \E f \in Failures, n \in 1 .. MaxTries : m = FailureMessage(f, n)
  <2>1. PICK f \in Failures, n \in 1 .. MaxTries : m = FailureMessage(f, n)
    BY <1>1
  <2>2. f = <<f[1], f[2]>> BY DEF Failures
  <2>3. Attempt(m) = f BY <2>1, <2>2 DEF FailureMessage, Attempt
  <2> QED BY <2>1, <2>3 DEF FailureMessage
<1>2. CASE \E t \in Tasks, form \in Foreign : m = ForeignMessage(t, form)
  <2>1. PICK t \in Tasks, form \in Foreign : m = ForeignMessage(t, form)
    BY <1>2
  <2>2. form \in {"malformed", "future"} BY ForeignIsKnown
  <2> QED BY <2>1, <2>2 DEF ForeignMessage, Readable
<1>3. CASE \E i \in Failures, s \in 1 .. MaxCrashes + 1 : m = Announcement(i, s)
  BY <1>3 DEF Announcement
<1> QED BY <1>1, <1>2, <1>3 DEF Messages

LEMMA CallbackMessages ==
  ASSUME NEW f \in Failures, NEW n
  PROVE  /\ FailureMessage(f, n).topic = "failures"
         /\ FailureMessage(f, n).sender[1] = "callback"
         /\ Readable(FailureMessage(f, n))
         /\ Attempt(FailureMessage(f, n)) = f
         /\ PartitionKey(FailureMessage(f, n)) = <<"failures", f[1], 0>>
<1>1. f = <<f[1], f[2]>> BY DEF Failures
<1> QED BY <1>1 DEF FailureMessage, Readable, Attempt, PartitionKey

(* A record on a topic was sent by somebody.                               *)
LEMMA RecordsAreAround ==
  ASSUME IInv, RecordsOK, NEW k \in Keys, NEW n \in 1 .. Len(log[k])
  PROVE  log[k][n] \in Messages /\ On(log[k][n])
<1>1. log[k] \in Seq(Messages) BY DEF IInv, TypeOK
<1>2. log[k][n] \in Messages /\ n \in DOMAIN log[k] BY <1>1
<1>3. PartitionKey(log[k][n]) = k BY DEF RecordsOK
<1> QED BY <1>2, <1>3 DEF On

LEMMA ShrinkingAddsNothing ==
  ASSUME IInv, TypeOK', LogsShrink, NEW m \in Messages, On(m)'
  PROVE  On(m)
<1> DEFINE k == PartitionKey(m)
<1>1. k \in Keys BY MessageType
<1>2. log[k] \in Seq(Messages) /\ log'[k] \in Seq(Messages)
  BY <1>1 DEF IInv, TypeOK
<1>3. PICK n \in DOMAIN log'[k] : log'[k][n] = m BY DEF On
<1>4. n \in DOMAIN log[k] /\ log[k][n] = m BY <1>1, <1>2, <1>3 DEF LogsShrink
<1> QED BY <1>4 DEF On

-----------------------------------------------------------------------------
(* What keeps each of them *)

LEMMA KeepSent ==
  ASSUME IInv, SentByCallbacks,
         \A f \in Failures : callback[f].at \in Sent =>
            callback'[f].at \in Sent /\ callback'[f].try = callback[f].try,
         \A m \in Messages : Around(m)' /\ m.sender[1] = "callback" =>
            \/ Around(m)
            \/ \E f \in Failures : /\ callback'[f].at = "sending"
                                   /\ m = Message(f)'
  PROVE  SentByCallbacks'
<1> SUFFICES ASSUME NEW m \in Messages, Around(m)', m.sender[1] = "callback"
             PROVE  /\ m = Message(Attempt(m))'
                    /\ callback'[Attempt(m)].at \in Sent
  BY DEF SentByCallbacks, Sent, Attempt
<1>1. CASE Around(m)
  <2> DEFINE f == Attempt(m)
  <2>1. m = Message(f) /\ callback[f].at \in Sent
    BY <1>1 DEF SentByCallbacks, Sent
  <2>2. f \in Failures BY MessageForms
  <2> HIDE DEF f
  <2>3. callback'[f].at \in Sent /\ callback'[f].try = callback[f].try
    BY <2>1, <2>2
  <2>4. m = Message(f)' BY <2>1, <2>3 DEF Message
  <2> QED BY <2>3, <2>4 DEF f
<1>2. CASE \E f \in Failures : callback'[f].at = "sending" /\ m = Message(f)'
  <2>1. PICK f \in Failures : callback'[f].at = "sending" /\ m = Message(f)'
    BY <1>2
  <2>2. Attempt(m) = f BY <2>1, CallbackMessages DEF Message
  <2> QED BY <2>1, <2>2 DEF Sent
<1> QED BY <1>1, <1>2

LEMMA KeepAnnounced ==
  ASSUME AnnouncedOnce, incidents \subseteq incidents',
         \A m \in Messages : Around(m)' /\ m.topic = "diagnoses" => Around(m)
  PROVE  AnnouncedOnce'
BY DEF AnnouncedOnce, IdempotencyKey

LEMMA KeepRecords ==
  ASSUME IInv, TypeOK', RecordsOK, LogsShrink
  PROVE  RecordsOK'
<1> SUFFICES ASSUME NEW k \in Keys, NEW n \in 1 .. Len(log'[k])
             PROVE  /\ PartitionKey(log'[k][n]) = k
                    /\ \A o \in 1 .. Len(log'[k]) :
                          log'[k][n] = log'[k][o] => n = o
  BY DEF RecordsOK, PartitionKey
<1>1. log[k] \in Seq(Messages) /\ log'[k] \in Seq(Messages)
  BY DEF IInv, TypeOK
<1>2. \A o \in 1 .. Len(log'[k]) : o \in 1 .. Len(log[k]) /\ log'[k][o] = log[k][o]
  BY <1>1 DEF LogsShrink
<1> QED BY <1>2 DEF RecordsOK

LEMMA KeepFirst ==
  ASSUME IInv, TypeOK', FirstPublishedFirst, LogsShrink, UNCHANGED callback
  PROVE  FirstPublishedFirst'
<1> SUFFICES ASSUME NEW f \in Failures, NEW g \in Failures,
                    f[1] = g[1], f[2] < g[2], callback[f].acked,
                    NEW o \in 1 .. Len(log'[PartitionKey(Message(g))]),
                    log'[PartitionKey(Message(g))][o] = Message(g)
             PROVE  \E n \in 1 .. o - 1 :
                       log'[PartitionKey(Message(g))][n] = Message(f)
  BY DEF FirstPublishedFirst, Message
<1> DEFINE k == PartitionKey(Message(g))
<1>1. k \in Keys BY CallbackType, MessageType
<1>2. log[k] \in Seq(Messages) /\ log'[k] \in Seq(Messages)
  BY <1>1 DEF IInv, TypeOK
<1>3. \A n \in 1 .. o : n \in 1 .. Len(log[k]) /\ log'[k][n] = log[k][n]
  BY <1>1, <1>2 DEF LogsShrink
<1>4. o \in 1 .. Len(log[k]) /\ log[k][o] = Message(g) BY <1>3
<1>5. PICK n \in 1 .. o - 1 : log[k][n] = Message(f)
  BY <1>4 DEF FirstPublishedFirst
<1>6. n \in 1 .. o BY <1>4, <1>5
<1> QED BY <1>3, <1>5, <1>6

LEMMA KeepHandled ==
  ASSUME IInv, HandledInOrder, PrefixStays, TypeOK',
         UNCHANGED <<consumed, received>>,
         worker'.at = "announcing" => worker' = worker
  PROVE  HandledInOrder'
<1>1. ASSUME NEW k \in Keys, NEW n \in 1 .. consumed'[k], Readable(log'[k][n])
      PROVE  log'[k][n] \in received'
  <2>1. n \in 1 .. consumed[k] /\ n \in 1 .. replicated[k]
    BY DEF IInv, TypeOK
  <2>2. log'[k][n] = log[k][n] BY <2>1 DEF PrefixStays
  <2> QED BY <1>1, <2>1, <2>2 DEF HandledInOrder
<1>2. ASSUME worker'.at = "announcing"
      PROVE  log'[worker'.key][consumed'[worker'.key] + 1] \in received'
  <2> DEFINE k == worker.key
  <2>1. worker' = worker /\ k \in Keys /\ consumed[k] < replicated[k]
    BY <1>2 DEF IInv, TypeOK, WorkerOK
  <2>2. consumed[k] \in Nat /\ replicated[k] \in Nat BY <2>1 DEF IInv, TypeOK
  <2>3. consumed[k] + 1 \in 1 .. replicated[k] BY <2>1, <2>2
  <2>4. log'[k][consumed[k] + 1] = log[k][consumed[k] + 1]
    BY <2>1, <2>3 DEF PrefixStays
  <2>5. log[k][consumed[k] + 1] \in received
    BY <1>2, <2>1 DEF HandledInOrder
  <2> QED BY <2>1, <2>4, <2>5
<1>3. ASSUME NEW m \in received'
      PROVE  \E n \in 1 .. replicated'[PartitionKey(m)] :
                n <= consumed'[PartitionKey(m)] + 1 /\ log'[PartitionKey(m)][n] = m
  <2> DEFINE k == PartitionKey(m)
  <2>1. m \in received /\ m \in Messages BY DEF IInv, TypeOK
  <2>2. k \in Keys BY <2>1, MessageType
  <2>3. PICK n \in 1 .. replicated[k] : n <= consumed[k] + 1 /\ log[k][n] = m
    BY <2>1 DEF HandledInOrder
  <2> HIDE DEF k
  <2>4. replicated[k] \in Nat /\ replicated'[k] \in Nat
    BY <2>2 DEF IInv, TypeOK
  <2>5. n \in 1 .. replicated'[k] BY <2>2, <2>3, <2>4 DEF PrefixStays
  <2>6. log'[k][n] = m BY <2>2, <2>3 DEF PrefixStays
  <2>7. n <= consumed'[k] + 1 BY <2>3
  <2>8. \E o \in 1 .. replicated'[k] : o <= consumed'[k] + 1 /\ log'[k][o] = m
    BY <2>5, <2>6, <2>7
  <2> QED BY <2>8 DEF k
<1> QED BY <1>1, <1>2, <1>3 DEF HandledInOrder, PartitionKey, Readable

-----------------------------------------------------------------------------
(* The steps of the brokers, and of those who repeat a request             *)

(* A step of neither a callback nor the worker: TopicsInv is kept when what *)
(* is around was there already, or came from whom it may.                  *)
LEMMA BrokerStep ==
  ASSUME IInv, TypeOK', TopicsInv, LogsShrink, PrefixStays,
         UNCHANGED <<callback, workerVars>>,
         \A m \in Messages : Around(m)' =>
            \/ Around(m) \/ Answer(m)
            \/ m.topic = "failures" /\ m.sender[1] # "callback"
            \/ \E f \in Failures : callback[f].at = "sending" /\ m = Message(f)
  PROVE  TopicsInv'
<1>1. AttemptsInTurn' BY DEF TopicsInv, AttemptsInTurn
<1>2. SentByCallbacks'
  <2>1. \A m \in Messages : Around(m)' /\ m.sender[1] = "callback" =>
            \/ Around(m)
            \/ \E f \in Failures : callback'[f].at = "sending" /\ m = Message(f)'
    BY DEF Around, Message
  <2> QED BY <2>1, KeepSent DEF TopicsInv
<1>3. AnnouncedOnce'
  <2>1. \A m \in Messages : Around(m)' /\ m.topic = "diagnoses" => Around(m)
    BY CallbackMessages DEF Around, Message
  <2> QED BY <2>1, KeepAnnounced DEF TopicsInv, workerVars
<1>4. RecordsOK' BY KeepRecords DEF TopicsInv
<1>5. FirstPublishedFirst' BY KeepFirst DEF TopicsInv
<1>6. HandledInOrder' BY KeepHandled DEF TopicsInv, workerVars
<1> QED BY <1>1, <1>2, <1>3, <1>4, <1>5, <1>6 DEF TopicsInv

LEMMA SameLogs ==
  ASSUME IInv, UNCHANGED log
  PROVE  LogsShrink /\ \A m \in Messages : On(m)' = On(m)
<1>1. \A k \in Keys : Len(log[k]) <= Len(log[k]) BY DEF IInv, TypeOK
<1> QED BY <1>1 DEF LogsShrink, On

LEMMA ReplicateTopics ==
  ASSUME IInv, TopicsInv, NEW k \in Keys, Replicate(k) PROVE TopicsInv'
<1>1. IInv' BY ReplicateIInv
<1>2. PrefixStays
  <2>1. \A j \in Keys : replicated[j] \in Nat /\ replicated[j] <= replicated'[j]
    BY DEF IInv, TypeOK, Replicate
  <2> QED BY <2>1 DEF PrefixStays, Replicate
<1>3. UNCHANGED <<callback, log, inflight, workerVars>> BY DEF Replicate
<1>4. \A m \in Messages : Around(m)' => Around(m)
  BY <1>3, SameLogs DEF Around, Answer, workerVars
<1> QED BY <1>1, <1>2, <1>3, <1>4, SameLogs, BrokerStep DEF IInv

LEMMA FailoverTopics ==
  ASSUME IInv, TopicsInv, NEW k \in Keys, Failover(k) PROVE TopicsInv'
<1>1. IInv' BY FailoverIInv
<1> DEFINE kept == SubSeq(log[k], 1, replicated[k])
<1>2. log \in [Keys -> Seq(Messages)] /\ log[k] \in Seq(Messages)
      /\ replicated[k] \in Nat /\ replicated[k] <= Len(log[k])
  BY DEF IInv, TypeOK
<1>3. /\ Len(kept) = replicated[k]
      /\ \A n \in 1 .. replicated[k] : kept[n] = log[k][n]
  BY <1>2
<1>4. log' = [log EXCEPT ![k] = kept] /\ replicated' = replicated
      /\ UNCHANGED <<callback, inflight, workerVars>>
  BY DEF Failover
<1> HIDE DEF kept
<1>5. \A j \in Keys : /\ log[j] \in Seq(Messages) /\ replicated[j] \in Nat
                      /\ replicated[j] <= Len(log[j])
  BY DEF IInv, TypeOK
<1>6. LogsShrink BY <1>2, <1>3, <1>4, <1>5 DEF LogsShrink
<1>7. PrefixStays BY <1>2, <1>3, <1>4, <1>5 DEF PrefixStays
<1>8. \A m \in Messages : Around(m)' => Around(m)
  <2>1. \A m \in Messages : On(m)' => On(m)
    BY <1>1, <1>6, ShrinkingAddsNothing DEF IInv
  <2> QED BY <1>4, <2>1 DEF Around, Answer, workerVars
<1> QED BY <1>1, <1>4, <1>6, <1>7, <1>8, BrokerStep DEF IInv

LEMMA RequestTopics ==
  ASSUME IInv, IInv', TopicsInv, NEW m \in Messages,
         inflight' = inflight \cup {m},
         UNCHANGED <<callback, log, replicated, workerVars>>,
         \/ Answer(m)
         \/ m.topic = "failures" /\ m.sender[1] # "callback"
         \/ \E f \in Failures : callback[f].at = "sending" /\ m = Message(f)
  PROVE  TopicsInv'
<1>1. \A b \in Messages : Around(b)' => Around(b) \/ b = m
  BY SameLogs DEF Around, Answer, workerVars
<1>2. PrefixStays BY NoBrokerStep DEF IInv
<1> QED BY <1>1, <1>2, SameLogs, BrokerStep DEF IInv

LEMMA ForeignTopics ==
  ASSUME IInv, TopicsInv, NEW t \in Tasks, NEW form \in Foreign,
         WriteForeign(t, form)
  PROVE  TopicsInv'
<1> DEFINE m == ForeignMessage(t, form)
<1>1. m \in Messages BY DEF Messages
<1>2. m.topic = "failures" /\ m.sender[1] # "callback"
  BY ForeignIsKnown DEF ForeignMessage
<1>3. inflight' = inflight \cup {m}
      /\ UNCHANGED <<callback, log, replicated, workerVars>>
  BY DEF WriteForeign
<1> HIDE DEF m
<1> QED BY <1>1, <1>2, <1>3, ForeignIInv, RequestTopics

LEMMA ResendTopics ==
  ASSUME IInv, TopicsInv, NEW m \in Messages, Resend(m) PROVE TopicsInv'
<1>1. inflight' = inflight \cup {m}
      /\ UNCHANGED <<callback, log, replicated, workerVars>>
      /\ \/ Answer(m)
         \/ \E f \in Failures : callback[f].at = "sending" /\ m = Message(f)
  BY DEF Resend
<1> QED BY <1>1, ResendIInv, RequestTopics

(* What is written comes after all that was, and was not there before.     *)
LEMMA ArriveTopics ==
  ASSUME IInv, TopicsInv, NEW m \in Messages, Arrive(m) PROVE TopicsInv'
<1> DEFINE k == PartitionKey(m)
<1>1. IInv' BY ArriveIInv
<1>2. /\ k \in Keys /\ log \in [Keys -> Seq(Messages)]
      /\ m \in inflight /\ inflight' = inflight \ {m}
      /\ log' = [log EXCEPT ![k] = Written(m)]
      /\ UNCHANGED <<callback, replicated, workerVars>>
  BY MessageType DEF Arrive, IInv, TypeOK
<1>3. CASE On(m)
  <2>1. log' = log BY <1>2, <1>3 DEF Written
  <2>2. \A b \in Messages : Around(b)' => Around(b)
    BY <1>2, <2>1, SameLogs DEF Around, Answer, workerVars
  <2>3. PrefixStays BY <1>2, <2>1, NoBrokerStep DEF IInv
  <2> QED BY <1>1, <1>2, <2>1, <2>2, <2>3, SameLogs, BrokerStep DEF IInv
<1>4. CASE ~On(m)
  <2>1. log' = [log EXCEPT ![k] = Append(log[k], m)] BY <1>2, <1>4 DEF Written
  <2> HIDE DEF k
  <2>2. /\ \A j \in Keys : /\ log[j] \in Seq(Messages) /\ log'[j] \in Seq(Messages)
                           /\ replicated[j] \in Nat
                           /\ replicated[j] <= Len(log[j])
        /\ \A j \in Keys \ {k} : log'[j] = log[j]
        /\ Len(log'[k]) = Len(log[k]) + 1 /\ log'[k][Len(log[k]) + 1] = m
        /\ \A j \in Keys : \A n \in 1 .. Len(log[j]) : log'[j][n] = log[j][n]
    <3>1. \A j \in Keys : /\ log[j] \in Seq(Messages)
                          /\ log'[j] \in Seq(Messages)
                          /\ replicated[j] \in Nat
                          /\ replicated[j] <= Len(log[j])
      BY <1>1, <1>2 DEF IInv, TypeOK
    <3>2. \A j \in Keys \ {k} : log'[j] = log[j] BY <1>2, <2>1
    <3>3. log'[k] = Append(log[k], m) BY <1>2, <2>1
    <3>4. /\ Len(log'[k]) = Len(log[k]) + 1 /\ log'[k][Len(log[k]) + 1] = m
          /\ \A n \in 1 .. Len(log[k]) : log'[k][n] = log[k][n]
      <4> DEFINE old == log[k]
                 new == log'[k]
      <4>1. old \in Seq(Messages) /\ new = Append(old, m) BY <1>2, <3>1, <3>3
      <4> HIDE DEF old, new
      <4>2. Len(new) = Len(old) + 1 /\ new[Len(old) + 1] = m BY <4>1
      <4>3. \A n \in 1 .. Len(old) : new[n] = old[n] BY <4>1
      <4> QED BY <4>2, <4>3 DEF old, new
    <3> QED BY <3>1, <3>2, <3>4
  <2>3. PrefixStays BY <1>2, <2>2 DEF PrefixStays
  <2>4. \A b \in Messages : Around(b)' => Around(b)
    <3> SUFFICES ASSUME NEW b \in Messages, Around(b)' PROVE Around(b)
      OBVIOUS
    <3>1. CASE b = m BY <1>2, <3>1 DEF Around
    <3>2. CASE b # m
      <4> DEFINE j == PartitionKey(b)
      <4>1. j \in Keys BY MessageType
      <4>2. CASE On(b)'
        <5>1. PICK n \in DOMAIN log'[j] : log'[j][n] = b BY <4>2 DEF On
        <5>2. n \in DOMAIN log[j] /\ log[j][n] = b
          BY <2>2, <3>2, <4>1, <5>1
        <5> QED BY <5>2 DEF On, Around
      <4>3. CASE ~On(b)'
        BY <1>2, <4>3 DEF Around, Answer, workerVars
      <4> QED BY <4>2, <4>3
    <3> QED BY <3>1, <3>2
  <2>5. AttemptsInTurn' BY <1>2 DEF TopicsInv, AttemptsInTurn
  <2>6. SentByCallbacks' BY <1>2, <2>4, KeepSent DEF TopicsInv
  <2>7. AnnouncedOnce' BY <1>2, <2>4, KeepAnnounced DEF TopicsInv, workerVars
  <2>8. HandledInOrder'
    BY <1>1, <1>2, <2>3, KeepHandled DEF TopicsInv, IInv, workerVars
  <2>9. RecordsOK'
    <3> SUFFICES ASSUME NEW j \in Keys, NEW n \in 1 .. Len(log'[j])
                 PROVE  /\ PartitionKey(log'[j][n]) = j
                        /\ \A o \in 1 .. Len(log'[j]) :
                              log'[j][n] = log'[j][o] => n = o
      BY DEF RecordsOK, PartitionKey
    <3>1. RecordsOK BY DEF TopicsInv
    <3>2. CASE j # k
      BY <2>2, <3>1, <3>2 DEF RecordsOK
    <3>3. CASE j = k
      <4>1. \A o \in 1 .. Len(log[k]) : log[k][o] # m
        BY <1>2, <1>4, <2>2 DEF On, k
      <4>2. PartitionKey(m) = k BY DEF k
      <4>3. \A o \in 1 .. Len(log'[k]) :
               \/ o = Len(log[k]) + 1 /\ log'[k][o] = m
               \/ o \in 1 .. Len(log[k]) /\ log'[k][o] = log[k][o]
        BY <1>2, <2>2
      <4>4. PartitionKey(log'[k][n]) = k
        BY <1>2, <3>1, <3>3, <4>2, <4>3 DEF RecordsOK
      <4>5. \A o \in 1 .. Len(log'[k]) : log'[k][n] = log'[k][o] => n = o
        BY <1>2, <3>1, <3>3, <4>1, <4>3 DEF RecordsOK
      <4> QED BY <3>3, <4>4, <4>5
    <3> QED BY <3>2, <3>3
  <2>10. FirstPublishedFirst'
    <3> SUFFICES ASSUME NEW f \in Failures, NEW g \in Failures,
                        f[1] = g[1], f[2] < g[2], callback[f].acked,
                        NEW o \in 1 .. Len(log'[PartitionKey(Message(g))]),
                        log'[PartitionKey(Message(g))][o] = Message(g)
                 PROVE  \E n \in 1 .. o - 1 :
                           log'[PartitionKey(Message(g))][n] = Message(f)
      BY <1>2 DEF FirstPublishedFirst, Message
    <3> DEFINE j == PartitionKey(Message(g))
    <3>1. j \in Keys BY CallbackType, MessageType
    <3>2. PartitionKey(Message(f)) = j BY CallbackMessages DEF Message
    <3>3. CASE o \in 1 .. Len(log[j])
      <4>1. log[j][o] = Message(g) BY <2>2, <3>1, <3>3
      <4>2. PICK n \in 1 .. o - 1 : log[j][n] = Message(f)
        BY <3>3, <4>1 DEF TopicsInv, FirstPublishedFirst
      <4>3. n \in 1 .. Len(log[j]) BY <2>2, <3>1, <3>3, <4>2
      <4> QED BY <2>2, <3>1, <4>2, <4>3
    <3>4. CASE o \notin 1 .. Len(log[j])
      <4>1. o = Len(log[j]) + 1 BY <1>2, <2>2, <3>1, <3>4
      <4>2. Durable(Message(f)) BY DEF IInv, PublishedStays
      <4>3. PICK n \in 1 .. replicated[j] : log[j][n] = Message(f)
        BY <3>2, <4>2 DEF Durable
      <4>4. n \in 1 .. Len(log[j]) BY <2>2, <3>1, <4>3
      <4>5. n \in 1 .. o - 1 BY <2>2, <3>1, <4>1, <4>4
      <4> QED BY <2>2, <3>1, <4>3, <4>4, <4>5
    <3> QED BY <3>3, <3>4
  <2> QED BY <2>5, <2>6, <2>7, <2>8, <2>9, <2>10 DEF TopicsInv
<1> QED BY <1>3, <1>4

-----------------------------------------------------------------------------
(* The steps of the callbacks *)

(* A callback that has not ended moves on, keeps what it sent, and sends    *)
(* nothing but the event it built.                                         *)
LEMMA CallbackTopics ==
  ASSUME IInv, IInv', TopicsInv, NEW h \in Failures, NEW c,
         c \in [at : Places, try : 1 .. MaxTries, acked : BOOLEAN],
         callback' = [callback EXCEPT ![h] = c],
         callback[h].at # "ended",
         callback[h].at = "none" /\ h[2] > 1 =>
            callback[<<h[1], h[2] - 1>>].at = "ended",
         callback[h].at \in Sent => c.at \in Sent /\ c.try = callback[h].try,
         \A m \in inflight' \ inflight :
            c.at = "sending" /\ m = FailureMessage(h, c.try),
         UNCHANGED <<log, replicated, workerVars>>
  PROVE  TopicsInv'
<1>1. callback \in [Failures -> [at : Places, try : TryNumbers, acked : BOOLEAN]]
  BY DEF IInv, TypeOK
<1>2. callback'[h] = c /\ \A f \in Failures \ {h} : callback'[f] = callback[f]
  BY <1>1
<1>3. \A f \in Failures : callback[f].at = "ended" => callback'[f] = callback[f]
  BY <1>2
<1>4. AttemptsInTurn'
  <2> SUFFICES ASSUME NEW f \in Failures, NEW g \in Failures,
                      f[1] = g[1], f[2] < g[2], callback'[g].at # "none"
               PROVE  callback[f].at = "ended"
    BY <1>3 DEF AttemptsInTurn
  <2>1. CASE callback[g].at # "none"
    BY <2>1 DEF TopicsInv, AttemptsInTurn
  <2>2. CASE callback[g].at = "none"
    <3>1. g = h BY <1>2, <2>2
    <3> DEFINE b == <<h[1], h[2] - 1>>
    <3>2. f = <<f[1], f[2]>> /\ f[2] \in 1 .. MaxTries /\ MaxTries \in Nat
          /\ h[1] \in Tasks /\ h[2] \in 1 .. MaxTries
      BY BoundsAreNaturals DEF Failures
    <3>3. f[2] < h[2] /\ f[1] = h[1] BY <3>1
    <3>4. callback[b].at = "ended" BY <2>2, <3>1, <3>2, <3>3
    <3>5. CASE f[2] = h[2] - 1 BY <3>2, <3>3, <3>4, <3>5
    <3>6. CASE f[2] # h[2] - 1
      <4>1. f[2] < h[2] - 1 BY <3>2, <3>3, <3>6
      <4>2. b \in Failures /\ b[1] = f[1] /\ f[2] < b[2]
        BY <3>2, <3>3, <4>1 DEF Failures
      <4> QED BY <3>4, <4>2 DEF TopicsInv, AttemptsInTurn
    <3> QED BY <3>5, <3>6
  <2> QED BY <2>1, <2>2
<1>5. \A m \in Messages : Around(m)' =>
         \/ Around(m)
         \/ c.at = "sending" /\ m = FailureMessage(h, c.try)
  BY SameLogs DEF Around, Answer, workerVars
<1>6. SentByCallbacks'
  <2>1. \A f \in Failures : callback[f].at \in Sent =>
           callback'[f].at \in Sent /\ callback'[f].try = callback[f].try
    BY <1>2
  <2>2. \A m \in Messages : Around(m)' /\ m.sender[1] = "callback" =>
            \/ Around(m)
            \/ \E f \in Failures : callback'[f].at = "sending" /\ m = Message(f)'
    BY <1>2, <1>5 DEF Message
  <2> QED BY <2>1, <2>2, KeepSent DEF TopicsInv
<1>7. AnnouncedOnce'
  <2>1. \A m \in Messages : Around(m)' /\ m.topic = "diagnoses" => Around(m)
    BY <1>5, CallbackMessages
  <2> QED BY <2>1, KeepAnnounced DEF TopicsInv, workerVars
<1>8. RecordsOK' BY SameLogs, KeepRecords DEF TopicsInv, IInv
<1>9. FirstPublishedFirst'
  <2> SUFFICES ASSUME NEW f \in Failures, NEW g \in Failures,
                      f[1] = g[1], f[2] < g[2], callback'[f].acked,
                      NEW o \in 1 .. Len(log[PartitionKey(Message(g)')]),
                      log[PartitionKey(Message(g)')][o] = Message(g)'
               PROVE  \E n \in 1 .. o - 1 :
                         log[PartitionKey(Message(g)')][n] = Message(f)'
    BY DEF FirstPublishedFirst, Message
  <2> DEFINE m == FailureMessage(g, callback'[g].try)
  <2>1. m = Message(g)' /\ m \in Messages
        /\ Attempt(m) = g /\ m.sender[1] = "callback"
    <3>1. callback'[g].try \in 1 .. MaxTries BY DEF IInv, CallbacksOK
    <3>2. m \in Messages BY <3>1 DEF Messages
    <3> QED BY <3>2, CallbackMessages DEF Message
  <2> HIDE DEF m
  <2>2. Around(m)
    <3>1. PartitionKey(m) \in Keys BY <2>1, MessageType
    <3>2. log[PartitionKey(m)] \in Seq(Messages) BY <3>1 DEF IInv, TypeOK
    <3> QED BY <2>1, <3>2 DEF Around, On
  <2>3. m = Message(g) /\ callback[g].at \in Sent
    BY <2>1, <2>2 DEF TopicsInv, SentByCallbacks, Sent
  <2>4. callback[f].at = "ended" BY <2>3 DEF TopicsInv, AttemptsInTurn, Sent
  <2>5. callback'[f] = callback[f] BY <1>3, <2>4
  <2>6. callback[f].acked /\ Message(f)' = Message(f)
    BY <2>5 DEF Message
  <2> QED BY <2>1, <2>3, <2>6 DEF TopicsInv, FirstPublishedFirst
<1>10. HandledInOrder'
  <2>1. PrefixStays BY NoBrokerStep DEF IInv
  <2> QED BY <2>1, KeepHandled DEF TopicsInv, IInv, workerVars
<1> QED BY <1>4, <1>6, <1>7, <1>8, <1>9, <1>10 DEF TopicsInv

LEMMA MoveTopics ==
  ASSUME IInv, IInv', TopicsInv, NEW h \in Failures,
         NEW place \in Places, MovesTo(h, place),
         callback[h].at # "ended",
         callback[h].at = "none" /\ h[2] > 1 =>
            callback[<<h[1], h[2] - 1>>].at = "ended",
         callback[h].at \in Sent => place \in Sent,
         \A m \in inflight' \ inflight : place = "sending" /\ m = Message(h),
         UNCHANGED <<log, replicated, workerVars>>
  PROVE  TopicsInv'
<1> DEFINE c == [callback[h] EXCEPT !.at = place]
<1>1. callback[h] \in [at : Places, try : 1 .. MaxTries, acked : BOOLEAN]
  BY CallbackType
<1>2. c \in [at : Places, try : 1 .. MaxTries, acked : BOOLEAN]
      /\ c.at = place /\ c.try = callback[h].try
  BY <1>1
<1>3. callback' = [callback EXCEPT ![h] = c] BY DEF MovesTo
<1> HIDE DEF c
<1>4. \A m \in inflight' \ inflight :
         c.at = "sending" /\ m = FailureMessage(h, c.try)
  BY <1>2 DEF Message
<1> QED BY <1>2, <1>3, <1>4, CallbackTopics

LEMMA FailTopics ==
  ASSUME IInv, TopicsInv, NEW f \in Failures, Fail(f) PROVE TopicsInv'
<1>1. /\ callback[f].at = "none"
      /\ f[2] > 1 => callback[<<f[1], f[2] - 1>>].at = "ended"
      /\ UNCHANGED <<inflight, log, replicated, workerVars>>
  BY DEF Fail, brokerVars
<1>2. IInv' BY FailIInv
<1>3. CASE MovesTo(f, "ended")
  BY <1>1, <1>2, <1>3, MoveTopics DEF Places, Sent
<1>4. CASE \E r \in Readings(f) :
             callback' = [callback EXCEPT ![f] =
                            [at |-> "starting", try |-> TryNumber(r), acked |-> FALSE]]
  <2>1. PICK r \in Readings(f) :
               callback' = [callback EXCEPT ![f] =
                              [at |-> "starting", try |-> TryNumber(r), acked |-> FALSE]]
    BY <1>4
  <2> DEFINE c == [at |-> "starting", try |-> TryNumber(r), acked |-> FALSE]
  <2>2. c \in [at : Places, try : 1 .. MaxTries, acked : BOOLEAN]
    BY NumbersAreAccepted DEF Places
  <2>3. callback' = [callback EXCEPT ![f] = c] BY <2>1
  <2> HIDE DEF c
  <2> QED BY <1>1, <1>2, <2>2, <2>3, CallbackTopics DEF Sent
<1> QED BY <1>3, <1>4 DEF Fail

LEMMA ConnectTopics ==
  ASSUME IInv, TopicsInv, NEW f \in Failures, Connect(f) PROVE TopicsInv'
<1>1. callback[f].at = "starting" /\ UNCHANGED <<log, replicated, workerVars>>
  BY DEF Connect
<1>2. PICK place \in {"sending", "ended"} :
             /\ MovesTo(f, place)
             /\ \A m \in inflight' \ inflight :
                   place = "sending" /\ m = Message(f)
  BY DEF Connect
<1> QED BY <1>1, <1>2, ConnectIInv, MoveTopics DEF Places, Sent

LEMMA SendReturnsTopics ==
  ASSUME IInv, TopicsInv, NEW f \in Failures, SendReturns(f) PROVE TopicsInv'
<1> DEFINE c == [callback[f] EXCEPT !.at = "stopping", !.acked = TRUE]
<1>1. callback[f] \in [at : Places, try : 1 .. MaxTries, acked : BOOLEAN]
  BY CallbackType
<1>2. c \in [at : Places, try : 1 .. MaxTries, acked : BOOLEAN]
      /\ c.at = "stopping" /\ c.try = callback[f].try
  BY <1>1 DEF Places
<1>3. /\ callback' = [callback EXCEPT ![f] = c]
      /\ callback[f].at = "sending"
      /\ UNCHANGED <<inflight, log, replicated, workerVars>>
  BY DEF SendReturns, brokerVars
<1> HIDE DEF c
<1> QED BY <1>2, <1>3, SendReturnsIInv, CallbackTopics DEF Sent

LEMMA LeaveTopics ==
  ASSUME IInv, TopicsInv, NEW f \in Failures,
         SendRaises(f) \/ Disconnect(f) \/ Kill(f)
  PROVE  TopicsInv'
<1>1. /\ callback[f].at \in {"starting", "sending", "stopping"}
      /\ UNCHANGED <<inflight, log, replicated, workerVars>>
  BY DEF SendRaises, Disconnect, Kill, brokerVars
<1>2. PICK place \in {"stopping", "ended"} : MovesTo(f, place)
  BY DEF SendRaises, Disconnect, Kill
<1> QED BY <1>1, <1>2, LeaveIInv, MoveTopics DEF Places, Sent

-----------------------------------------------------------------------------
(* The steps of the worker *)

(* The worker leaves the callbacks and the topics alone.                   *)
LEMMA WorkerTopics ==
  ASSUME IInv, IInv', TopicsInv, UNCHANGED <<callback, log>>,
         \A m \in Messages : Around(m)' =>
            Around(m) \/ (m.topic = "diagnoses" /\ m.sender[1] # "callback"),
         AnnouncedOnce', HandledInOrder'
  PROVE  TopicsInv'
<1>1. AttemptsInTurn' BY DEF TopicsInv, AttemptsInTurn
<1>2. SentByCallbacks' BY KeepSent DEF TopicsInv
<1>3. RecordsOK' BY SameLogs, KeepRecords DEF TopicsInv, IInv
<1>4. FirstPublishedFirst' BY SameLogs, KeepFirst DEF TopicsInv, IInv
<1> QED BY <1>1, <1>2, <1>3, <1>4 DEF TopicsInv

LEMMA RestartTopics ==
  ASSUME IInv, TopicsInv, StartWorker \/ CrashWorker PROVE TopicsInv'
<1>1. IInv' BY StartIInv, CrashIInv
<1>2. /\ worker'.at # "announcing"
      /\ UNCHANGED <<callback, log, replicated, inflight, consumed, received, incidents>>
  BY DEF StartWorker, CrashWorker, Idle, brokerVars
<1>3. \A m \in Messages : Around(m)' => Around(m)
  BY <1>2, SameLogs DEF Around, Answer
<1>4. AnnouncedOnce' BY <1>2, <1>3, KeepAnnounced DEF TopicsInv
<1>5. HandledInOrder'
  BY <1>1, <1>2, NoBrokerStep, KeepHandled DEF TopicsInv, IInv
<1> QED BY <1>1, <1>2, <1>3, <1>4, <1>5, WorkerTopics

(* What the worker makes of its record: when it moves past it, it has       *)
(* handled it or could not read it.                                        *)
LEMMA HandleTopics ==
  ASSUME IInv, HandledInOrder, NEW k \in Keys, consumed[k] < replicated[k],
         UNCHANGED <<log, replicated>>,
         NEW m, m = log[k][consumed[k] + 1],
         received \subseteq received', received' \subseteq received \cup {m},
         PartitionKey(m) = k,
         \/ consumed' = consumed
         \/ /\ consumed' = [consumed EXCEPT ![k] = @ + 1]
            /\ Readable(m) => m \in received',
         worker'.at = "announcing" =>
            worker'.key = k /\ consumed' = consumed /\ m \in received'
  PROVE  HandledInOrder'
<1>1. /\ consumed \in [Keys -> Nat] /\ replicated \in [Keys -> Nat]
      /\ consumed[k] \in Nat /\ replicated[k] \in Nat
  BY DEF IInv, TypeOK
<1>2. \A j \in Keys : consumed[j] \in Nat /\ consumed[j] <= consumed'[j] /\ consumed'[j] \in Nat
  BY <1>1
<1>3. ASSUME NEW j \in Keys, NEW n \in 1 .. consumed'[j], Readable(log[j][n])
      PROVE  log[j][n] \in received'
  <2>1. CASE n \in 1 .. consumed[j] BY <1>3, <2>1 DEF HandledInOrder
  <2>2. CASE n \notin 1 .. consumed[j]
    <3>1. j = k /\ consumed' = [consumed EXCEPT ![k] = @ + 1]
      BY <1>1, <1>2, <2>2
    <3>2. n = consumed[k] + 1 BY <1>1, <2>2, <3>1
    <3>3. consumed' # consumed BY <1>1, <3>1
    <3> QED BY <1>3, <3>1, <3>2, <3>3
  <2> QED BY <2>1, <2>2
<1>4. worker'.at = "announcing" =>
         log[worker'.key][consumed'[worker'.key] + 1] \in received'
  OBVIOUS
<1>5. ASSUME NEW r \in received'
      PROVE  \E n \in 1 .. replicated[PartitionKey(r)] :
                n <= consumed'[PartitionKey(r)] + 1 /\ log[PartitionKey(r)][n] = r
  <2>1. CASE r \in received
    <3> DEFINE j == PartitionKey(r)
    <3>1. r \in Messages BY <2>1 DEF IInv, TypeOK
    <3>2. j \in Keys BY <3>1, MessageType
    <3>3. PICK n \in 1 .. replicated[j] : n <= consumed[j] + 1 /\ log[j][n] = r
      BY <2>1 DEF HandledInOrder
    <3>4. replicated[j] \in Nat BY <1>1, <3>2
    <3> HIDE DEF j
    <3>5. n <= consumed'[j] + 1 BY <1>2, <3>2, <3>3, <3>4
    <3> QED BY <3>3, <3>5 DEF j
  <2>2. CASE r = m
    <3> DEFINE n == consumed[k] + 1
    <3>1. n \in 1 .. replicated[k] BY <1>1
    <3>2. n <= consumed'[k] + 1 BY <1>2
    <3> QED BY <2>2, <3>1, <3>2
  <2> QED BY <2>1, <2>2
<1> QED BY <1>3, <1>4, <1>5 DEF HandledInOrder, PartitionKey, Readable

LEMMA ConsumeTopics ==
  ASSUME IInv, TopicsInv, NEW k \in FailureKeys, Consume(k) PROVE TopicsInv'
<1> DEFINE m == log[k][consumed[k] + 1]
           a == Announcement(IdempotencyKey(m), session)
<1>1. IInv' BY ConsumeIInv
<1>2. k \in Keys BY DEF FailureKeys
<1>3. /\ consumed[k] \in Nat /\ replicated[k] \in Nat /\ Len(log[k]) \in Nat
      /\ consumed[k] < replicated[k] /\ replicated[k] <= Len(log[k])
      /\ UNCHANGED <<callback, log, replicated>>
  BY <1>2 DEF IInv, TypeOK, Consume
<1>4. consumed[k] + 1 \in 1 .. Len(log[k]) BY <1>3
<1>5. m \in Messages /\ PartitionKey(m) = k
  BY <1>2, <1>4, RecordsAreAround DEF TopicsInv, RecordsOK
<1>6. /\ a.topic = "diagnoses" /\ a.sender[1] # "callback"
      /\ IdempotencyKey(a) = IdempotencyKey(m)
  BY DEF Announcement, IdempotencyKey
<1>7. \/ /\ UNCHANGED <<inflight, incidents, worker>>
         /\ consumed' = [consumed EXCEPT ![k] = @ + 1]
         /\ received' = received \cup {m} \/ (~Readable(m) /\ received' = received)
      \/ /\ IdempotencyKey(m) \notin incidents
         /\ incidents' = incidents \cup {IdempotencyKey(m)}
         /\ received' = received \cup {m} /\ consumed' = consumed
         /\ worker' = [at |-> "announcing", key |-> k, message |-> a]
         /\ inflight' = inflight \cup {a}
  BY DEF Consume, IsNew, Advance
<1>8. worker.at = "reading" BY DEF Consume
<1> HIDE DEF m, a
<1>9. \A b \in Messages : Around(b)' => Around(b) \/ b = a
  BY <1>3, <1>7, SameLogs DEF Around, Answer
<1>10. AnnouncedOnce'
  <2>1. CASE UNCHANGED <<inflight, incidents, worker>>
    <3>1. \A b \in Messages : Around(b)' => Around(b)
      BY <1>3, <2>1, SameLogs DEF Around, Answer
    <3> QED BY <2>1, <3>1, KeepAnnounced DEF TopicsInv
  <2>2. CASE /\ IdempotencyKey(m) \notin incidents
             /\ incidents' = incidents \cup {IdempotencyKey(m)}
    <3>1. \A b \in Messages : Around(b) /\ b.topic = "diagnoses"
             => IdempotencyKey(b) \in incidents
      BY DEF TopicsInv, AnnouncedOnce
    <3>2. \A b \in Messages : Around(b)' /\ b.topic = "diagnoses"
             => /\ IdempotencyKey(b) \in incidents'
                /\ b = a \/ (Around(b) /\ IdempotencyKey(b) # IdempotencyKey(a))
      BY <1>6, <1>9, <2>2, <3>1
    <3>3. \A b, c \in Messages :
             Around(b)' /\ b.topic = "diagnoses"
             /\ Around(c)' /\ c.topic = "diagnoses"
             /\ IdempotencyKey(c) = IdempotencyKey(b) => c = b
      BY <3>2 DEF TopicsInv, AnnouncedOnce
    <3> QED BY <3>2, <3>3 DEF AnnouncedOnce, IdempotencyKey
  <2> QED BY <1>7, <2>1, <2>2
<1>11. HandledInOrder'
  <2>1. /\ received \subseteq received' /\ received' \subseteq received \cup {m}
        /\ \/ consumed' = consumed
           \/ /\ consumed' = [consumed EXCEPT ![k] = @ + 1]
              /\ Readable(m) => m \in received'
        /\ worker'.at = "announcing" =>
              worker'.key = k /\ consumed' = consumed /\ m \in received'
    BY <1>7, <1>8
  <2> QED BY <1>2, <1>3, <1>5, <2>1, HandleTopics DEF TopicsInv, m
<1> QED BY <1>1, <1>3, <1>6, <1>9, <1>10, <1>11, WorkerTopics

LEMMA EndAnnouncementTopics ==
  ASSUME IInv, TopicsInv, EndAnnouncement PROVE TopicsInv'
<1> DEFINE k == worker.key
           m == log[k][consumed[k] + 1]
<1>1. IInv' BY EndAnnouncementIInv
<1>2. /\ worker.at = "announcing" /\ worker'.at = "reading"
      /\ UNCHANGED <<callback, log, replicated, inflight, received, incidents>>
      /\ consumed' = [consumed EXCEPT ![k] = @ + 1]
  BY DEF EndAnnouncement, brokerVars, Idle, Advance
<1>3. k \in Keys /\ consumed[k] < replicated[k] /\ m \in received
  BY <1>2 DEF IInv, TypeOK, WorkerOK, TopicsInv, HandledInOrder
<1>4. /\ consumed[k] \in Nat /\ replicated[k] \in Nat /\ Len(log[k]) \in Nat
      /\ replicated[k] <= Len(log[k])
  BY <1>3 DEF IInv, TypeOK
<1>5. consumed[k] + 1 \in 1 .. Len(log[k]) BY <1>3, <1>4
<1>6. PartitionKey(m) = k BY <1>3, <1>5 DEF TopicsInv, RecordsOK
<1> HIDE DEF k
<1>7. HandledInOrder'
  <2> HIDE DEF m
  <2>1. received \subseteq received' /\ received' \subseteq received \cup {m}
        /\ (Readable(m) => m \in received') /\ worker'.at # "announcing"
    BY <1>2, <1>3
  <2>2. m = log[k][consumed[k] + 1] BY DEF m
  <2>3. HandledInOrder /\ UNCHANGED <<log, replicated>> BY <1>2 DEF TopicsInv
  <2> QED BY <1>2, <1>3, <1>6, <2>1, <2>2, <2>3, HandleTopics
<1>8. \A b \in Messages : Around(b)' => Around(b)
  BY <1>2, SameLogs DEF Around, Answer
<1>9. AnnouncedOnce' BY <1>2, <1>8, KeepAnnounced DEF TopicsInv
<1> QED BY <1>1, <1>2, <1>7, <1>8, <1>9, WorkerTopics

-----------------------------------------------------------------------------

LEMMA InitTopics == Init => TopicsInv
<1> SUFFICES ASSUME Init PROVE TopicsInv OBVIOUS
<1>1. /\ \A f \in Failures : callback[f].at = "none" /\ ~callback[f].acked
      /\ \A k \in Keys : log[k] = <<>> /\ consumed[k] = 0
      /\ inflight = {} /\ received = {} /\ worker.at = "down"
  BY DEF Init
<1>2. \A m \in Messages : ~Around(m)
  BY <1>1, MessageType DEF Around, On, Answer
<1>3. AttemptsInTurn BY <1>1 DEF AttemptsInTurn
<1>4. SentByCallbacks /\ AnnouncedOnce
  BY <1>2 DEF SentByCallbacks, AnnouncedOnce
<1>5. RecordsOK BY <1>1 DEF RecordsOK
<1>6. FirstPublishedFirst BY <1>1 DEF FirstPublishedFirst
<1>7. HandledInOrder BY <1>1 DEF HandledInOrder
<1> QED BY <1>3, <1>4, <1>5, <1>6, <1>7 DEF TopicsInv

LEMMA StutterTopics == ASSUME IInv, TopicsInv, UNCHANGED vars PROVE TopicsInv'
<1>1. UNCHANGED <<callback, log, replicated, inflight, worker, consumed,
                  received, incidents>> /\ UNCHANGED workerVars
  BY DEF vars, brokerVars, workerVars
<1>2. \A m \in Messages : Around(m)' => Around(m)
  BY <1>1, SameLogs DEF Around, Answer
<1>3. IInv' BY StutterIInv
<1> QED BY <1>1, <1>2, <1>3, SameLogs, NoBrokerStep, BrokerStep DEF IInv

LEMMA StepTopics == ASSUME IInv, TopicsInv, [Next]_vars PROVE TopicsInv'
<1>1. ASSUME NEW m \in Messages, Arrive(m) \/ Resend(m) PROVE TopicsInv'
  BY <1>1, ArriveTopics, ResendTopics
<1>2. ASSUME NEW k \in Keys, Replicate(k) \/ Failover(k) PROVE TopicsInv'
  BY <1>2, ReplicateTopics, FailoverTopics
<1>3. ASSUME NEW k \in FailureKeys, Consume(k) PROVE TopicsInv'
  BY <1>3, ConsumeTopics
<1>4. ASSUME NEW t \in Tasks, NEW form \in Foreign, WriteForeign(t, form)
      PROVE  TopicsInv'
  BY <1>4, ForeignTopics
<1>5. ASSUME NEW f \in Failures,
             \/ Fail(f) \/ Connect(f) \/ SendReturns(f)
             \/ SendRaises(f) \/ Disconnect(f) \/ Kill(f)
      PROVE  TopicsInv'
  BY <1>5, FailTopics, ConnectTopics, SendReturnsTopics, LeaveTopics
<1>6. CASE StartWorker \/ EndAnnouncement \/ CrashWorker
  BY <1>6, RestartTopics, EndAnnouncementTopics
<1>7. CASE UNCHANGED vars BY <1>7, StutterTopics
<1> QED BY <1>1, <1>2, <1>3, <1>4, <1>5, <1>6, <1>7 DEF Next

THEOREM TopicsInductive == Spec => []TopicsInv
<1>1. Init => TopicsInv BY InitTopics
<1>2. IInv /\ TopicsInv /\ [Next]_vars => TopicsInv' BY StepTopics
<1> QED BY <1>1, <1>2, Inductive, PTL DEF Spec

LEMMA TopicsAreWrittenOnce == ASSUME IInv, TopicsInv PROVE WrittenOnce
<1> SUFFICES ASSUME NEW k \in Keys, NEW n \in DOMAIN log[k], NEW o \in DOMAIN log[k],
                    n # o, Readable(log[k][n]), Readable(log[k][o]),
                    IdempotencyKey(log[k][n]) = IdempotencyKey(log[k][o])
             PROVE  log[k][n].topic = "failures" /\ log[k][n].sender # log[k][o].sender
  BY DEF WrittenOnce
<1> DEFINE m == log[k][n]
           p == log[k][o]
<1>1. n \in 1 .. Len(log[k]) /\ o \in 1 .. Len(log[k])
  BY DEF IInv, TypeOK
<1>2. /\ m \in Messages /\ On(m) /\ PartitionKey(m) = k
      /\ p \in Messages /\ On(p) /\ PartitionKey(p) = k
      /\ m # p
  BY <1>1, RecordsAreAround DEF TopicsInv, RecordsOK
<1>3. IdempotencyKey(m) = IdempotencyKey(p) /\ Readable(m) /\ Readable(p)
  OBVIOUS
<1> HIDE DEF m, p
<1>4. m.topic = p.topic
  <2>1. PartitionKey(m)[1] = m.topic /\ PartitionKey(p)[1] = p.topic
    BY DEF PartitionKey
  <2> QED BY <1>2, <2>1
<1>5. CASE m.topic = "diagnoses"
  BY <1>2, <1>3, <1>4, <1>5 DEF TopicsInv, AnnouncedOnce, Around
<1>6. CASE m.topic # "diagnoses"
  <2>1. /\ m.topic = "failures"
        /\ m = FailureMessage(Attempt(m), m.try)
        /\ p = FailureMessage(Attempt(p), p.try)
    BY <1>2, <1>3, <1>4, <1>6, MessageForms
  <2>2. m.task = p.task /\ m.try = p.try BY <1>3 DEF IdempotencyKey
  <2>3. m.sender # p.sender
    BY <1>2, <2>1, <2>2 DEF Attempt
  <2> QED BY <2>1, <2>3 DEF m, p
<1> QED BY <1>5, <1>6

LEMMA HandledRetriesInOrder == ASSUME IInv, TopicsInv PROVE RetriesInOrder
<1> SUFFICES ASSUME NEW f \in Failures, NEW g \in Failures,
                    f[1] = g[1], f[2] < g[2], callback[f].acked,
                    Message(g) \in received
             PROVE  Message(f) \in received
  BY DEF RetriesInOrder
<1> DEFINE k == PartitionKey(Message(g))
<1>1. k \in Keys BY CallbackType, MessageType
<1>2. PICK o \in 1 .. replicated[k] : o <= consumed[k] + 1 /\ log[k][o] = Message(g)
  BY DEF TopicsInv, HandledInOrder
<1>3. /\ replicated[k] \in Nat /\ consumed[k] \in Nat
      /\ Len(log[k]) \in Nat /\ replicated[k] <= Len(log[k])
  BY <1>1 DEF IInv, TypeOK
<1>4. o \in 1 .. Len(log[k]) BY <1>2, <1>3
<1>5. PICK n \in 1 .. o - 1 : log[k][n] = Message(f)
  BY <1>2, <1>4 DEF TopicsInv, FirstPublishedFirst
<1>6. n \in 1 .. consumed[k] BY <1>2, <1>3, <1>5
<1>7. Readable(log[k][n]) BY <1>5, CallbackMessages DEF Message
<1>8. log[k][n] \in received BY <1>1, <1>6, <1>7 DEF TopicsInv, HandledInOrder
<1> QED BY <1>5, <1>8

(* Whatever is repeated, lost or dies in between, a failure is on its topic *)
(* once and its incident is announced once.                                *)
THEOREM WrittenOnlyOnce == Spec => []WrittenOnce
<1> QED BY Inductive, TopicsInductive, TopicsAreWrittenOnce, PTL

(* The worker hears of the published attempts of a task in their order.    *)
THEOREM AttemptsAreHandledInOrder == Spec => []RetriesInOrder
<1> QED BY Inductive, TopicsInductive, HandledRetriesInOrder, PTL

=============================================================================
