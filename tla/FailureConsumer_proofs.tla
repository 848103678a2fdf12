------------------------ MODULE FailureConsumer_proofs ------------------------
(***************************************************************************)
(* Proofs about FailureConsumer, for any number of workers, partitions and *)
(* records, any retry limit and any behaviour of the dead-letter topic.    *)
(***************************************************************************)
EXTENDS FailureConsumer, SequenceTheorems, TLAPS

-----------------------------------------------------------------------------
(* Types *)

LEMMA InitTypeOK == Init => TypeOK
<1> SUFFICES ASSUME Init PROVE TypeOK
  OBVIOUS
<1> USE DEF Init
<1>1. log \in [Partitions -> Seq(Payloads)]
  BY EmptySeq
<1>2. \A w \in Workers : ~Busy(w)
  BY DEF Busy
<1>3. phase \in [Workers -> Phases]
  BY DEF Phases
<1>4. attempt \in [Workers -> 1 .. MaxAttempts]
  BY BoundsAreNaturals
<1> QED BY <1>1, <1>2, <1>3, <1>4 DEF TypeOK

(* Leaving the group keeps every partition's owner a worker or nobody.     *)
LEMMA LeaveType ==
  ASSUME NEW w, owner \in [Partitions -> Workers \cup {NoWorker}], Leave(w)
  PROVE  /\ owner' \in [Partitions -> Workers \cup {NoWorker}]
         /\ \A p \in Partitions :
               owner'[p] = IF owner[p] = w THEN NoWorker ELSE owner[p]
  BY DEF Leave

LEMMA EndIterationType ==
  ASSUME NEW w \in Workers, TypeOK, EndIteration(w)
  PROVE  /\ owner' \in [Partitions -> Workers \cup {NoWorker}]
         /\ phase' \in [Workers -> Phases]
         /\ phase'[w] \in {"idle", "down"}
         /\ \A v \in Workers \ {w} : phase'[v] = phase[v]
         /\ \A p \in Partitions : owner'[p] \in {owner[p], NoWorker}
<1> USE DEF EndIteration, TypeOK
<1>1. NextPhase(w) \in {"idle", "down"}
  BY DEF NextPhase
<1>2. CASE NextPhase(w) = "down"
  BY <1>2, LeaveType DEF Phases
<1>3. CASE NextPhase(w) = "idle"
  BY <1>3 DEF Phases
<1> QED BY <1>1, <1>2, <1>3

(* The record a busy worker holds is a partition and an offset.            *)
LEMMA BusyRecord ==
  ASSUME TypeOK, NEW w \in Workers, Busy(w)
  PROVE  /\ record[w] = <<record[w][1], record[w][2]>>
         /\ record[w][1] \in Partitions
         /\ record[w][2] \in Nat
         /\ record[w] \in Records
  BY DEF TypeOK, Records

LEMMA NextTypeOK == TypeOK /\ [Next]_vars => TypeOK'
<1> SUFFICES ASSUME TypeOK, [Next]_vars PROVE TypeOK'
  OBVIOUS
<1> USE DEF TypeOK, groupVars, workerVars, historyVars, boundVars
<1>1. ASSUME NEW p \in Partitions, Publish(p) PROVE TypeOK'
  <2>1. PICK payload \in Payloads : log' = [log EXCEPT ![p] = Append(@, payload)]
    BY <1>1 DEF Publish
  <2>2. Append(log[p], payload) \in Seq(Payloads)
    BY AppendProperties
  <2>3. log' \in [Partitions -> Seq(Payloads)]
    BY <2>1, <2>2
  <2> QED BY <1>1, <2>3 DEF Publish, Busy
<1>2. ASSUME NEW p \in Partitions, Assign(p) PROVE TypeOK'
  <2>1. owner' \in [Partitions -> Workers \cup {NoWorker}]
    BY <1>2 DEF Assign
  <2>2. position' \in [Partitions -> Nat]
    BY <1>2 DEF Assign, StartingOffset
  <2> QED BY <1>2, <2>1, <2>2 DEF Assign, Busy
<1>3. ASSUME NEW p \in Partitions, Revoke(p) PROVE TypeOK'
  BY <1>3 DEF Revoke, Busy
<1>4. ASSUME NEW w \in Workers, Start(w) PROVE TypeOK'
  BY <1>4 DEF Start, Busy, Phases
<1>5. ASSUME NEW w \in Workers, Fetch(w) PROVE TypeOK'
  <2>1. PICK p \in Partitions :
           /\ position' = [position EXCEPT ![p] = @ + 1]
           /\ record' = [record EXCEPT ![w] = <<p, position[p]>>]
           /\ taken' = taken \cup {<<p, position[p]>>}
           /\ phase' = [phase EXCEPT ![w] =
                          IF Payload(<<p, position[p]>>) = "failure"
                            THEN "handling" ELSE "parking"]
    BY <1>5 DEF Fetch
  <2>2. <<p, position[p]>> \in Records
    BY DEF Records
  <2>3. /\ record' \in [Workers -> Records \cup {<<>>}]
        /\ record'[w] \in Records
        /\ \A v \in Workers \ {w} : record'[v] = record[v]
    BY <2>1, <2>2
  <2>4. /\ phase' \in [Workers -> Phases]
        /\ \A v \in Workers \ {w} : phase'[v] = phase[v]
    BY <2>1 DEF Phases
  <2>5. \A v \in Workers : Busy(v)' => record'[v] \in Records
    <3> SUFFICES ASSUME NEW v \in Workers, v # w, Busy(v)'
                 PROVE  record'[v] \in Records
      BY <2>3
    <3>1. Busy(v)
      BY <2>4 DEF Busy
    <3> QED BY <2>3, <3>1
  <2>6. position' \in [Partitions -> Nat] /\ taken' \subseteq Records
    <3>1. position[p] + 1 \in Nat
      OBVIOUS
    <3>2. position' \in [Partitions -> Nat]
      BY <2>1, <3>1
    <3>3. taken' \subseteq Records
      BY <2>1, <2>2
    <3> QED BY <3>2, <3>3
  <2>7. attempt' \in [Workers -> 1 .. MaxAttempts]
    BY <1>5, BoundsAreNaturals DEF Fetch
  <2> QED BY <1>5, <2>3, <2>4, <2>5, <2>6, <2>7 DEF Fetch
<1>6. ASSUME NEW w \in Workers, HandlerReturns(w) PROVE TypeOK'
  <2>1. record[w] \in Records
    BY <1>6, BusyRecord DEF HandlerReturns, Busy
  <2> QED BY <1>6, <2>1 DEF HandlerReturns, Busy, Phases
<1>7. ASSUME NEW w \in Workers, HandlerRejects(w) PROVE TypeOK'
  BY <1>7 DEF HandlerRejects, Busy, Phases
<1>8. ASSUME NEW w \in Workers, HandlerRaises(w) PROVE TypeOK'
  <2>1. record[w] \in Records
    BY <1>8, BusyRecord DEF HandlerRaises, Busy
  <2>2. CASE LastAttempt(w)
    BY <1>8, <2>1, <2>2 DEF HandlerRaises, Busy, Phases
  <2>3. CASE ~LastAttempt(w)
    <3>1. attempt' = [attempt EXCEPT ![w] = @ + 1]
      BY <1>8, <2>3 DEF HandlerRaises
    <3>2. attempt[w] + 1 \in 1 .. MaxAttempts
      BY <2>3, BoundsAreNaturals DEF LastAttempt
    <3>3. attempt' \in [Workers -> 1 .. MaxAttempts]
      BY <3>1, <3>2
    <3> QED BY <1>8, <2>3, <3>3 DEF HandlerRaises, Busy
  <2> QED BY <2>2, <2>3
<1>9. ASSUME NEW w \in Workers, Park(w) PROVE TypeOK'
  <2>1. record[w] \in Records
    BY <1>9, BusyRecord DEF Park, Busy
  <2>2. parked' \subseteq Records /\ unparked' \subseteq Records
    BY <1>9, <2>1 DEF Park
  <2>3. /\ phase' \in [Workers -> Phases]
        /\ owner' \in [Partitions -> Workers \cup {NoWorker}]
        /\ \A v \in Workers \ {w} : phase'[v] = phase[v]
    <3>1. CASE EndIteration(w)
      BY <3>1, EndIterationType
    <3>2. CASE ~EndIteration(w)
      BY <1>9, <3>2 DEF Park, Phases
    <3> QED BY <3>1, <3>2
  <2>4. \A v \in Workers : Busy(v)' => record'[v] \in Records
    BY <1>9, <2>1, <2>3 DEF Park, Busy
  <2> QED BY <1>9, <2>2, <2>3, <2>4 DEF Park
<1>10. ASSUME NEW w \in Workers, Commit(w) PROVE TypeOK'
  <2> DEFINE p == record[w][1]
  <2>1. p \in Partitions /\ record[w][2] \in Nat /\ record[w] \in Records
    BY <1>10, BusyRecord DEF Commit, Busy
  <2>2. CASE owner[p] = w
    <3>1. /\ committed' = [committed EXCEPT ![p] = record[w][2] + 1]
          /\ EndIteration(w)
      BY <1>10, <2>2 DEF Commit, CommitOffset
    <3>2. committed' \in [Partitions -> Nat]
      BY <2>1, <3>1
    <3>3. /\ phase' \in [Workers -> Phases]
          /\ owner' \in [Partitions -> Workers \cup {NoWorker}]
          /\ phase'[w] \in {"idle", "down"}
          /\ \A v \in Workers \ {w} : phase'[v] = phase[v]
      BY <3>1, EndIterationType
    <3>4. \A v \in Workers : Busy(v)' => record'[v] \in Records
      BY <1>10, <3>3 DEF Commit, Busy
    <3> QED BY <1>10, <3>2, <3>3, <3>4 DEF Commit
  <2>3. CASE owner[p] # w
    <3>1. phase' = [phase EXCEPT ![w] = "down"] /\ Leave(w) /\ UNCHANGED committed
      BY <1>10, <2>3 DEF Commit
    <3>2. owner' \in [Partitions -> Workers \cup {NoWorker}]
      BY <3>1, LeaveType
    <3> QED BY <1>10, <3>1, <3>2 DEF Commit, Busy, Phases
  <2> QED BY <2>2, <2>3
<1>11. ASSUME NEW w \in Workers, RequestStop(w) PROVE TypeOK'
  BY <1>11 DEF RequestStop, Busy
<1>12. ASSUME NEW w \in Workers, Crash(w) PROVE TypeOK'
  <2>1. owner' \in [Partitions -> Workers \cup {NoWorker}]
    BY <1>12, LeaveType DEF Crash
  <2> QED BY <1>12, <2>1 DEF Crash, Busy, Phases
<1>13. CASE UNCHANGED vars
  BY <1>13 DEF vars, Busy
<1> QED
  BY <1>1, <1>2, <1>3, <1>4, <1>5, <1>6, <1>7, <1>8, <1>9, <1>10, <1>11,
     <1>12, <1>13 DEF Next

(* However workers crash, stop, restart and lose partitions, the state of  *)
(* the group and of every worker keeps its type: no delivery is attempted  *)
(* more often than the limit, and a busy worker holds a record.            *)
THEOREM TypeCorrect == Spec => []TypeOK
<1>1. Init => TypeOK
  BY InitTypeOK
<1>2. TypeOK /\ [Next]_vars => TypeOK'
  BY NextTypeOK
<1> QED BY <1>1, <1>2, PTL DEF Spec

-----------------------------------------------------------------------------
(* Why nothing is skipped.  A partition is read from its committed offset, *)
(* and its owner takes a record only with empty hands, so everything below *)
(* the owner's position is finished but the record it holds.  A commit is  *)
(* for a record with nothing unfinished before it, even when the partition *)
(* has been to another worker and back since the record was taken.         *)

(* Finished with: handled, parked, or given up on by a failed write.       *)
Done == Settled \cup unparked

ReadIsDone ==
  \A p \in Partitions : owner[p] # NoWorker =>
     \A o \in 0 .. position[p] - 1 :
        <<p, o>> \in Done \/ (Busy(owner[p]) /\ record[owner[p]] = <<p, o>>)

CommittingIsSettled ==
  \A w \in Workers : phase[w] = "committing" => record[w] \in Settled

OffsetInv ==
  /\ TypeOK
  /\ NothingSkipped /\ AcknowledgedIsSettled
  /\ InOrder /\ ReadIsDone /\ CommittingIsSettled

LEMMA InitOffset == Init => OffsetInv
<1> SUFFICES ASSUME Init PROVE OffsetInv
  OBVIOUS
<1>1. TypeOK
  BY InitTypeOK
<1>2. NothingSkipped /\ AcknowledgedIsSettled
  BY DEF Init, NothingSkipped, AcknowledgedIsSettled
<1>3. InOrder /\ CommittingIsSettled
  BY DEF Init, InOrder, CommittingIsSettled, Busy
<1>4. ReadIsDone
  BY DEF Init, ReadIsDone
<1> QED BY <1>1, <1>2, <1>3, <1>4 DEF OffsetInv

(* Steps that commit nothing and take nothing: what was done stays done,   *)
(* owners change only to nobody, and a worker that stops being busy has    *)
(* finished its record or left every partition.                            *)
LEMMA OffsetKept ==
  ASSUME OffsetInv,
         UNCHANGED <<committed, position, record>>,
         Settled \subseteq Settled', Done \subseteq Done',
         \A p \in Partitions : owner'[p] \in {owner[p], NoWorker},
         \A w \in Workers : Busy(w)' => Busy(w),
         \A w \in Workers :
            phase'[w] = "committing" =>
               phase[w] = "committing" \/ record[w] \in Settled',
         \A w \in Workers :
            \/ Busy(w) => Busy(w)' \/ record[w] \in Done'
            \/ \A p \in Partitions : owner'[p] # w
  PROVE  /\ NothingSkipped' /\ AcknowledgedIsSettled'
         /\ InOrder' /\ ReadIsDone' /\ CommittingIsSettled'
<1> USE DEF OffsetInv
<1>1. NothingSkipped' /\ AcknowledgedIsSettled'
  BY DEF NothingSkipped, AcknowledgedIsSettled, Done
<1>2. InOrder'
  BY DEF InOrder, Done
<1>3. CommittingIsSettled'
  BY DEF CommittingIsSettled
<1>4. ReadIsDone'
  <2> SUFFICES ASSUME NEW p \in Partitions, owner'[p] # NoWorker,
                      NEW o \in 0 .. position[p] - 1,
                      <<p, o>> \notin Done'
               PROVE  (Busy(owner[p]) /\ record[owner[p]] = <<p, o>>)'
    BY DEF ReadIsDone
  <2>1. PICK w \in Workers : owner[p] = w /\ owner'[p] = w
    BY DEF TypeOK
  <2>2. Busy(w) /\ record[w] = <<p, o>>
    BY <2>1, NoWorkerIsNoWorker DEF ReadIsDone
  <2>3. Busy(w)'
    BY <2>1, <2>2
  <2> QED BY <2>1, <2>2, <2>3 DEF Busy
<1> QED BY <1>1, <1>2, <1>3, <1>4

LEMMA NextOffset == OffsetInv /\ [Next]_vars => OffsetInv'
<1> DEFINE Rest == /\ NothingSkipped /\ AcknowledgedIsSettled
                   /\ InOrder /\ ReadIsDone /\ CommittingIsSettled
<1> SUFFICES ASSUME OffsetInv, [Next]_vars PROVE Rest'
  BY NextTypeOK DEF OffsetInv
<1> USE DEF groupVars, workerVars, historyVars, boundVars
<1>0. TypeOK /\ TypeOK'
  BY NextTypeOK DEF OffsetInv
<1>1. ASSUME NEW p \in Partitions, Publish(p) PROVE Rest'
  BY <1>1, OffsetKept DEF Publish, Busy, Settled, Done
<1>2. ASSUME NEW p \in Partitions, Assign(p) PROVE Rest'
  <2>1. /\ UNCHANGED <<committed, phase, record, handled, parked, unparked>>
        /\ position' = [position EXCEPT ![p] = committed[p]]
        /\ \A q \in Partitions \ {p} : owner'[q] = owner[q]
    BY <1>0, <1>2 DEF Assign, StartingOffset, TypeOK
  <2>2. NothingSkipped' /\ AcknowledgedIsSettled' /\ InOrder'
           /\ CommittingIsSettled'
    BY <2>1 DEF OffsetInv, NothingSkipped, AcknowledgedIsSettled, InOrder,
                CommittingIsSettled, Settled, Busy
  <2>3. ReadIsDone'
    <3> SUFFICES ASSUME NEW q \in Partitions, owner'[q] # NoWorker,
                        NEW o \in 0 .. position'[q] - 1,
                        <<q, o>> \notin Done'
                 PROVE  (Busy(owner[q]) /\ record[owner[q]] = <<q, o>>)'
      BY DEF ReadIsDone
    <3>1. Done' = Done
      BY <2>1 DEF Done, Settled
    <3>2. q # p
      <4>1. position'[p] = committed[p]
        BY <1>0, <2>1 DEF TypeOK
      <4>2. \A i \in 0 .. committed[p] - 1 : <<p, i>> \in Done
        BY DEF OffsetInv, NothingSkipped, Done
      <4> QED BY <3>1, <4>1, <4>2
    <3>3. position'[q] = position[q] /\ owner'[q] = owner[q]
      BY <1>0, <2>1, <3>2 DEF TypeOK
    <3>4. Busy(owner[q]) /\ record[owner[q]] = <<q, o>>
      BY <3>1, <3>3 DEF OffsetInv, ReadIsDone
    <3> QED BY <2>1, <3>3, <3>4 DEF Busy
  <2> QED BY <2>2, <2>3
<1>3. ASSUME NEW p \in Partitions, Revoke(p) PROVE Rest'
  BY <1>0, <1>3, OffsetKept DEF Revoke, Busy, Settled, Done, TypeOK
<1>4. ASSUME NEW w \in Workers, Start(w) PROVE Rest'
  BY <1>0, <1>4, OffsetKept DEF Start, Busy, Settled, Done, TypeOK
<1>5. ASSUME NEW w \in Workers, Fetch(w) PROVE Rest'
  <2>1. PICK p \in Partitions :
           /\ owner[p] = w
           /\ position' = [position EXCEPT ![p] = @ + 1]
           /\ record' = [record EXCEPT ![w] = <<p, position[p]>>]
           /\ phase' = [phase EXCEPT ![w] =
                          IF Payload(<<p, position[p]>>) = "failure"
                            THEN "handling" ELSE "parking"]
    BY <1>5 DEF Fetch
  <2>2. /\ ~Busy(w) /\ Busy(w)' /\ phase'[w] # "committing"
        /\ record'[w] = <<p, position[p]>>
        /\ position[p] \in Nat
        /\ position'[p] = position[p] + 1
        /\ \A q \in Partitions \ {p} : position'[q] = position[q]
        /\ \A v \in Workers \ {w} : record'[v] = record[v] /\ phase'[v] = phase[v]
        /\ UNCHANGED <<committed, owner, handled, parked, unparked>>
    BY <1>0, <1>5, <2>1 DEF Fetch, Busy, TypeOK
  <2>3. Settled' = Settled /\ Done' = Done
    BY <2>2 DEF Settled, Done
  <2>4. \A v \in Workers \ {w} : Busy(v)' <=> Busy(v)
    BY <2>2 DEF Busy
  <2>5. \A q \in Partitions : owner[q] = w =>
           \A o \in 0 .. position[q] - 1 : <<q, o>> \in Done
    BY <1>0, <2>2, NoWorkerIsNoWorker DEF OffsetInv, ReadIsDone
  <2>6. NothingSkipped' /\ AcknowledgedIsSettled'
    BY <2>2, <2>3 DEF OffsetInv, NothingSkipped, AcknowledgedIsSettled, Done
  <2>7. CommittingIsSettled'
    BY <2>2, <2>3 DEF OffsetInv, CommittingIsSettled
  <2>8. InOrder'
    <3> SUFFICES ASSUME NEW v \in Workers, Busy(v)',
                        NEW o \in 0 .. record'[v][2] - 1
                 PROVE  <<record'[v][1], o>> \in Done'
      BY DEF InOrder, Done
    <3>1. CASE v = w
      BY <2>1, <2>2, <2>3, <2>5, <3>1
    <3>2. CASE v # w
      BY <2>2, <2>3, <2>4, <3>2 DEF OffsetInv, InOrder, Done
    <3> QED BY <3>1, <3>2
  <2>9. ReadIsDone'
    <3> SUFFICES ASSUME NEW q \in Partitions, owner'[q] # NoWorker,
                        NEW o \in 0 .. position'[q] - 1,
                        <<q, o>> \notin Done'
                 PROVE  (Busy(owner[q]) /\ record[owner[q]] = <<q, o>>)'
      BY DEF ReadIsDone
    <3>1. PICK v \in Workers : owner[q] = v /\ owner'[q] = v
      BY <1>0, <2>2 DEF TypeOK
    <3>2. CASE q = p
      <4>1. o = position[p] /\ v = w
        BY <2>1, <2>2, <2>3, <2>5, <3>1, <3>2
      <4> QED BY <2>2, <3>1, <3>2, <4>1 DEF Busy
    <3>3. CASE q # p
      <4>1. Busy(v) /\ record[v] = <<q, o>>
        BY <2>2, <2>3, <3>1, <3>3 DEF OffsetInv, ReadIsDone
      <4>2. v # w
        BY <2>2, <4>1
      <4>3. Busy(v)' /\ record'[v] = <<q, o>>
        BY <2>2, <2>4, <4>1, <4>2
      <4> QED BY <3>1, <4>3 DEF Busy
    <3> QED BY <3>2, <3>3
  <2> QED BY <2>6, <2>7, <2>8, <2>9
<1>6. ASSUME NEW w \in Workers, HandlerReturns(w) PROVE Rest'
  <2>1. /\ UNCHANGED <<committed, owner, position, record>>
        /\ record[w] \in Settled'
        /\ Settled \subseteq Settled' /\ Done \subseteq Done'
    BY <1>6 DEF HandlerReturns, Settled, Done
  <2>2. /\ \A v \in Workers : Busy(v)' <=> Busy(v)
        /\ \A v \in Workers : phase'[v] = "committing" =>
              phase[v] = "committing" \/ v = w
    BY <1>0, <1>6 DEF HandlerReturns, Busy, TypeOK
  <2> QED BY <2>1, <2>2, OffsetKept
<1>7. ASSUME NEW w \in Workers, HandlerRejects(w) PROVE Rest'
  BY <1>0, <1>7, OffsetKept DEF HandlerRejects, Busy, Settled, Done, TypeOK
<1>8. ASSUME NEW w \in Workers, HandlerRaises(w) PROVE Rest'
  BY <1>0, <1>8, OffsetKept DEF HandlerRaises, Busy, Settled, Done, TypeOK
<1>9. ASSUME NEW w \in Workers, Park(w) PROVE Rest'
  <2>1. PICK outcome \in ParkOutcomes :
           /\ parked' = IF outcome = "refused" THEN parked
                                               ELSE parked \cup {record[w]}
           /\ unparked' = IF outcome = "written" THEN unparked
                                                 ELSE unparked \cup {record[w]}
           /\ IF MayCommit(outcome)
                THEN /\ phase' = [phase EXCEPT ![w] = "committing"]
                     /\ UNCHANGED owner
                ELSE EndIteration(w)
    BY <1>9 DEF Park
  <2>2. /\ UNCHANGED <<committed, position, record, handled>>
        /\ Settled \subseteq Settled' /\ Done \subseteq Done'
        /\ record[w] \in Done'
        /\ outcome = "written" => record[w] \in Settled'
        /\ Busy(w)
    BY <1>9, <2>1 DEF Park, Settled, Done, Busy
  <2>3. /\ \A p \in Partitions : owner'[p] \in {owner[p], NoWorker}
        /\ \A v \in Workers \ {w} : phase'[v] = phase[v]
        /\ phase'[w] = "committing" => outcome = "written"
    <3>1. CASE MayCommit(outcome)
      BY <1>0, <2>1, <3>1 DEF MayCommit, TypeOK
    <3>2. CASE ~MayCommit(outcome)
      BY <1>0, <2>1, <3>2, EndIterationType
    <3> QED BY <3>1, <3>2
  <2>4. /\ \A v \in Workers : Busy(v)' => Busy(v)
        /\ \A v \in Workers \ {w} : Busy(v) => Busy(v)'
    BY <2>2, <2>3 DEF Busy
  <2> QED BY <2>2, <2>3, <2>4, OffsetKept
<1>10. ASSUME NEW w \in Workers, Commit(w) PROVE Rest'
  <2> DEFINE p == record[w][1]
             o == record[w][2]
  <2>1. /\ record[w] = <<p, o>> /\ p \in Partitions /\ o \in Nat
        /\ Busy(w) /\ record[w] \in Settled
        /\ UNCHANGED <<position, record, handled, parked, unparked>>
        /\ \A i \in 0 .. o - 1 : <<p, i>> \in Done
    BY <1>0, <1>10, BusyRecord
       DEF Commit, Busy, OffsetInv, CommittingIsSettled, InOrder, Done
  <2>2. /\ Settled' = Settled /\ Done' = Done /\ Settled \subseteq Done
    BY <2>1 DEF Settled, Done
  <2>3. CASE owner[p] = w
    <3>1. /\ committed' = [committed EXCEPT ![p] = o + 1]
          /\ EndIteration(w)
      BY <1>10, <2>3 DEF Commit, CommitOffset
    <3>2. /\ phase'[w] \in {"idle", "down"}
          /\ \A v \in Workers \ {w} : phase'[v] = phase[v]
          /\ \A q \in Partitions : owner'[q] \in {owner[q], NoWorker}
      BY <1>0, <3>1, EndIterationType
    <3> HIDE DEF p, o
    <3>3. /\ committed'[p] = o + 1
          /\ \A q \in Partitions \ {p} : committed'[q] = committed[q]
      BY <1>0, <2>1, <3>1 DEF TypeOK
    <3>4. NothingSkipped'
      <4> SUFFICES ASSUME NEW q \in Partitions, NEW i \in 0 .. committed'[q] - 1
                   PROVE  <<q, i>> \in Done'
        BY DEF NothingSkipped, Done
      <4>1. CASE q = p
        <5>1. i \in 0 .. o - 1 \/ i = o
          BY <2>1, <3>3, <4>1
        <5> QED BY <2>1, <2>2, <4>1, <5>1
      <4>2. CASE q # p
        BY <2>2, <3>3, <4>2 DEF OffsetInv, NothingSkipped, Done
      <4> QED BY <4>1, <4>2
    <3>5. AcknowledgedIsSettled'
      <4> SUFFICES ASSUME NEW q \in Partitions, committed'[q] > 0
                   PROVE  <<q, committed'[q] - 1>> \in Settled'
        BY DEF AcknowledgedIsSettled
      <4>1. CASE q = p
        <5>1. committed'[q] - 1 = o
          BY <2>1, <3>3, <4>1
        <5> QED BY <2>1, <2>2, <4>1, <5>1
      <4>2. CASE q # p
        BY <2>2, <3>3, <4>2 DEF OffsetInv, AcknowledgedIsSettled
      <4> QED BY <4>1, <4>2
    <3>6. /\ \A v \in Workers : Busy(v)' => Busy(v)
          /\ \A v \in Workers \ {w} : Busy(v) => Busy(v)'
      BY <2>1, <3>2 DEF Busy
    <3>7. InOrder'
      BY <2>1, <2>2, <3>6 DEF OffsetInv, InOrder, Done
    <3>8. CommittingIsSettled'
      BY <2>1, <2>2, <3>2 DEF OffsetInv, CommittingIsSettled
    <3>9. ReadIsDone'
      <4> SUFFICES ASSUME NEW q \in Partitions, owner'[q] # NoWorker,
                          NEW i \in 0 .. position[q] - 1,
                          <<q, i>> \notin Done'
                   PROVE  (Busy(owner[q]) /\ record[owner[q]] = <<q, i>>)'
        BY <2>1 DEF ReadIsDone
      <4>1. PICK v \in Workers : owner[q] = v /\ owner'[q] = v
        BY <1>0, <3>2 DEF TypeOK
      <4>2. Busy(v) /\ record[v] = <<q, i>>
        BY <2>2, <4>1, NoWorkerIsNoWorker DEF OffsetInv, ReadIsDone
      <4>3. v # w
        BY <2>1, <2>2, <4>2
      <4>4. Busy(v)'
        BY <3>6, <4>2, <4>3
      <4> QED BY <2>1, <4>1, <4>2, <4>4 DEF Busy
    <3> QED BY <3>4, <3>5, <3>7, <3>8, <3>9
  <2>4. CASE owner[p] # w
    <3>1. phase' = [phase EXCEPT ![w] = "down"] /\ Leave(w) /\ UNCHANGED committed
      BY <1>10, <2>4 DEF Commit
    <3>2. \A q \in Partitions :
             owner'[q] = IF owner[q] = w THEN NoWorker ELSE owner[q]
      BY <1>0, <3>1, LeaveType DEF TypeOK
    <3>3. \A q \in Partitions : owner'[q] # w
      BY <3>2, NoWorkerIsNoWorker
    <3>4. /\ \A v \in Workers : Busy(v)' => Busy(v)
          /\ \A v \in Workers \ {w} : Busy(v) => Busy(v)'
          /\ \A v \in Workers : phase'[v] = "committing" => phase[v] = "committing"
      BY <1>0, <3>1 DEF Busy, TypeOK
    <3> QED BY <2>1, <2>2, <3>1, <3>2, <3>3, <3>4, OffsetKept
  <2> QED BY <2>3, <2>4
<1>11. ASSUME NEW w \in Workers, RequestStop(w) PROVE Rest'
  BY <1>11, OffsetKept DEF RequestStop, Busy, Settled, Done
<1>12. ASSUME NEW w \in Workers, Crash(w) PROVE Rest'
  <2>1. /\ phase' = [phase EXCEPT ![w] = "down"] /\ Leave(w)
        /\ UNCHANGED <<committed, position, record, handled, parked, unparked>>
    BY <1>12 DEF Crash
  <2>2. \A q \in Partitions :
           owner'[q] = IF owner[q] = w THEN NoWorker ELSE owner[q]
    BY <1>0, <2>1, LeaveType DEF TypeOK
  <2>3. \A q \in Partitions : owner'[q] # w
    BY <2>2, NoWorkerIsNoWorker
  <2>4. /\ \A v \in Workers : Busy(v)' => Busy(v)
        /\ \A v \in Workers \ {w} : Busy(v) => Busy(v)'
        /\ \A v \in Workers : phase'[v] = "committing" => phase[v] = "committing"
    BY <1>0, <2>1 DEF Busy, TypeOK
  <2>5. Settled' = Settled /\ Done' = Done
    BY <2>1 DEF Settled, Done
  <2> QED BY <2>1, <2>2, <2>3, <2>4, <2>5, OffsetKept
<1>13. CASE UNCHANGED vars
  BY <1>13, OffsetKept DEF vars, Busy, Settled, Done
<1> QED
  BY <1>1, <1>2, <1>3, <1>4, <1>5, <1>6, <1>7, <1>8, <1>9, <1>10, <1>11,
     <1>12, <1>13 DEF Next

(* The inductive invariant behind the offsets: a partition's owner has     *)
(* finished with everything before the record it holds, so a commit, even  *)
(* a late one, covers finished records only.                               *)
THEOREM OffsetInvariant == Spec => []OffsetInv
<1>1. Init => OffsetInv
  BY InitOffset
<1>2. OffsetInv /\ [Next]_vars => OffsetInv'
  BY NextOffset
<1> QED BY <1>1, <1>2, PTL DEF Spec

(* No crash, rebalance, stop or late commit moves an offset past a record  *)
(* no worker finished with.                                                *)
THEOREM OffsetsSkipNothing == Spec => []NothingSkipped
<1>1. OffsetInv => NothingSkipped
  BY DEF OffsetInv
<1> QED BY <1>1, OffsetInvariant, PTL

(* A commit is always for a record that was handled or parked.             *)
THEOREM OffsetsAreEarned == Spec => []AcknowledgedIsSettled
<1>1. OffsetInv => AcknowledgedIsSettled
  BY DEF OffsetInv
<1> QED BY <1>1, OffsetInvariant, PTL

(* Failures of one task instance, which share a partition, are taken in    *)
(* the order they happened.                                                *)
THEOREM RecordsAreInOrder == Spec => []InOrder
<1>1. OffsetInv => InOrder
  BY DEF OffsetInv
<1> QED BY <1>1, OffsetInvariant, PTL

-----------------------------------------------------------------------------
(* Why a stop costs nothing.  As long as no process died, no partition was *)
(* taken away and no dead-letter write raised, a worker owns the partition *)
(* of the record it holds, that record is the only one between the         *)
(* committed offset and the position, and a worker leaves only with empty  *)
(* hands: the next owner starts exactly where this one read last.          *)

Undisturbed == crashes = 0 /\ revokes = 0 /\ unparked = {}

HoldsNext(w) ==
  /\ owner[record[w][1]] = w
  /\ committed[record[w][1]] = record[w][2]
  /\ position[record[w][1]] = record[w][2] + 1

EmptyHanded(p) == \A w \in Workers : Busy(w) => record[w][1] # p

InStep ==
  /\ \A w \in Workers : Busy(w) => HoldsNext(w)
  /\ \A p \in Partitions : EmptyHanded(p) => position[p] = committed[p]
  /\ \A r \in taken : r[2] < position[r[1]]

CalmInv == TypeOK /\ (Undisturbed => InStep)

LEMMA InitCalm == Init => CalmInv
  BY InitTypeOK DEF Init, CalmInv, InStep, Busy

(* A calm step that takes and commits nothing, and takes no partition from *)
(* the worker that holds a record of it.                                   *)
LEMMA CalmKept ==
  ASSUME InStep, TypeOK,
         UNCHANGED <<committed, position, record, taken>>,
         \A w \in Workers : Busy(w)' <=> Busy(w),
         \A w \in Workers : Busy(w) =>
            owner'[record[w][1]] = owner[record[w][1]]
  PROVE  InStep'
  BY DEF InStep, HoldsNext, EmptyHanded

LEMMA NextCalm == CalmInv /\ [Next]_vars => CalmInv'
<1> SUFFICES ASSUME CalmInv, [Next]_vars, Undisturbed' PROVE InStep'
  BY NextTypeOK DEF CalmInv
<1> USE DEF groupVars, workerVars, historyVars, boundVars
<1>0. TypeOK /\ TypeOK'
  BY NextTypeOK DEF CalmInv
<1>1. ASSUME NEW p \in Partitions, Publish(p) PROVE InStep'
  <2>1. Undisturbed
    BY <1>1 DEF Publish, Undisturbed
  <2> QED BY <1>0, <1>1, <2>1, CalmKept DEF Publish, Busy, CalmInv
<1>2. ASSUME NEW p \in Partitions, Assign(p) PROVE InStep'
  <2>1. Undisturbed
    BY <1>2 DEF Assign, Undisturbed
  <2>2. InStep
    BY <2>1 DEF CalmInv
  <2>3. \A w \in Workers : Busy(w) => record[w][1] # p
    BY <1>2, <2>2, NoWorkerIsNoWorker DEF Assign, InStep, HoldsNext
  <2>4. position[p] = committed[p]
    BY <2>2, <2>3 DEF InStep, EmptyHanded
  <2>5. position' = position
    BY <1>0, <1>2, <2>4 DEF Assign, StartingOffset, TypeOK
  <2>6. \A q \in Partitions : q # p => owner'[q] = owner[q]
    BY <1>0, <1>2 DEF Assign, TypeOK
  <2>7. \A w \in Workers : Busy(w) => owner'[record[w][1]] = owner[record[w][1]]
    BY <1>0, <2>3, <2>6, BusyRecord
  <2> QED BY <1>0, <1>2, <2>2, <2>5, <2>7, CalmKept DEF Assign, Busy
<1>3. ASSUME NEW p \in Partitions, Revoke(p) PROVE InStep'
  <2>1. revokes' # 0
    BY <1>0, <1>3 DEF Revoke, TypeOK
  <2> QED BY <2>1 DEF Undisturbed
<1>4. ASSUME NEW w \in Workers, Start(w) PROVE InStep'
  <2>1. Undisturbed
    BY <1>4 DEF Start, Undisturbed
  <2>2. \A v \in Workers : Busy(v)' <=> Busy(v)
    BY <1>0, <1>4 DEF Start, Busy, TypeOK
  <2> QED BY <1>0, <1>4, <2>1, <2>2, CalmKept DEF Start, CalmInv
<1>5. ASSUME NEW w \in Workers, Fetch(w) PROVE InStep'
  <2>1. Undisturbed
    BY <1>5 DEF Fetch, Undisturbed
  <2>2. InStep
    BY <2>1 DEF CalmInv
  <2>3. PICK p \in Partitions :
           /\ owner[p] = w
           /\ position' = [position EXCEPT ![p] = @ + 1]
           /\ record' = [record EXCEPT ![w] = <<p, position[p]>>]
           /\ taken' = taken \cup {<<p, position[p]>>}
           /\ phase' = [phase EXCEPT ![w] =
                          IF Payload(<<p, position[p]>>) = "failure"
                            THEN "handling" ELSE "parking"]
    BY <1>5 DEF Fetch
  <2>4. phase[w] = "idle" /\ UNCHANGED <<committed, owner>>
    BY <1>5 DEF Fetch
  <2>5. EmptyHanded(p) /\ position[p] = committed[p]
    <3>1. EmptyHanded(p)
      BY <2>2, <2>3, <2>4 DEF InStep, HoldsNext, EmptyHanded, Busy
    <3> QED BY <2>2, <3>1 DEF InStep
  <2>6. /\ position[p] \in Nat
        /\ position'[p] = position[p] + 1
        /\ \A q \in Partitions : q # p => position'[q] = position[q]
    BY <1>0, <2>3 DEF TypeOK
  <2>7. /\ record'[w] = <<p, position[p]>>
        /\ \A v \in Workers : v # w => record'[v] = record[v]
    BY <1>0, <2>3 DEF TypeOK
  <2>8. /\ ~Busy(w) /\ Busy(w)'
        /\ \A v \in Workers : v # w => (Busy(v)' <=> Busy(v))
    BY <1>0, <2>3, <2>4 DEF TypeOK, Busy
  <2>9. ASSUME NEW v \in Workers, Busy(v)' PROVE HoldsNext(v)'
    <3>1. CASE v = w
      BY <2>3, <2>4, <2>5, <2>6, <2>7, <3>1 DEF HoldsNext
    <3>2. CASE v # w
      <4>1. Busy(v) /\ record'[v] = record[v]
        BY <2>7, <2>8, <2>9, <3>2
      <4>2. record[v][1] # p /\ record[v][1] \in Partitions
        BY <1>0, <2>5, <4>1, BusyRecord DEF EmptyHanded
      <4>3. HoldsNext(v)
        BY <2>2, <4>1 DEF InStep
      <4> QED BY <2>4, <2>6, <4>1, <4>2, <4>3 DEF HoldsNext
    <3> QED BY <3>1, <3>2
  <2>10. ASSUME NEW q \in Partitions, EmptyHanded(q)'
         PROVE  position'[q] = committed'[q]
    <3>1. q # p
      BY <2>7, <2>8, <2>10 DEF EmptyHanded
    <3>2. EmptyHanded(q)
      BY <2>7, <2>8, <2>10 DEF EmptyHanded
    <3> QED BY <2>2, <2>4, <2>6, <3>1, <3>2 DEF InStep
  <2>11. ASSUME NEW r \in taken' PROVE r[2] < position'[r[1]]
    <3>1. CASE r = <<p, position[p]>>
      BY <2>6, <3>1
    <3>2. CASE r \in taken
      <4>1. r[1] \in Partitions /\ r[2] \in Nat
        BY <1>0, <3>2 DEF TypeOK, Records
      <4>2. r[2] < position[r[1]] /\ position[r[1]] \in Nat
        BY <1>0, <2>2, <3>2, <4>1 DEF InStep, TypeOK
      <4> QED BY <2>6, <4>1, <4>2
    <3> QED BY <2>3, <3>1, <3>2
  <2> QED BY <2>9, <2>10, <2>11 DEF InStep
<1>6. ASSUME NEW w \in Workers,
             HandlerReturns(w) \/ HandlerRejects(w) \/ HandlerRaises(w)
      PROVE  InStep'
  <2>1. /\ Undisturbed
        /\ UNCHANGED <<committed, position, record, taken, owner>>
    BY <1>6 DEF HandlerReturns, HandlerRejects, HandlerRaises, Undisturbed
  <2>2. \A v \in Workers : Busy(v)' <=> Busy(v)
    BY <1>0, <1>6
       DEF HandlerReturns, HandlerRejects, HandlerRaises, Busy, TypeOK
  <2> QED BY <1>0, <2>1, <2>2, CalmKept DEF CalmInv
<1>7. ASSUME NEW w \in Workers, Park(w) PROVE InStep'
  <2>1. PICK outcome \in ParkOutcomes :
          /\ unparked' = IF outcome = "written" THEN unparked
                                                ELSE unparked \cup {record[w]}
          /\ IF MayCommit(outcome)
               THEN /\ phase' = [phase EXCEPT ![w] = "committing"]
                    /\ UNCHANGED owner
               ELSE EndIteration(w)
    BY <1>7 DEF Park
  <2>2. outcome = "written"
    BY <2>1 DEF Undisturbed
  <2>3. /\ unparked' = unparked /\ UNCHANGED owner
        /\ phase' = [phase EXCEPT ![w] = "committing"]
    BY <2>1, <2>2 DEF MayCommit
  <2>4. /\ Undisturbed
        /\ UNCHANGED <<committed, position, record, taken>>
    BY <1>7, <2>3 DEF Park, Undisturbed
  <2>5. \A v \in Workers : Busy(v)' <=> Busy(v)
    BY <1>0, <1>7, <2>3 DEF Park, Busy, TypeOK
  <2> QED BY <1>0, <2>3, <2>4, <2>5, CalmKept DEF CalmInv
<1>8. ASSUME NEW w \in Workers, Commit(w) PROVE InStep'
  <2> DEFINE p == record[w][1]
  <2>1. /\ Undisturbed /\ Busy(w)
        /\ UNCHANGED <<position, record, taken>>
    BY <1>8 DEF Commit, Undisturbed, Busy
  <2>2. InStep
    BY <2>1 DEF CalmInv
  <2>3. HoldsNext(w) /\ p \in Partitions /\ record[w][2] \in Nat
    BY <1>0, <2>1, <2>2, BusyRecord DEF InStep
  <2>4. /\ committed' = [committed EXCEPT ![p] = record[w][2] + 1]
        /\ EndIteration(w)
    BY <1>8, <2>3 DEF Commit, HoldsNext, CommitOffset
  <2>5. /\ phase'[w] \in {"idle", "down"}
        /\ \A v \in Workers : v # w => phase'[v] = phase[v]
    BY <1>0, <2>4, EndIterationType
  <2>6. /\ ~Busy(w)'
        /\ \A v \in Workers : v # w => (Busy(v)' <=> Busy(v))
    BY <2>5 DEF Busy
  <2>7. \A q \in Partitions : owner[q] # w => owner'[q] = owner[q]
    BY <1>0, <2>4 DEF EndIteration, Leave
  <2>8. /\ committed'[p] = position[p]
        /\ \A q \in Partitions : q # p => committed'[q] = committed[q]
    BY <1>0, <2>3, <2>4 DEF HoldsNext, TypeOK
  <2>9. ASSUME NEW v \in Workers, Busy(v)' PROVE HoldsNext(v)'
    <3>1. v # w /\ Busy(v)
      BY <2>6, <2>9
    <3>2. HoldsNext(v) /\ record[v][1] \in Partitions
      BY <1>0, <2>2, <3>1, BusyRecord DEF InStep
    <3>3. owner[record[v][1]] = v
      BY <3>2 DEF HoldsNext
    <3>4. record[v][1] # p
      BY <2>3, <3>1, <3>3 DEF HoldsNext
    <3>5. owner'[record[v][1]] = v
      BY <2>7, <3>1, <3>2, <3>3
    <3>6. committed'[record[v][1]] = committed[record[v][1]]
      BY <2>8, <3>2, <3>4
    <3> QED BY <2>1, <3>2, <3>5, <3>6 DEF HoldsNext
  <2>10. ASSUME NEW q \in Partitions, EmptyHanded(q)'
         PROVE  position'[q] = committed'[q]
    <3>1. CASE q = p
      BY <2>1, <2>8, <3>1
    <3>2. CASE q # p
      <4>1. EmptyHanded(q)
        BY <2>1, <2>6, <2>10, <3>2 DEF EmptyHanded
      <4> QED BY <2>1, <2>2, <2>8, <3>2, <4>1 DEF InStep
    <3> QED BY <3>1, <3>2
  <2> QED BY <2>1, <2>2, <2>9, <2>10 DEF InStep
<1>9. ASSUME NEW w \in Workers, RequestStop(w) PROVE InStep'
  <2>1. Undisturbed
    BY <1>9 DEF RequestStop, Undisturbed
  <2> QED BY <1>0, <1>9, <2>1, CalmKept DEF RequestStop, Busy, CalmInv
<1>10. ASSUME NEW w \in Workers, Crash(w) PROVE InStep'
  <2>1. crashes' # 0
    BY <1>0, <1>10 DEF Crash, TypeOK
  <2> QED BY <2>1 DEF Undisturbed
<1>11. CASE UNCHANGED vars
  <2>1. Undisturbed
    BY <1>11 DEF vars, Undisturbed
  <2> QED BY <1>0, <1>11, <2>1, CalmKept DEF vars, Busy, CalmInv
<1> QED
  BY <1>1, <1>2, <1>3, <1>4, <1>5, <1>6, <1>7, <1>8, <1>9, <1>10, <1>11
     DEF Next

(* What one step may do for a worker with empty hands.                     *)
NoRework ==
  \A w \in Workers :
     (phase[w] = "idle" /\ phase'[w] \in {"handling", "parking"}
        /\ record'[w] \in taken)
     => crashes > 0 \/ revokes > 0 \/ unparked # {}

(* Only a worker's own fetch fills its hands.                              *)
LEMMA OnlyFetchTakes ==
  ASSUME TypeOK, Next, NEW w \in Workers,
         phase[w] = "idle", phase'[w] \in {"handling", "parking"}
  PROVE  Fetch(w)
<1> USE DEF TypeOK, groupVars, workerVars, historyVars, boundVars
<1>1. ASSUME NEW p \in Partitions, Publish(p) \/ Assign(p) \/ Revoke(p)
      PROVE  FALSE
  BY <1>1 DEF Publish, Assign, Revoke
<1>2. ASSUME NEW v \in Workers, Start(v) \/ RequestStop(v) \/ Crash(v)
      PROVE  FALSE
  BY <1>2 DEF Start, RequestStop, Crash
<1>3. ASSUME NEW v \in Workers,
             HandlerReturns(v) \/ HandlerRejects(v) \/ HandlerRaises(v)
      PROVE  FALSE
  BY <1>3 DEF HandlerReturns, HandlerRejects, HandlerRaises
<1>4. ASSUME NEW v \in Workers, Park(v) \/ Commit(v) PROVE FALSE
  <2>1. v # w
    BY <1>4 DEF Park, Commit
  <2>2. phase'[w] = phase[w]
    BY <1>4, <2>1 DEF Park, Commit, EndIteration
  <2> QED BY <2>2
<1>5. ASSUME NEW v \in Workers, Fetch(v) PROVE v = w
  BY <1>5 DEF Fetch
<1> QED BY <1>1, <1>2, <1>3, <1>4, <1>5 DEF Next

LEMMA StepCausesNoRework == CalmInv /\ [Next]_vars => NoRework
<1> SUFFICES ASSUME CalmInv, [Next]_vars, NEW w \in Workers,
                    phase[w] = "idle", phase'[w] \in {"handling", "parking"},
                    record'[w] \in taken
             PROVE  crashes > 0 \/ revokes > 0 \/ unparked # {}
  BY DEF NoRework
<1>1. TypeOK
  BY DEF CalmInv
<1>2. Fetch(w)
  BY <1>1, OnlyFetchTakes DEF vars, workerVars
<1>3. PICK p \in Partitions : record' = [record EXCEPT ![w] = <<p, position[p]>>]
  BY <1>2 DEF Fetch
<1>4. record'[w] = <<p, position[p]>> /\ position[p] \in Nat
  BY <1>1, <1>3 DEF TypeOK
<1>5. ~InStep
  <2>1. ~(position[p] < position[p])
    BY <1>4
  <2> QED BY <1>4, <2>1 DEF InStep
<1>6. ~Undisturbed
  BY <1>5 DEF CalmInv
<1> QED BY <1>1, <1>6 DEF Undisturbed, TypeOK

(* Restarts cost no work of their own: whatever is stopped, started and    *)
(* assigned, a worker takes a record a second time only after a process    *)
(* died, a partition was taken away or a dead-letter write raised.         *)
THEOREM StopsAreClean == Spec => StopsCauseNoRework
<1>1. Init => CalmInv
  BY InitCalm
<1>2. CalmInv /\ [Next]_vars => CalmInv'
  BY NextCalm
<1>3. CalmInv /\ [Next]_vars =>
        [\A w \in Workers :
           (phase[w] = "idle" /\ phase'[w] \in {"handling", "parking"}
              /\ record'[w] \in taken)
           => crashes > 0 \/ revokes > 0 \/ unparked # {}]_vars
  BY StepCausesNoRework DEF NoRework
<1> QED BY <1>1, <1>2, <1>3, PTL DEF Spec, StopsCauseNoRework


=============================================================================
