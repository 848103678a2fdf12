----------------------------- MODULE IncidentReads -----------------------------
(***************************************************************************)
(* A request that reads the agent's database while workers and replays     *)
(* write it: the lists, the incident, the trace and the feedback of the    *)
(* API (src/dag_doctor/api/v1/routes), and the search for similar          *)
(* incidents, which a tool makes (tools/similar_incidents.py).             *)
(*                                                                         *)
(* An action is one SQL statement, or one commit: under READ COMMITTED a   *)
(* statement sees what is committed before it, so the statements of one    *)
(* request see different databases.  How investigations come to be stored  *)
(* is Investigator; here they appear, whole, as one row each.              *)
(*                                                                         *)
(* standing and contested are histories; the program keeps neither.        *)
(***************************************************************************)
EXTENDS Integers, Sequences, FiniteSets

CONSTANTS
  IncidentIds,     \* numbers: UUIDs, of which the order matters
  DiagnosisIds,    \* numbers: an investigation has its diagnosis's
  Times,           \* application clocks, which need not agree
  Limits,          \* page sizes, and the tool's argument limit
  CandidateLimit,  \* CANDIDATE_LIMIT
  Score,           \* of every incident, its similarity to the signature
  MinSimilarity,   \* MIN_SIMILARITY
  OtherType,       \* incidents of another exception type
  Any,             \* a filter the caller left out
  MaxRows,         \* bound: incidents and investigations
  MaxReviews       \* bound: reviews by somebody else

ASSUME IdsAreNumbers ==
  /\ IncidentIds \subseteq Nat /\ DiagnosisIds \subseteq Nat /\ Times \subseteq Nat
  /\ IsFiniteSet(IncidentIds) /\ IsFiniteSet(DiagnosisIds)
  /\ Limits \subseteq Nat /\ CandidateLimit \in Nat \ {0} /\ MinSimilarity \in Nat
  /\ Score \in [IncidentIds -> Nat] /\ OtherType \subseteq IncidentIds
  /\ MaxRows \in Nat /\ MaxReviews \in Nat

VARIABLES
  incidents,       \* rows, by id
  investigations,  \* rows, by id; one without a diagnosis has steps only
  reviews,
  op,              \* the request
  target,          \* its incident or diagnosis
  filter, limit,   \* its arguments
  at,              \* "idle", "reading" or "answered"
  cursor,          \* the cursor it came with, if it has one
  pages,           \* lists: the pages so far, as sets of keys
  seen,            \* the others: what each statement returned
  standing,        \* rows that matched ever since the request began
  contested        \* the diagnosis was reviewed meanwhile

tables == <<incidents, investigations, reviews>>

request == <<op, target, filter, limit>>

vars == <<tables, request, at, cursor, pages, seen, standing, contested>>

-----------------------------------------------------------------------------
(* Rows *)

Statuses == {"received", "investigating", "diagnosed", "failed"}

Incident == [received_at : Times, status : Statuses]

Verdicts == {"none", "correct", "incorrect"}

Notes == {"none", "note"}

(* diagnosed: it produced a diagnosis, conclusive or not.                  *)
Investigation ==
  [incident_id : IncidentIds, attempt : Nat \ {0}, diagnosed : BOOLEAN, created_at : Times,
   human_verdict : Verdicts, human_note : Notes]

Known == DOMAIN incidents

Stored == DOMAIN investigations

Of(i) == {d \in Stored : investigations[d].incident_id = i}

Diagnoses == {d \in Stored : investigations[d].diagnosed}

Greatest(S) == CHOOSE n \in S : \A m \in S : m <= n

(* next_attempt.                                                           *)
NextAttempt(i) ==
  LET numbers == {investigations[d].attempt : d \in Of(i) \cap Diagnoses}
  IN  IF numbers = {} THEN 1 ELSE 1 + Greatest(numbers)

-----------------------------------------------------------------------------
(* Lists *)

(* A key is <<timestamp, id>>: what the lists are ordered by, and what a   *)
(* cursor encodes, microseconds and all.                                   *)
Before(k, m) == k[1] < m[1] \/ (k[1] = m[1] /\ k[2] < m[2])

InWindow(t) == filter.since = Any \/ t >= filter.since

MatchingIncidents ==
  {i \in Known : /\ filter.state = Any \/ incidents[i].status = filter.state
                 /\ InWindow(incidents[i].received_at)}

(* Unjudged is not judged wrong.                                           *)
MatchingDiagnoses ==
  {d \in Diagnoses :
     /\ \/ filter.state = Any
        \/ filter.state = "reviewed" /\ investigations[d].human_verdict # "none"
        \/ filter.state = "unreviewed" /\ investigations[d].human_verdict = "none"
     /\ InWindow(investigations[d].created_at)}

Keys ==
  CASE op = "list_incidents" -> {<<incidents[i].received_at, i>> : i \in MatchingIncidents}
    [] op = "list_diagnoses" -> {<<investigations[d].created_at, d>> : d \in MatchingDiagnoses}
    [] OTHER -> {}

(* The rows after the cursor.                                              *)
AfterCursor_TimeOnly(k, c) == k[1] < c[1]

AfterCursor_Inclusive(k, c) == k[1] < c[1] \/ (k[1] = c[1] /\ k[2] <= c[2])

AfterCursor(k, c) == k[1] < c[1] \/ (k[1] = c[1] /\ k[2] < c[2])

Rest == {k \in Keys : \A c \in cursor : AfterCursor(k, c)}

Newest(S, n) == {k \in S : Cardinality({m \in S : Before(k, m)}) < n}

(* One row more than asked for tells whether there is another page.        *)
HasMore == Cardinality(Newest(Rest, limit + 1)) > limit

LastOf(page) == CHOOSE k \in page : \A m \in page : ~ Before(m, k)

-----------------------------------------------------------------------------
(* Requests of several statements *)

Statements(request_op) ==
  CASE request_op = "get_incident"      -> <<"incident", "diagnosis">>
    [] request_op = "get_investigation" -> <<"steps", "evidence", "hypotheses", "diagnosis">>
    [] request_op = "search"            -> <<"candidates", "diagnoses", "matches">>
    [] OTHER -> <<>>

(* latest_diagnosis: of the highest attempt.  No filter applies to it.     *)
LatestDiagnosis_ByDate(i) ==
  {d \in Of(i) \cap Diagnoses :
     \A e \in Of(i) \cap Diagnoses :
        investigations[e].created_at <= investigations[d].created_at}

LatestDiagnosis(i) ==
  {d \in Of(i) \cap Diagnoses :
     \A e \in Of(i) \cap Diagnoses : investigations[e].attempt <= investigations[d].attempt}

(* steps, evidence and hypotheses, by the investigation they belong to;    *)
(* filter.state is the attempt asked for.                                  *)
Traced(i) == {d \in Of(i) : filter.state = Any \/ investigations[d].attempt = filter.state}

(* _candidates, for the exception type of the failure: the newest, in any  *)
(* order where clocks tie.                                                 *)
Candidates ==
  LET typed == Known \ OtherType
  IN  {S \in SUBSET typed :
         /\ Cardinality(S) = IF Cardinality(typed) < CandidateLimit
                               THEN Cardinality(typed) ELSE CandidateLimit
         /\ \A i \in S, j \in typed \ S : incidents[j].received_at <= incidents[i].received_at}

(* _diagnoses_for: of every candidate the last by created_at.              *)
DiagnosesFor(S) ==
  {D \in SUBSET {d \in Diagnoses : investigations[d].incident_id \in S} :
     \A i \in S : LET own == D \cap Of(i)
                  IN  /\ Cardinality(own) <= 1
                      /\ Of(i) \cap Diagnoses # {} => own # {}
                      /\ \A d \in own, e \in Of(i) \cap Diagnoses :
                           investigations[e].created_at <= investigations[d].created_at}

Resembling(S) == {i \in S : Score[i] >= MinSimilarity}

(* The closest come first, of equals the later.                            *)
Closer_LaterFirst(i, j) == incidents[i].received_at > incidents[j].received_at

Closer(i, j) ==
  \/ Score[i] > Score[j]
  \/ Score[i] = Score[j] /\ incidents[i].received_at > incidents[j].received_at

(* execute: how many matches are told, and which.                          *)
Told == IF limit < 1 THEN 1 ELSE limit

MatchesIn(S) ==
  {M \in SUBSET Resembling(S) :
     /\ Cardinality(M) = IF Cardinality(Resembling(S)) < Told
                           THEN Cardinality(Resembling(S)) ELSE Told
     /\ \A i \in M, j \in Resembling(S) \ M : ~ Closer(j, i)}

(* What a statement may return.                                            *)
Results(statement) ==
  CASE statement = "incident"   -> {{incidents[target].status}}
    [] statement = "diagnosis"  -> {LatestDiagnosis(target)}
    [] statement = "candidates" -> Candidates
    [] statement = "diagnoses"  -> DiagnosesFor(seen[1])
    [] statement = "matches"    -> MatchesIn(seen[1])
    [] OTHER                    -> {Traced(target)}

-----------------------------------------------------------------------------
(* Whoever writes *)

NoFilter == [state |-> Any, since |-> Any]

Init ==
  /\ incidents = [i \in {} |-> 0] /\ investigations = [d \in {} |-> 0] /\ reviews = 0
  /\ op = "none" /\ target = 0 /\ filter = NoFilter /\ limit = 1
  /\ at = "idle" /\ cursor = {} /\ pages = <<>> /\ seen = <<>>
  /\ standing = {} /\ contested = FALSE

(* A write leaves the request alone, except that a row may stop matching.  *)
Written ==
  /\ at # "answered"
  /\ UNCHANGED <<request, at, cursor, pages, seen>>
  /\ standing' = standing \cap (IF op = "search" THEN Known' ELSE Keys')

RoomForRows == Cardinality(Known) + Cardinality(Stored) < MaxRows

(* A worker commits an incident.  It dated the row before, by its clock.   *)
Receive(i) ==
  /\ i \notin Known /\ RoomForRows
  /\ \E t \in Times :
        incidents' = [j \in Known \cup {i} |->
                        IF j = i THEN [received_at |-> t, status |-> "received"]
                        ELSE incidents[j]]
  /\ UNCHANGED <<investigations, reviews, contested>> /\ Written

Begin(i) ==
  /\ i \in Known /\ incidents[i].status # "investigating"
  /\ incidents' = [incidents EXCEPT ![i].status = "investigating"]
  /\ UNCHANGED <<investigations, reviews, contested>> /\ Written

(* An investigation of i is stored and the status set in one transaction.  *)
(* The diagnosis was dated before that.  Another investigation of i may    *)
(* have set the status meanwhile.                                          *)
Save(d, i) ==
  /\ d \notin Stored /\ RoomForRows
  /\ i \in Known /\ incidents[i].status # "received"
  /\ \E diagnosed \in BOOLEAN, status \in {"diagnosed", "failed"}, t \in Times :
        /\ ~ diagnosed => status = "failed"
        /\ incidents' = [incidents EXCEPT ![i].status = status]
        /\ investigations' =
             [e \in Stored \cup {d} |->
                IF e = d THEN [incident_id |-> i, attempt |-> NextAttempt(i),
                               diagnosed |-> diagnosed, created_at |-> t,
                               human_verdict |-> "none", human_note |-> "none"]
                ELSE investigations[e]]
  /\ UNCHANGED <<reviews, contested>> /\ Written

(* Somebody else's feedback, from its first statement to its commit.       *)
Review(d) ==
  /\ d \in Diagnoses /\ reviews < MaxReviews
  /\ reviews' = reviews + 1
  /\ \E verdict \in Verdicts \ {"none"}, note \in Notes :
        investigations' = [investigations EXCEPT ![d].human_verdict = verdict,
                                                 ![d].human_note = note]
  /\ contested' = (contested \/ (op = "record_feedback" /\ target = d))
  /\ UNCHANGED incidents /\ Written

-----------------------------------------------------------------------------
(* The request *)

Starts(request_op) ==
  /\ at = "idle" /\ at' = "reading" /\ op' = request_op
  /\ UNCHANGED <<tables, cursor, pages, contested>>

ListIncidents ==
  /\ Starts("list_incidents") /\ UNCHANGED seen
  /\ limit' \in Limits \ {0}
  /\ filter' \in [state : {Any, "diagnosed"}, since : Times \cup {Any}]
  /\ standing' = Keys' /\ UNCHANGED target

ListDiagnoses ==
  /\ Starts("list_diagnoses") /\ UNCHANGED seen
  /\ limit' \in Limits \ {0}
  /\ filter' \in [state : {Any, "reviewed", "unreviewed"}, since : Times \cup {Any}]
  /\ standing' = Keys' /\ UNCHANGED target

(* One page.  Without a next cursor the caller is at the end.              *)
ListPage ==
  /\ at = "reading" /\ op \in {"list_incidents", "list_diagnoses"}
  /\ LET page == Newest(Rest, limit)
     IN  /\ pages' = Append(pages, page)
         /\ IF HasMore THEN cursor' = {LastOf(page)} /\ UNCHANGED at
                       ELSE cursor' = {} /\ at' = "answered"
  /\ UNCHANGED <<tables, request, seen, standing, contested>>

(* _require finds the incident; incidents are never deleted.               *)
GetIncident(i) ==
  /\ i \in Known /\ Starts("get_incident") /\ UNCHANGED seen
  /\ target' = i /\ UNCHANGED <<filter, limit, standing>>

GetInvestigation(i) ==
  /\ i \in Known /\ Starts("get_investigation") /\ UNCHANGED seen
  /\ target' = i /\ UNCHANGED <<limit, standing>>
  /\ \E attempt \in {Any, 1, 2} : filter' = [NoFilter EXCEPT !.state = attempt]

SearchSimilarIncidents(i) ==
  /\ i \in Known /\ Starts("search") /\ UNCHANGED seen
  /\ target' = i /\ limit' \in Limits
  /\ standing' = Known /\ UNCHANGED filter

Statement ==
  /\ at = "reading" /\ Len(seen) < Len(Statements(op))
  /\ \E r \in Results(Statements(op)[Len(seen) + 1]) : seen' = Append(seen, r)
  /\ at' = IF Len(seen') = Len(Statements(op)) THEN "answered" ELSE at
  /\ UNCHANGED <<tables, request, cursor, pages, standing, contested>>

(* record_feedback loads the row,                                          *)
LoadDiagnosis(d) ==
  /\ d \in Diagnoses /\ Starts("record_feedback")
  /\ target' = d /\ seen' = <<investigations[d]>>
  /\ UNCHANGED <<filter, limit, standing>>

(* and writes the columns whose value it changed.                          *)
Column_NoNoNote(stored, loaded, given) == IF given = "none" THEN stored ELSE given

Column(stored, loaded, given) == IF given = loaded THEN stored ELSE given

RecordFeedback ==
  /\ at = "reading" /\ op = "record_feedback"
  /\ \E verdict \in Verdicts \ {"none"}, note \in Notes :
        LET row == investigations[target] IN
        /\ investigations' =
             [investigations EXCEPT
                ![target].human_verdict =
                   Column(row.human_verdict, seen[1].human_verdict, verdict),
                ![target].human_note = Column(row.human_note, seen[1].human_note, note)]
        /\ seen' = Append(seen, [seen[1] EXCEPT !.human_verdict = verdict,
                                                !.human_note = note])
  /\ at' = "answered"
  /\ UNCHANGED <<incidents, reviews, request, cursor, pages, standing, contested>>

Next ==
  \/ \E i \in IncidentIds :
        Receive(i) \/ Begin(i) \/ GetIncident(i) \/ GetInvestigation(i)
          \/ SearchSimilarIncidents(i)
  \/ \E d \in DiagnosisIds, i \in IncidentIds : Save(d, i)
  \/ \E d \in DiagnosisIds : Review(d) \/ LoadDiagnosis(d)
  \/ ListIncidents \/ ListDiagnoses \/ ListPage \/ Statement
  \/ RecordFeedback

Spec == Init /\ [][Next]_vars

-----------------------------------------------------------------------------
(* Properties *)

TypeOK ==
  /\ Known \subseteq IncidentIds /\ incidents \in [Known -> Incident]
  /\ Stored \subseteq DiagnosisIds /\ investigations \in [Stored -> Investigation]
  /\ at \in {"idle", "reading", "answered"}
  /\ pages \in Seq(SUBSET (Times \X Nat)) /\ cursor \subseteq Times \X Nat

(* However many pages a list is read in, and whatever is stored meanwhile, *)
(* every item is older than every item of the pages before it: none comes  *)
(* twice and none out of turn (encode_cursor, and the tie-break by id).    *)
PagesDescend ==
  \A p, q \in DOMAIN pages : p < q =>
    \A k \in pages[p], m \in pages[q] : Before(m, k)

(* A row that was there when the reading began and matched throughout is   *)
(* on one of the pages: no page skips it, whatever else comes, goes or is  *)
(* dated alike (Page: rows that land must not shift the reader).           *)
NothingStandingIsSkipped ==
  at = "answered" /\ op \in {"list_incidents", "list_diagnoses"} =>
    standing \subseteq UNION {pages[p] : p \in DOMAIN pages}

(* Answers read by several statements agree with themselves.  An incident  *)
(* told as diagnosed comes with a diagnosis of it (get_incident).  Every   *)
(* investigation whose steps are shown is shown with its evidence and      *)
(* hypotheses, and if it reached a diagnosis, the trace ends with that one *)
(* or a later one (get_investigation; save is one transaction).            *)
AnswersAreWhole ==
  at = "answered" =>
    /\ op = "get_incident" /\ "diagnosed" \in seen[1] =>
         \E d \in seen[2] : investigations[d].incident_id = target
    /\ op = "get_investigation" =>
         /\ seen[1] \subseteq seen[2] /\ seen[2] \subseteq seen[3]
         /\ \A d \in seen[1] \cap Diagnoses : \E k \in seen[4] :
              investigations[d].attempt <= investigations[k].attempt

(* While history is shorter than the candidates looked at, nothing that    *)
(* resembles the failure is passed over for something that resembles it    *)
(* less; at least one match is told whatever limit the model gives.        *)
NothingCloserIsPassedOver ==
  at = "answered" /\ op = "search" /\ Cardinality(Known \ OtherType) <= CandidateLimit =>
    \A i \in Resembling(standing \ OtherType) \ seen[3] :
      /\ Cardinality(seen[3]) >= limit /\ seen[3] # {}
      /\ \A j \in seen[3] : Score[j] >= Score[i]

(* Feedback that nobody else's crossed stands as it was given, the note    *)
(* with its verdict, and so it was answered (record_feedback).             *)
FeedbackStands ==
  at = "answered" /\ op = "record_feedback" /\ ~ contested =>
    /\ investigations[target].human_verdict = seen[2].human_verdict
    /\ investigations[target].human_note = seen[2].human_note
=============================================================================
