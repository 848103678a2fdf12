------------------------- MODULE IncidentReads_proofs -------------------------
(***************************************************************************)
(* Proofs about IncidentReads: the lists, the answers put together from    *)
(* several statements, the similarity search and the verdicts, for tables  *)
(* of any size, any page size and any writes between two statements.       *)
(*                                                                         *)
(* The keys of a list are totally ordered, so a page, the newest of what   *)
(* is left, leaves nothing above its last row (PageIsTop), and without a   *)
(* row to spare it leaves nothing at all (LastPage).                       *)
(***************************************************************************)
EXTENDS IncidentReads, FiniteSetTheorems, WellFoundedInduction, TLAPS

-----------------------------------------------------------------------------
(* Finite sets *)

(* A finite set has a minimal element of every strict order on it.         *)
LEMMA MinimalElement ==
  ASSUME NEW S, IsFiniteSet(S), S # {}, NEW R,
         \A x \in S : <<x, x>> \notin R,
         \A x, y, z \in S : <<x, y>> \in R /\ <<y, z>> \in R => <<x, z>> \in R
  PROVE  \E x \in S : \A y \in S : <<y, x>> \notin R
<1> DEFINE below == [x \in S |-> {y \in S : <<y, x>> \in R}]
           sizes == {Cardinality(below[x]) : x \in S}
<1>1. \A x \in S : IsFiniteSet(below[x]) /\ Cardinality(below[x]) \in Nat
  <2>1. \A x \in S : below[x] \in SUBSET S OBVIOUS
  <2> QED BY <2>1, FS_Subset, FS_CardinalityType
<1> HIDE DEF below
<1>2. sizes \subseteq Nat /\ sizes # {}
  BY <1>1
<1>3. PICK n \in sizes : \A m \in sizes : ~ (<<m, n>> \in OpToRel(<, Nat))
  BY <1>2, NatLessThanWellFounded, WFMin
<1>4. PICK x \in S : Cardinality(below[x]) = n
  BY <1>3
<1>5. ASSUME NEW y \in S, <<y, x>> \in R
      PROVE  FALSE
  <2>1. below[y] \subseteq below[x] /\ y \in below[x] /\ y \notin below[y]
    BY <1>5 DEF below
  <2>2. /\ Cardinality(below[y]) <= Cardinality(below[x])
        /\ Cardinality(below[y]) # Cardinality(below[x])
    BY <1>1, <2>1, FS_Subset
  <2>3. Cardinality(below[y]) \in sizes
    OBVIOUS
  <2>4. Cardinality(below[y]) \in Nat /\ n \in Nat
    BY <1>1, <1>4
  <2>5. Cardinality(below[y]) < n
    BY <1>4, <2>2, <2>4
  <2> QED BY <1>3, <2>3, <2>4, <2>5 DEF OpToRel
<1> QED BY <1>5

LEMMA ProperSubset ==
  ASSUME NEW S, IsFiniteSet(S), NEW T \in SUBSET S, NEW x \in S, x \notin T
  PROVE  Cardinality(T) < Cardinality(S) /\ Cardinality(T) \in Nat
<1>1. /\ IsFiniteSet(T) /\ Cardinality(T) <= Cardinality(S)
      /\ Cardinality(T) # Cardinality(S)
  BY FS_Subset
<1> QED BY <1>1, FS_CardinalityType

-----------------------------------------------------------------------------
(* The order of keys *)

LEMMA KeysAreOrdered ==
  ASSUME NEW k \in Times \X Nat, NEW m \in Times \X Nat, NEW n \in Times \X Nat
  PROVE  /\ ~ Before(k, k)
         /\ Before(k, m) /\ Before(m, n) => Before(k, n)
         /\ k # m => Before(k, m) \/ Before(m, k)
         /\ ~ (Before(k, m) /\ Before(m, k))
         /\ AfterCursor(k, m) <=> Before(k, m)
<1>1. /\ k[1] \in Nat /\ k[2] \in Nat /\ m[1] \in Nat /\ m[2] \in Nat
      /\ n[1] \in Nat /\ n[2] \in Nat
  BY IdsAreNumbers
<1>2. k = m <=> k[1] = m[1] /\ k[2] = m[2]
  OBVIOUS
<1> QED BY <1>1, <1>2 DEF Before, AfterCursor

(* The oldest row of a page.                                               *)
LEMMA OldestExists ==
  ASSUME NEW S \in SUBSET (Times \X Nat), IsFiniteSet(S), S # {}
  PROVE  /\ LastOf(S) \in S
         /\ \A m \in S : m = LastOf(S) \/ Before(LastOf(S), m)
<1> DEFINE R == {e \in S \X S : Before(e[1], e[2])}
<1>1. \A x \in S : <<x, x>> \notin R
  BY KeysAreOrdered
<1>2. \A x, y, z \in S : <<x, y>> \in R /\ <<y, z>> \in R => <<x, z>> \in R
  BY KeysAreOrdered
<1>3. \E k \in S : \A m \in S : <<m, k>> \notin R
  <2> HIDE DEF R
  <2> QED BY <1>1, <1>2, MinimalElement
<1>4. \E k \in S : \A m \in S : ~ Before(m, k)
  BY <1>3
<1>5. LastOf(S) \in S /\ \A m \in S : ~ Before(m, LastOf(S))
  BY <1>4 DEF LastOf
<1> QED BY <1>5, KeysAreOrdered

(* The newest row of a set.                                                *)
LEMMA NewestExists ==
  ASSUME NEW S \in SUBSET (Times \X Nat), IsFiniteSet(S), S # {}
  PROVE  \E k \in S : \A m \in S : m = k \/ Before(m, k)
<1> DEFINE R == {e \in S \X S : Before(e[2], e[1])}
<1>1. \A x \in S : <<x, x>> \notin R
  BY KeysAreOrdered
<1>2. \A x, y, z \in S : <<x, y>> \in R /\ <<y, z>> \in R => <<x, z>> \in R
  BY KeysAreOrdered
<1>3. \E k \in S : \A m \in S : <<m, k>> \notin R
  <2> HIDE DEF R
  <2> QED BY <1>1, <1>2, MinimalElement
<1>4. \E k \in S : \A m \in S : ~ Before(k, m)
  BY <1>3
<1> QED BY <1>4, KeysAreOrdered

Above(S, k) == {m \in S : Before(k, m)}

LEMMA NewestIs ==
  ASSUME NEW S, NEW n PROVE Newest(S, n) = {k \in S : Cardinality(Above(S, k)) < n}
BY DEF Newest, Above

(* What a page leaves is before all of the page.                           *)
LEMMA PageIsTop ==
  ASSUME NEW S \in SUBSET (Times \X Nat), IsFiniteSet(S), NEW n \in Nat,
         NEW k \in S \ Newest(S, n), NEW p \in Newest(S, n)
  PROVE  Before(k, p)
<1>1. p \in S /\ k # p /\ Cardinality(Above(S, p)) < n /\ ~ Cardinality(Above(S, k)) < n
  BY NewestIs
<1>2. SUFFICES ASSUME Before(p, k) PROVE FALSE
  BY <1>1, KeysAreOrdered
<1>3. Above(S, k) \subseteq Above(S, p)
  BY <1>1, <1>2, KeysAreOrdered DEF Above
<1>4. IsFiniteSet(Above(S, p)) /\ Above(S, p) \subseteq S
  <2>1. Above(S, p) \in SUBSET S BY DEF Above
  <2> QED BY <2>1, FS_Subset
<1>5. /\ Cardinality(Above(S, k)) <= Cardinality(Above(S, p))
      /\ Cardinality(Above(S, k)) \in Nat /\ Cardinality(Above(S, p)) \in Nat
  BY <1>3, <1>4, FS_Subset, FS_CardinalityType
<1> QED BY <1>1, <1>5

(* With a row in it, what is left yields a page with a row in it.          *)
LEMMA PageIsNotEmpty ==
  ASSUME NEW S \in SUBSET (Times \X Nat), IsFiniteSet(S), S # {}, NEW n \in Nat \ {0}
  PROVE  Newest(S, n) # {}
<1>1. PICK k \in S : \A m \in S : m = k \/ Before(m, k)
  BY NewestExists
<1>2. Above(S, k) = {}
  BY <1>1, KeysAreOrdered DEF Above
<1>3. Cardinality(Above(S, k)) = 0
  BY <1>2, FS_EmptySet
<1> QED BY <1>3, NewestIs

(* When no row is to spare, the page is all that is left.                  *)
LEMMA LastPage ==
  ASSUME NEW S \in SUBSET (Times \X Nat), IsFiniteSet(S), NEW n \in Nat \ {0},
         ~ Cardinality(Newest(S, n + 1)) > n
  PROVE  Newest(S, n) = S
<1> DEFINE N == Newest(S, n + 1)
<1>1. /\ N \in SUBSET S /\ IsFiniteSet(N)
      /\ Cardinality(N) \in Nat /\ Cardinality(N) <= n
  <2>1. N \in SUBSET S BY DEF Newest
  <2>2. IsFiniteSet(N) BY <2>1, FS_Subset
  <2>3. Cardinality(N) \in Nat BY <2>2, FS_CardinalityType
  <2> QED BY <2>1, <2>2, <2>3
<1>2. N = S
  <2>1. SUFFICES ASSUME S \ N # {} PROVE FALSE
    BY <1>1
  <2>2. IsFiniteSet(S \ N) /\ S \ N \in SUBSET (Times \X Nat)
    BY FS_Subset
  <2>3. PICK k \in S \ N : \A m \in S \ N : m = k \/ Before(m, k)
    BY <2>1, <2>2, NewestExists
  <2>4. Above(S, k) \subseteq N
    BY <2>3, KeysAreOrdered DEF Above
  <2>5. Cardinality(Above(S, k)) <= Cardinality(N) /\ Cardinality(Above(S, k)) \in Nat
    BY <1>1, <2>4, FS_Subset, FS_CardinalityType
  <2>6. Cardinality(Above(S, k)) < n + 1
    BY <1>1, <2>5
  <2> QED BY <2>3, <2>6, NewestIs
<1>3. ASSUME NEW k \in S PROVE k \in Newest(S, n)
  <2>1. Above(S, k) \in SUBSET S /\ k \notin Above(S, k)
    BY KeysAreOrdered DEF Above
  <2>2. Cardinality(Above(S, k)) < Cardinality(S) /\ Cardinality(Above(S, k)) \in Nat
    BY <2>1, ProperSubset
  <2>3. Cardinality(Above(S, k)) < n
    BY <1>1, <1>2, <2>2
  <2> QED BY <2>3, NewestIs
<1>4. Newest(S, n) \subseteq S
  BY DEF Newest
<1> QED BY <1>3, <1>4

-----------------------------------------------------------------------------
(* Tables *)

RowsOK ==
  /\ Known \subseteq IncidentIds /\ incidents \in [Known -> Incident]
  /\ Stored \subseteq DiagnosisIds /\ investigations \in [Stored -> Investigation]

(* An incident that has diagnoses has a latest one.                        *)
LEMMA LatestExists ==
  ASSUME RowsOK, NEW i, Of(i) \cap Diagnoses # {}
  PROVE  \E d \in Of(i) \cap Diagnoses :
            /\ d \in LatestDiagnosis(i)
            /\ \A e \in Of(i) \cap Diagnoses :
                 investigations[e].attempt <= investigations[d].attempt
<1> DEFINE own == Of(i) \cap Diagnoses
           R == {e \in own \X own : investigations[e[1]].attempt > investigations[e[2]].attempt}
<1>1. \A d \in own : investigations[d].attempt \in Nat \ {0}
  BY DEF RowsOK, Of, Investigation
<1>2. own \in SUBSET DiagnosisIds /\ IsFiniteSet(own)
  <2>1. own \in SUBSET DiagnosisIds BY DEF RowsOK, Of
  <2> QED BY <2>1, IdsAreNumbers, FS_Subset
<1> HIDE DEF own
<1>3. own # {} BY DEF own
<1>4. \A x \in own : <<x, x>> \notin R BY <1>1
<1>5. \A x, y, z \in own : <<x, y>> \in R /\ <<y, z>> \in R => <<x, z>> \in R
  BY <1>1
<1>6. PICK d \in own : \A e \in own : <<e, d>> \notin R
  <2> HIDE DEF R
  <2> QED BY <1>2, <1>3, <1>4, <1>5, MinimalElement
<1>7. \A e \in own : investigations[e].attempt <= investigations[d].attempt
  <2> SUFFICES ASSUME NEW e \in own
               PROVE  investigations[e].attempt <= investigations[d].attempt
    OBVIOUS
  <2>1. <<e, d>> \in own \X own /\ <<e, d>> \notin R BY <1>6
  <2>2. <<e, d>>[1] = e /\ <<e, d>>[2] = d OBVIOUS
  <2>3. ~(investigations[e].attempt > investigations[d].attempt)
    BY ONLY <2>1, <2>2
  <2>4. investigations[e].attempt \in Nat /\ investigations[d].attempt \in Nat
    BY <1>1, <1>6
  <2> QED BY <2>3, <2>4
<1> QED BY <1>6, <1>7 DEF own, LatestDiagnosis

LEMMA NextAttemptType ==
  ASSUME RowsOK, NEW i \in IncidentIds
  PROVE  NextAttempt(i) \in Nat \ {0}
<1> DEFINE own == Of(i) \cap Diagnoses
           numbers == {investigations[d].attempt : d \in own}
<1>1. \A d \in own : investigations[d].attempt \in Nat \ {0}
  BY DEF RowsOK, Of, Investigation
<1>2. CASE own = {}
  <2>1. numbers = {} BY <1>2
  <2> QED BY <2>1 DEF NextAttempt
<1>3. CASE own # {}
  <2>1. PICK d \in own : \A e \in own : investigations[e].attempt <= investigations[d].attempt
    BY <1>3, LatestExists
  <2> HIDE DEF own
  <2>2. \E n \in numbers : \A m \in numbers : m <= n BY <2>1
  <2>3. Greatest(numbers) \in numbers BY <2>2 DEF Greatest
  <2>4. Greatest(numbers) \in Nat /\ numbers # {} BY <1>1, <2>3
  <2>5. NextAttempt(i) = 1 + Greatest(numbers) BY <2>4 DEF NextAttempt, own
  <2> QED BY <2>4, <2>5
<1> QED BY <1>2, <1>3

LEMMA ReceiveRows == ASSUME RowsOK, NEW i \in IncidentIds, Receive(i) PROVE RowsOK'
<1>1. PICK t \in Times :
        incidents' = [j \in Known \cup {i} |->
                        IF j = i THEN [received_at |-> t, status |-> "received"]
                        ELSE incidents[j]]
  BY DEF Receive
<1>2. [received_at |-> t, status |-> "received"] \in Incident
  BY DEF Incident, Statuses
<1>3. Known' = Known \cup {i} /\ incidents' \in [Known' -> Incident]
  BY <1>1, <1>2 DEF RowsOK, Known
<1>4. Stored' = Stored /\ investigations' = investigations
  BY DEF Receive, Stored
<1> QED BY <1>3, <1>4 DEF RowsOK

LEMMA BeginRows == ASSUME RowsOK, NEW i \in IncidentIds, Begin(i) PROVE RowsOK'
<1>1. Known' = Known /\ Stored' = Stored /\ investigations' = investigations
  BY DEF Begin, Known, Stored, RowsOK
<1>2. incidents' \in [Known -> Incident]
  BY DEF Begin, RowsOK, Incident, Statuses
<1> QED BY <1>1, <1>2 DEF RowsOK

LEMMA SaveRows ==
  ASSUME RowsOK, NEW d \in DiagnosisIds, NEW i \in IncidentIds, Save(d, i) PROVE RowsOK'
<1>1. PICK diagnosed \in BOOLEAN, status \in {"diagnosed", "failed"}, t \in Times :
        /\ incidents' = [incidents EXCEPT ![i].status = status]
        /\ investigations' =
             [e \in Stored \cup {d} |->
                IF e = d THEN [incident_id |-> i, attempt |-> NextAttempt(i),
                               diagnosed |-> diagnosed, created_at |-> t,
                               human_verdict |-> "none", human_note |-> "none"]
                ELSE investigations[e]]
  BY DEF Save
<1> DEFINE row == [incident_id |-> i, attempt |-> NextAttempt(i),
                   diagnosed |-> diagnosed, created_at |-> t,
                   human_verdict |-> "none", human_note |-> "none"]
<1>2. row \in Investigation
  BY NextAttemptType DEF Investigation, Verdicts, Notes
<1> HIDE DEF row
<1>3. investigations' = [e \in Stored \cup {d} |-> IF e = d THEN row ELSE investigations[e]]
  BY <1>1 DEF row
<1>4. Stored' = Stored \cup {d} /\ investigations' \in [Stored' -> Investigation]
  BY <1>2, <1>3 DEF RowsOK, Stored
<1>5. Known' = Known /\ incidents' \in [Known -> Incident]
  BY <1>1 DEF RowsOK, Known, Incident, Statuses
<1> QED BY <1>4, <1>5 DEF RowsOK

LEMMA ReviewRows == ASSUME RowsOK, NEW d \in DiagnosisIds, Review(d) PROVE RowsOK'
<1>1. PICK verdict \in Verdicts, note \in Notes :
        investigations' = [investigations EXCEPT ![d].human_verdict = verdict,
                                                 ![d].human_note = note]
  BY DEF Review
<1>2. incidents' = incidents /\ Known' = Known
  BY DEF Review, Known
<1>3. Stored' = Stored /\ investigations' \in [Stored -> Investigation]
  BY <1>1 DEF RowsOK, Stored, Investigation
<1> QED BY <1>2, <1>3 DEF RowsOK

LEMMA FeedbackRows == ASSUME RowsOK, target \in Stored, RecordFeedback PROVE RowsOK'
<1>1. PICK verdict \in Verdicts, note \in Notes :
        investigations' =
          [investigations EXCEPT
             ![target].human_verdict =
                Column(investigations[target].human_verdict, seen[1].human_verdict, verdict),
             ![target].human_note =
                Column(investigations[target].human_note, seen[1].human_note, note)]
  BY DEF RecordFeedback
<1>2. investigations[target] \in Investigation
  BY DEF RowsOK
<1>3. /\ Column(investigations[target].human_verdict, seen[1].human_verdict, verdict) \in Verdicts
      /\ Column(investigations[target].human_note, seen[1].human_note, note) \in Notes
  BY <1>2 DEF Column, Investigation
<1>4. Stored' = Stored /\ investigations' \in [Stored -> Investigation]
  <2> HIDE DEF Column
  <2> QED BY <1>1, <1>3 DEF RowsOK, Stored, Investigation
<1>5. incidents' = incidents /\ Known' = Known
  BY DEF RecordFeedback, Known
<1> QED BY <1>4, <1>5 DEF RowsOK

LEMMA SameRows == RowsOK /\ UNCHANGED tables => RowsOK'
BY DEF tables, RowsOK, Known, Stored

-----------------------------------------------------------------------------
(* Keys *)

LEMMA KeysAreFinite ==
  ASSUME RowsOK PROVE Keys \in SUBSET (Times \X Nat) /\ IsFiniteSet(Keys)
<1>1. CASE op = "list_incidents"
  <2> DEFINE S == MatchingIncidents
             T == {<<incidents[i].received_at, i>> : i \in S}
             f == [i \in S |-> <<incidents[i].received_at, i>>]
  <2>1. S \in SUBSET IncidentIds /\ \A i \in S : i \in Nat /\ incidents[i].received_at \in Times
    BY IdsAreNumbers DEF MatchingIncidents, RowsOK, Incident
  <2>2. IsFiniteSet(S) BY <2>1, IdsAreNumbers, FS_Subset
  <2>3. Keys = T BY <1>1 DEF Keys
  <2>4. T \in SUBSET (Times \X Nat) BY <2>1
  <2> HIDE DEF S
  <2>5. f \in Surjection(S, T) BY DEF Surjection
  <2>6. IsFiniteSet(T)
    <3> HIDE DEF T, f
    <3> QED BY <2>2, <2>5, FS_Surjection
  <2> QED BY <2>3, <2>4, <2>6
<1>2. CASE op = "list_diagnoses"
  <2> DEFINE S == MatchingDiagnoses
             T == {<<investigations[d].created_at, d>> : d \in S}
             f == [d \in S |-> <<investigations[d].created_at, d>>]
  <2>1. /\ S \in SUBSET DiagnosisIds
        /\ \A d \in S : d \in Nat /\ investigations[d].created_at \in Times
    BY IdsAreNumbers DEF MatchingDiagnoses, Diagnoses, RowsOK, Investigation
  <2>2. IsFiniteSet(S) BY <2>1, IdsAreNumbers, FS_Subset
  <2>3. Keys = T BY <1>2 DEF Keys
  <2>4. T \in SUBSET (Times \X Nat) BY <2>1
  <2> HIDE DEF S
  <2>5. f \in Surjection(S, T) BY DEF Surjection
  <2>6. IsFiniteSet(T)
    <3> HIDE DEF T, f
    <3> QED BY <2>2, <2>5, FS_Surjection
  <2> QED BY <2>3, <2>4, <2>6
<1>3. CASE op \notin {"list_incidents", "list_diagnoses"}
  <2>1. Keys = {} BY <1>3 DEF Keys
  <2> QED BY <2>1, FS_EmptySet
<1> QED BY <1>1, <1>2, <1>3

LEMMA SameKeys == UNCHANGED <<tables, request>> => Keys' = Keys
BY DEF tables, request, Keys, MatchingIncidents, MatchingDiagnoses, InWindow, Known,
       Stored, Diagnoses

-----------------------------------------------------------------------------
(* The list under way *)

Listed == UNION {pages[p] : p \in DOMAIN pages}

Lists == {"list_incidents", "list_diagnoses"}

(* What a list has between two pages: the cursor is below everything       *)
(* listed, and what stood from the start is listed or below the cursor.    *)
Reading ==
  /\ cursor \subseteq Times \X Nat
  /\ standing \subseteq Keys
  /\ pages # <<>> => cursor # {}
  /\ \A c \in cursor, p \in DOMAIN pages : \A k \in pages[p] : c = k \/ Before(c, k)
  /\ \A k \in standing : k \in Listed \/ \A c \in cursor : Before(k, c)

RequestInv ==
  /\ op \in Lists => limit \in Nat \ {0}
  /\ op = "record_feedback" => target \in Stored
  /\ at = "idle" => pages = <<>> /\ cursor = {} /\ op = "none"

IInv ==
  /\ TypeOK /\ RequestInv /\ PagesDescend
  /\ at = "reading" /\ op \in Lists => Reading
  /\ NothingStandingIsSkipped

LEMMA InitIInv == Init => IInv
<1> SUFFICES ASSUME Init PROVE IInv
  OBVIOUS
<1>1. /\ Known = {} /\ Stored = {}
  BY DEF Init, Known, Stored
<1>2. incidents \in [{} -> Incident] /\ investigations \in [{} -> Investigation]
  BY DEF Init
<1>3. pages = <<>> /\ pages \in Seq(SUBSET (Times \X Nat)) /\ cursor = {}
  BY DEF Init
<1>4. TypeOK
  BY <1>1, <1>2, <1>3 DEF Init, TypeOK
<1>5. RequestInv
  BY DEF Init, RequestInv, Lists
<1>6. PagesDescend /\ NothingStandingIsSkipped
  BY DEF Init, PagesDescend, NothingStandingIsSkipped
<1> QED BY <1>4, <1>5, <1>6 DEF Init, IInv

(* A write between two pages.                                              *)
LEMMA WriteKeepsLists ==
  ASSUME IInv, Written, RowsOK', Stored \subseteq Stored' PROVE IInv'
<1>1. UNCHANGED <<request, at, cursor, pages, seen>> /\ at # "answered"
  BY DEF Written
<1>2. TypeOK'
  BY <1>1 DEF IInv, TypeOK, RowsOK
<1>3. RequestInv'
  BY <1>1 DEF IInv, RequestInv, request
<1>4. PagesDescend'
  BY <1>1 DEF IInv, PagesDescend, Before
<1>5. ASSUME at = "reading", op \in Lists PROVE Reading'
  <2>1. op # "search" BY <1>5 DEF Lists
  <2>2. standing' = standing \cap Keys' BY <2>1 DEF Written
  <2> QED BY <1>1, <1>5, <2>2 DEF IInv, Reading, Listed, Before
<1>6. NothingStandingIsSkipped'
  BY <1>1 DEF NothingStandingIsSkipped
<1> QED BY <1>1, <1>2, <1>3, <1>4, <1>5, <1>6 DEF IInv, request, Lists

(* A list begins.                                                          *)
LEMMA StartOfList ==
  ASSUME IInv, NEW o \in Lists, Starts(o), limit' \in Nat \ {0}, standing' = Keys',
         UNCHANGED seen
  PROVE  IInv'
<1>1. /\ UNCHANGED <<tables, cursor, pages, contested>>
      /\ at = "idle" /\ at' = "reading" /\ op' = o
  BY DEF Starts
<1>2. TypeOK'
  <2>1. RowsOK' BY <1>1, SameRows DEF IInv, TypeOK, RowsOK
  <2> QED BY <1>1, <2>1 DEF IInv, TypeOK, RowsOK
<1>3. pages = <<>> /\ cursor = {}
  BY <1>1 DEF IInv, RequestInv
<1>4. RequestInv'
  BY <1>1 DEF RequestInv, Lists
<1>5. PagesDescend'
  BY <1>1, <1>3 DEF PagesDescend
<1>6. Reading'
  BY <1>1, <1>3 DEF Reading
<1>7. NothingStandingIsSkipped'
  BY <1>1 DEF NothingStandingIsSkipped
<1> QED BY <1>2, <1>4, <1>5, <1>6, <1>7 DEF IInv

(* Any other request begins.                                               *)
LEMMA StartOfOther ==
  ASSUME IInv, NEW o, o \notin Lists, Starts(o), o = "record_feedback" => target' \in Stored
  PROVE  IInv'
<1>1. /\ UNCHANGED <<tables, cursor, pages, contested>>
      /\ at = "idle" /\ at' = "reading" /\ op' = o
  BY DEF Starts
<1>2. TypeOK'
  <2>1. RowsOK' BY <1>1, SameRows DEF IInv, TypeOK, RowsOK
  <2> QED BY <1>1, <2>1 DEF IInv, TypeOK, RowsOK
<1>3. Stored' = Stored
  BY <1>1 DEF tables, Stored
<1>4. RequestInv'
  BY <1>1, <1>3 DEF RequestInv
<1>5. PagesDescend'
  BY <1>1 DEF IInv, PagesDescend, Before
<1>6. NothingStandingIsSkipped'
  BY <1>1 DEF NothingStandingIsSkipped
<1> QED BY <1>1, <1>2, <1>4, <1>5, <1>6 DEF IInv

(* A page.                                                                 *)
LEMMA PageKeepsLists == ASSUME IInv, ListPage PROVE IInv'
<1> DEFINE page == Newest(Rest, limit)
           n == Len(pages)
<1>1. /\ at = "reading" /\ op \in Lists
      /\ pages' = Append(pages, page)
      /\ UNCHANGED <<tables, request, seen, standing, contested>>
  BY DEF ListPage, Lists
<1>2. RowsOK /\ limit \in Nat \ {0} /\ Reading /\ PagesDescend
      /\ pages \in Seq(SUBSET (Times \X Nat))
  BY <1>1 DEF IInv, TypeOK, RowsOK, RequestInv
<1>3. Keys \in SUBSET (Times \X Nat) /\ IsFiniteSet(Keys)
  BY <1>2, KeysAreFinite
<1>4. Rest \in SUBSET Keys /\ IsFiniteSet(Rest)
  <2>1. Rest \in SUBSET Keys BY DEF Rest
  <2> QED BY <1>3, <2>1, FS_Subset
<1>5. page \in SUBSET Rest /\ page \in SUBSET (Times \X Nat) /\ IsFiniteSet(page)
  <2>1. page \in SUBSET Rest BY DEF Newest
  <2>2. IsFiniteSet(page) BY <1>4, <2>1, FS_Subset
  <2> QED BY <1>3, <1>4, <2>1, <2>2
<1>6. \A k \in Rest, c \in cursor : Before(k, c)
  BY <1>2, <1>3, <1>4, KeysAreOrdered DEF Rest, Reading
<1> HIDE DEF page
<1>7. /\ pages' \in Seq(SUBSET (Times \X Nat)) /\ pages' # <<>>
      /\ DOMAIN pages = 1 .. n /\ DOMAIN pages' = 1 .. n + 1 /\ n \in Nat
      /\ \A p \in DOMAIN pages : pages'[p] = pages[p] /\ pages[p] \in SUBSET (Times \X Nat)
      /\ pages'[n + 1] = page
  BY <1>1, <1>2, <1>5
<1>8. PagesDescend'
  <2>1. ASSUME NEW p \in DOMAIN pages', NEW q \in DOMAIN pages', p < q,
               NEW k \in pages'[p], NEW m \in pages'[q]
        PROVE  Before(m, k)
    <3>1. p \in DOMAIN pages /\ pages'[p] = pages[p] BY <1>7, <2>1
    <3>2. CASE q \in DOMAIN pages
      BY <1>2, <1>7, <2>1, <3>1, <3>2 DEF PagesDescend
    <3>3. CASE q \notin DOMAIN pages
      <4>1. m \in page BY <1>7, <2>1, <3>3
      <4>2. PICK c \in cursor : c = k \/ Before(c, k)
        BY <1>2, <1>7, <2>1, <3>1 DEF Reading
      <4>3. Before(m, c) BY <1>5, <1>6, <4>1
      <4>4. m \in Times \X Nat /\ c \in Times \X Nat /\ k \in Times \X Nat
        BY <1>2, <1>5, <1>7, <2>1, <3>1, <4>1 DEF Reading
      <4> QED BY <4>2, <4>3, <4>4, KeysAreOrdered
    <3> QED BY <3>2, <3>3
  <2> QED BY <2>1 DEF PagesDescend, Before
<1>9. Listed' = Listed \cup page
  BY <1>7 DEF Listed
<1>10. \A k \in standing : k \in Listed \/ k \in Rest
  <2>1. \A k \in standing : k \in Keys BY <1>2 DEF Reading
  <2>2. \A k \in standing : k \in Listed \/ \A c \in cursor : Before(k, c)
    BY <1>2 DEF Reading
  <2>3. cursor \subseteq Times \X Nat BY <1>2 DEF Reading
  <2> QED BY <1>3, <2>1, <2>2, <2>3, KeysAreOrdered DEF Rest
<1>11. Keys' = Keys
  BY <1>1, SameKeys
<1>12. RequestInv' /\ RowsOK'
  BY <1>1, <1>2, SameRows DEF IInv, RequestInv, ListPage, request, tables, Stored
<1>13. CASE HasMore
  <2>1. cursor' = {LastOf(page)} /\ at' = at
    BY <1>13 DEF ListPage, page
  <2>2. page # {}
    <3>1. Rest # {}
      <4>1. SUFFICES ASSUME Rest = {} PROVE FALSE OBVIOUS
      <4>2. Newest(Rest, limit + 1) = {} BY <4>1 DEF Newest
      <4>3. Cardinality(Newest(Rest, limit + 1)) = 0 BY <4>2, FS_EmptySet
      <4> QED BY <1>2, <1>13, <4>3 DEF HasMore
    <3> QED BY <1>2, <1>3, <1>4, <3>1, PageIsNotEmpty DEF page
  <2>3. LastOf(page) \in page /\ \A m \in page : m = LastOf(page) \/ Before(LastOf(page), m)
    BY <1>5, <2>2, OldestExists
  <2>4. cursor' \subseteq Times \X Nat BY <1>5, <2>1, <2>3
  <2>5. ASSUME NEW p \in DOMAIN pages', NEW k \in pages'[p]
        PROVE  LastOf(page) = k \/ Before(LastOf(page), k)
    <3>1. CASE p \in DOMAIN pages
      <4>1. PICK c \in cursor : c = k \/ Before(c, k)
        BY <1>2, <1>7, <2>5, <3>1 DEF Reading
      <4>2. Before(LastOf(page), c) BY <1>5, <1>6, <2>3
      <4>3. c \in Times \X Nat /\ k \in Times \X Nat /\ LastOf(page) \in Times \X Nat
        BY <1>2, <1>5, <1>7, <2>3, <2>5, <3>1 DEF Reading
      <4> QED BY <4>1, <4>2, <4>3, KeysAreOrdered
    <3>2. CASE p \notin DOMAIN pages
      BY <1>7, <2>3, <2>5, <3>2
    <3> QED BY <3>1, <3>2
  <2>6. ASSUME NEW k \in standing, k \notin Listed'
        PROVE  Before(k, LastOf(page))
    <3>1. k \in Rest \ page BY <1>9, <1>10, <2>6
    <3> QED BY <1>2, <1>3, <1>4, <2>3, <3>1, PageIsTop DEF page
  <2>7. Reading'
    <3>1. standing' \subseteq Keys' BY <1>1, <1>2, <1>11 DEF Reading
    <3>2. \A c \in cursor', p \in DOMAIN pages' : \A k \in pages'[p] : c = k \/ Before(c, k)
      BY <2>1, <2>5
    <3>3. \A k \in standing' : k \in Listed' \/ \A c \in cursor' : Before(k, c)
      BY <1>1, <2>1, <2>6
    <3> QED BY <2>1, <2>4, <3>1, <3>2, <3>3 DEF Reading, Before
  <2>8. TypeOK' BY <1>1, <1>7, <1>12, <2>1, <2>4 DEF TypeOK, RowsOK
  <2>9. NothingStandingIsSkipped' BY <1>1, <2>1 DEF NothingStandingIsSkipped
  <2> QED BY <1>8, <1>12, <2>7, <2>8, <2>9 DEF IInv
<1>14. CASE ~ HasMore
  <2>1. cursor' = {} /\ at' = "answered"
    BY <1>14 DEF ListPage
  <2>2. page = Rest
    <3>1. ~ Cardinality(Newest(Rest, limit + 1)) > limit BY <1>14 DEF HasMore
    <3> QED BY <1>2, <1>3, <1>4, <3>1, LastPage DEF page
  <2>3. standing' \subseteq Listed' BY <1>1, <1>9, <1>10, <2>2
  <2>4. NothingStandingIsSkipped' BY <2>3 DEF NothingStandingIsSkipped, Listed
  <2>5. TypeOK' BY <1>7, <1>12, <2>1 DEF TypeOK, RowsOK
  <2> QED BY <1>8, <1>12, <2>1, <2>4, <2>5 DEF IInv
<1> QED BY <1>13, <1>14

(* A statement of another request, and its answer, touch no list.          *)
LEMMA OtherKeepsLists ==
  ASSUME IInv, op \notin Lists, at = "reading", at' \in {"reading", "answered"}, RowsOK',
         Stored \subseteq Stored', UNCHANGED <<request, cursor, pages>>
  PROVE  IInv'
<1>1. TypeOK'
  BY DEF IInv, TypeOK, RowsOK
<1>2. op' = op /\ RequestInv'
  BY DEF IInv, RequestInv, request
<1>3. PagesDescend'
  BY DEF IInv, PagesDescend, Before
<1>4. NothingStandingIsSkipped'
  BY <1>2 DEF NothingStandingIsSkipped, Lists
<1> QED BY <1>1, <1>2, <1>3, <1>4 DEF IInv

LEMMA StepIInv == IInv /\ [Next]_vars => IInv'
<1> SUFFICES ASSUME IInv, [Next]_vars PROVE IInv'
  OBVIOUS
<1>0. RowsOK
  BY DEF IInv, TypeOK, RowsOK
<1>1. ASSUME NEW i \in IncidentIds, Receive(i) PROVE IInv'
  <2>1. Written /\ Stored' = Stored BY <1>1 DEF Receive, Stored
  <2> QED BY <1>0, <1>1, <2>1, ReceiveRows, WriteKeepsLists
<1>2. ASSUME NEW i \in IncidentIds, Begin(i) PROVE IInv'
  <2>1. Written /\ Stored' = Stored BY <1>2 DEF Begin, Stored
  <2> QED BY <1>0, <1>2, <2>1, BeginRows, WriteKeepsLists
<1>3. ASSUME NEW i \in IncidentIds, NEW d \in DiagnosisIds, Save(d, i) PROVE IInv'
  <2>1. Written /\ Stored' = Stored \cup {d} BY <1>3 DEF Save, Stored
  <2> QED BY <1>0, <1>3, <2>1, SaveRows, WriteKeepsLists
<1>4. ASSUME NEW d \in DiagnosisIds, Review(d) PROVE IInv'
  <2>1. Written BY <1>4 DEF Review
  <2>2. Stored' = Stored BY <1>0, <1>4 DEF Review, Stored, RowsOK
  <2> QED BY <1>0, <1>4, <2>1, <2>2, ReviewRows, WriteKeepsLists
<1>5. CASE ListIncidents
  <2>1. limit' \in Nat \ {0} BY <1>5, IdsAreNumbers DEF ListIncidents
  <2> QED BY <1>5, <2>1, StartOfList DEF ListIncidents, Lists
<1>6. CASE ListDiagnoses
  <2>1. limit' \in Nat \ {0} BY <1>6, IdsAreNumbers DEF ListDiagnoses
  <2> QED BY <1>6, <2>1, StartOfList DEF ListDiagnoses, Lists
<1>7. CASE ListPage
  BY <1>7, PageKeepsLists
<1>8. ASSUME NEW i \in IncidentIds,
             GetIncident(i) \/ GetInvestigation(i) \/ SearchSimilarIncidents(i)
      PROVE  IInv'
  <2>1. \E o \in {"get_incident", "get_investigation", "search"} : Starts(o)
    BY <1>8 DEF GetIncident, GetInvestigation, SearchSimilarIncidents
  <2> QED BY <2>1, StartOfOther DEF Lists
<1>9. ASSUME NEW d \in DiagnosisIds, LoadDiagnosis(d) PROVE IInv'
  <2>1. Starts("record_feedback") /\ target' = d /\ d \in Stored
    BY <1>9 DEF LoadDiagnosis, Diagnoses
  <2> QED BY <2>1, StartOfOther DEF Lists
<1>10. CASE Statement
  <2>1. op \notin Lists
    <3>1. pages \in Seq(SUBSET (Times \X Nat)) BY DEF IInv, TypeOK
    <3>2. ASSUME op \in Lists PROVE Statements(op) = <<>>
      BY <3>2 DEF Statements, Lists
    <3>3. Len(seen) < Len(Statements(op)) BY <1>10 DEF Statement
    <3> QED BY <3>2, <3>3
  <2>2. /\ at = "reading" /\ at' \in {"reading", "answered"}
        /\ UNCHANGED <<tables, request, cursor, pages>>
    BY <1>10 DEF Statement
  <2>3. RowsOK' /\ Stored' = Stored BY <1>0, <2>2, SameRows DEF tables, Stored
  <2> QED BY <2>1, <2>2, <2>3, OtherKeepsLists
<1>11. CASE RecordFeedback
  <2>1. /\ op = "record_feedback" /\ at = "reading" /\ at' = "answered"
        /\ UNCHANGED <<request, cursor, pages>>
    BY <1>11 DEF RecordFeedback
  <2>2. target \in Stored BY <2>1 DEF IInv, RequestInv
  <2>3. RowsOK' BY <1>0, <1>11, <2>2, FeedbackRows
  <2>4. Stored' = Stored BY <1>0, <1>11 DEF RecordFeedback, Stored, RowsOK
  <2> QED BY <2>1, <2>3, <2>4, OtherKeepsLists DEF Lists
<1>12. CASE UNCHANGED vars
  <2>1. UNCHANGED <<tables, request>> BY <1>12 DEF vars
  <2>2. RowsOK' /\ Keys' = Keys /\ Stored' = Stored
    BY <1>0, <2>1, SameRows, SameKeys DEF tables, Stored
  <2>3. TypeOK' BY <1>12, <2>2 DEF IInv, vars, TypeOK, RowsOK
  <2>4. RequestInv' BY <1>12, <2>2 DEF IInv, vars, RequestInv, request
  <2>5. PagesDescend' BY <1>12 DEF IInv, vars, PagesDescend, Before
  <2>6. at = "reading" /\ op \in Lists => Reading'
    BY <1>12, <2>2 DEF IInv, vars, Reading, Listed, Before
  <2>7. NothingStandingIsSkipped'
    BY <1>12 DEF IInv, vars, NothingStandingIsSkipped, request
  <2>8. at' = at /\ op' = op BY <1>12 DEF vars, request
  <2> QED BY <2>3, <2>4, <2>5, <2>6, <2>7, <2>8 DEF IInv
<1> QED BY <1>1, <1>2, <1>3, <1>4, <1>5, <1>6, <1>7, <1>8, <1>9, <1>10, <1>11, <1>12
     DEF Next

(* Rows, pages and cursors keep their shape.                               *)
THEOREM TypeCorrect == Spec => []TypeOK
<1>1. IInv => TypeOK BY DEF IInv
<1> QED BY <1>1, InitIInv, StepIInv, PTL DEF Spec

(* The pages of a list go down, whatever is written between them.          *)
THEOREM PagesGoDown == Spec => []PagesDescend
<1>1. IInv => PagesDescend BY DEF IInv
<1> QED BY <1>1, InitIInv, StepIInv, PTL DEF Spec

(* No page skips what was there from the start and matched throughout.     *)
THEOREM ListsAreComplete == Spec => []NothingStandingIsSkipped
<1>1. IInv => NothingStandingIsSkipped BY DEF IInv
<1> QED BY <1>1, InitIInv, StepIInv, PTL DEF Spec

-----------------------------------------------------------------------------
(* The request of several statements under way *)

Composite == {"get_incident", "get_investigation", "search"}

(* How far it is.                                                          *)
Progress ==
  /\ op \notin Composite \cup {"record_feedback"} => seen = <<>>
  /\ op \in Composite =>
       /\ target \in Known
       /\ seen \in Seq(SUBSET (Statuses \cup Nat))
       /\ Len(seen) <= Len(Statements(op))
       /\ at = "answered" => Len(seen) = Len(Statements(op))
  /\ op = "record_feedback" =>
       /\ seen \in Seq(Investigation) /\ at # "idle"
       /\ at = "reading" => Len(seen) = 1
       /\ at = "answered" => Len(seen) = 2

HasDiagnosis(i) == \E d \in Stored : d \in Of(i) \cap Diagnoses

(* A status and the diagnosis it tells of are stored in one transaction.   *)
DiagnosedHasOne == \A i \in Known : incidents[i].status = "diagnosed" => HasDiagnosis(i)

(* What was returned stays true of later databases.                        *)
IncidentSoFar ==
  op = "get_incident" =>
    /\ Len(seen) >= 1 /\ "diagnosed" \in seen[1] => HasDiagnosis(target)
    /\ Len(seen) >= 2 /\ "diagnosed" \in seen[1] =>
         \E d \in seen[2] : d \in Of(target)

TraceSoFar ==
  op = "get_investigation" =>
    /\ \A n \in 1 .. 3 : Len(seen) >= n => seen[n] \subseteq Traced(target)
    /\ Len(seen) >= 2 => seen[1] \subseteq seen[2]
    /\ Len(seen) >= 3 => seen[2] \subseteq seen[3]
    /\ at = "answered" =>
         \A d \in seen[1] \cap Diagnoses : \E k \in seen[4] :
           investigations[d].attempt <= investigations[k].attempt

SearchSoFar ==
  op = "search" =>
    /\ limit \in Nat /\ standing \subseteq Known
    /\ Len(seen) >= 1 =>
         /\ seen[1] \subseteq Known
         /\ Cardinality(Known \ OtherType) <= CandidateLimit =>
              standing \ OtherType \subseteq seen[1]
    /\ Len(seen) >= 3 =>
         \A i \in Resembling(seen[1]) \ seen[3] :
           /\ Cardinality(seen[3]) >= limit /\ seen[3] # {}
           /\ \A j \in seen[3] : Score[j] >= Score[i]

FeedbackSoFar ==
  op = "record_feedback" /\ at = "reading" /\ ~ contested =>
    /\ investigations[target].human_verdict = seen[1].human_verdict
    /\ investigations[target].human_note = seen[1].human_note

AnswersInv ==
  /\ Progress /\ DiagnosedHasOne
  /\ IncidentSoFar /\ TraceSoFar /\ SearchSoFar
  /\ FeedbackSoFar /\ FeedbackStands

LEMMA Elements ==
  ASSUME NEW S, NEW s \in Seq(S)
  PROVE  /\ Len(s) \in Nat /\ \A n \in 1 .. Len(s) : s[n] \in S
         /\ \A e \in S : /\ Append(s, e) \in Seq(S)
                        /\ Len(Append(s, e)) = Len(s) + 1
                        /\ Append(s, e)[Len(s) + 1] = e
                        /\ \A n \in 1 .. Len(s) : Append(s, e)[n] = s[n]
OBVIOUS

(* A row keeps what tells its place; only a review is written over.        *)
RowsKept ==
  /\ Known \subseteq Known' /\ Stored \subseteq Stored'
  /\ \A d \in Stored :
        /\ investigations'[d].incident_id = investigations[d].incident_id
        /\ investigations'[d].attempt = investigations[d].attempt
        /\ investigations'[d].diagnosed = investigations[d].diagnosed

LEMMA RowsStay ==
  ASSUME RowsKept, UNCHANGED filter, NEW i
  PROVE  /\ Of(i) \subseteq Of(i)' /\ Diagnoses \subseteq Diagnoses'
         /\ Traced(i) \subseteq Traced(i)'
         /\ HasDiagnosis(i) => HasDiagnosis(i)'
BY DEF RowsKept, Of, Diagnoses, Traced, HasDiagnosis

LEMMA KnownGrows ==
  ASSUME RowsOK, RowsOK', Known \subseteq Known'
  PROVE  /\ Cardinality(Known \ OtherType) <= Cardinality(Known' \ OtherType)
         /\ Cardinality(Known \ OtherType) \in Nat
         /\ Cardinality(Known' \ OtherType) \in Nat
<1>1. IsFiniteSet(Known' \ OtherType)
  <2>1. Known' \ OtherType \in SUBSET IncidentIds BY DEF RowsOK
  <2> QED BY <2>1, IdsAreNumbers, FS_Subset
<1>2. Known \ OtherType \subseteq Known' \ OtherType OBVIOUS
<1> QED BY <1>1, <1>2, FS_Subset, FS_CardinalityType

(* Facts of an unfinished answer outlive a write.                          *)
LEMMA WriteKeepsAnswers ==
  ASSUME IInv, AnswersInv, Written, RowsOK', RowsKept, DiagnosedHasOne',
         op = "record_feedback" /\ ~ contested' =>
           /\ ~ contested
           /\ investigations'[target].human_verdict = investigations[target].human_verdict
           /\ investigations'[target].human_note = investigations[target].human_note
  PROVE  AnswersInv'
<1>1. /\ UNCHANGED <<op, target, filter, limit, at, seen>> /\ at # "answered"
      /\ op = "search" => standing' = standing \cap Known'
  BY DEF Written, request
<1>2. RowsOK /\ Known \subseteq Known' BY DEF IInv, TypeOK, RowsOK, RowsKept
<1>3. Progress' BY <1>1, <1>2 DEF AnswersInv, Progress, Statements
<1>4. IncidentSoFar'
  BY <1>1, RowsStay DEF AnswersInv, IncidentSoFar
<1>5. TraceSoFar'
  <2>1. Traced(target) \subseteq Traced(target)' BY <1>1, RowsStay
  <2>2. Traced(target') = Traced(target) BY <1>1
  <2> QED BY <1>1, <2>1, <2>2 DEF AnswersInv, TraceSoFar
<1>6. SearchSoFar'
  <2> SUFFICES ASSUME op = "search" PROVE SearchSoFar'
    BY <1>1 DEF SearchSoFar
  <2>1. standing' \subseteq standing /\ standing' \subseteq Known' BY <1>1
  <2>2. Cardinality(Known' \ OtherType) <= CandidateLimit =>
          Cardinality(Known \ OtherType) <= CandidateLimit
    BY <1>2, KnownGrows, IdsAreNumbers
  <2>3. Len(seen) >= 1 =>
          /\ seen[1] \subseteq Known'
          /\ Cardinality(Known' \ OtherType) <= CandidateLimit =>
               standing' \ OtherType \subseteq seen[1]
    BY <1>2, <2>1, <2>2 DEF AnswersInv, SearchSoFar
  <2>4. Len(seen) >= 3 =>
          \A i \in Resembling(seen[1]) \ seen[3] :
            /\ Cardinality(seen[3]) >= limit /\ seen[3] # {}
            /\ \A j \in seen[3] : Score[j] >= Score[i]
    BY DEF AnswersInv, SearchSoFar
  <2>5. limit' \in Nat BY <1>1 DEF AnswersInv, SearchSoFar
  <2> QED BY <1>1, <2>1, <2>3, <2>4, <2>5 DEF SearchSoFar, Resembling
<1>7. FeedbackSoFar' BY <1>1 DEF AnswersInv, FeedbackSoFar
<1>8. FeedbackStands' BY <1>1 DEF FeedbackStands
<1> QED BY <1>3, <1>4, <1>5, <1>6, <1>7, <1>8 DEF AnswersInv

LEMMA ReceiveAnswers ==
  ASSUME IInv, AnswersInv, NEW i \in IncidentIds, Receive(i) PROVE AnswersInv'
<1>1. RowsOK BY DEF IInv, TypeOK, RowsOK
<1>2. RowsOK' BY <1>1, ReceiveRows
<1>3. PICK t \in Times :
        incidents' = [j \in Known \cup {i} |->
                        IF j = i THEN [received_at |-> t, status |-> "received"]
                        ELSE incidents[j]]
  BY DEF Receive
<1>4. Known' = Known \cup {i} /\ UNCHANGED <<investigations, contested>> /\ i \notin Known
  BY <1>3 DEF Receive, Known
<1>5. RowsKept BY <1>4 DEF RowsKept, Stored
<1>6. DiagnosedHasOne'
  <2>1. \A j \in Known' : \/ j \in Known /\ incidents'[j] = incidents[j]
                          \/ incidents'[j].status = "received"
    BY <1>3, <1>4
  <2>2. \A j : HasDiagnosis(j) => HasDiagnosis(j)'
    BY <1>4 DEF HasDiagnosis, Of, Diagnoses, Stored
  <2> QED BY <2>1, <2>2 DEF AnswersInv, DiagnosedHasOne
<1> QED BY <1>2, <1>4, <1>5, <1>6, WriteKeepsAnswers DEF Receive

LEMMA BeginAnswers ==
  ASSUME IInv, AnswersInv, NEW i \in IncidentIds, Begin(i) PROVE AnswersInv'
<1>1. RowsOK BY DEF IInv, TypeOK, RowsOK
<1>2. RowsOK' BY <1>1, BeginRows
<1>3. /\ i \in Known /\ incidents' = [incidents EXCEPT ![i].status = "investigating"]
      /\ UNCHANGED <<investigations, contested>>
  BY DEF Begin
<1>4. Known' = Known BY <1>3 DEF Known
<1>5. RowsKept BY <1>3, <1>4 DEF RowsKept, Stored
<1>6. DiagnosedHasOne'
  <2>1. \A j \in Known : incidents'[j] = incidents[j] \/ incidents'[j].status # "diagnosed"
    BY <1>1, <1>3 DEF RowsOK, Incident
  <2>2. \A j : HasDiagnosis(j) => HasDiagnosis(j)'
    BY <1>3 DEF HasDiagnosis, Of, Diagnoses, Stored
  <2> QED BY <1>4, <2>1, <2>2 DEF AnswersInv, DiagnosedHasOne
<1> QED BY <1>2, <1>3, <1>5, <1>6, WriteKeepsAnswers DEF Begin

LEMMA SaveAnswers ==
  ASSUME IInv, AnswersInv, NEW d \in DiagnosisIds, NEW i \in IncidentIds, Save(d, i)
  PROVE  AnswersInv'
<1>1. RowsOK BY DEF IInv, TypeOK, RowsOK
<1>2. RowsOK' BY <1>1, SaveRows
<1>3. PICK diagnosed \in BOOLEAN, status \in {"diagnosed", "failed"}, t \in Times :
        /\ ~ diagnosed => status = "failed"
        /\ incidents' = [incidents EXCEPT ![i].status = status]
        /\ investigations' =
             [e \in Stored \cup {d} |->
                IF e = d THEN [incident_id |-> i, attempt |-> NextAttempt(i),
                               diagnosed |-> diagnosed, created_at |-> t,
                               human_verdict |-> "none", human_note |-> "none"]
                ELSE investigations[e]]
  BY DEF Save
<1>4. d \notin Stored /\ i \in Known /\ UNCHANGED contested BY DEF Save
<1>5. /\ Known' = Known /\ Stored' = Stored \cup {d}
      /\ \A e \in Stored : investigations'[e] = investigations[e]
      /\ investigations'[d].incident_id = i /\ investigations'[d].diagnosed = diagnosed
  BY <1>3, <1>4 DEF Known, Stored
<1>6. RowsKept BY <1>5 DEF RowsKept
<1>7. DiagnosedHasOne'
  <2>1. \A j : HasDiagnosis(j) => HasDiagnosis(j)'
    BY <1>5 DEF HasDiagnosis, Of, Diagnoses
  <2>2. \A j \in Known : j # i => incidents'[j] = incidents[j]
    BY <1>1, <1>3 DEF RowsOK
  <2>3. incidents'[i].status = status BY <1>1, <1>3, <1>4 DEF RowsOK, Incident
  <2>4. status = "diagnosed" => HasDiagnosis(i)'
    BY <1>3, <1>5 DEF HasDiagnosis, Of, Diagnoses
  <2> QED BY <1>5, <2>1, <2>2, <2>3, <2>4 DEF AnswersInv, DiagnosedHasOne
<1>8. op = "record_feedback" => investigations'[target] = investigations[target]
  BY <1>5 DEF IInv, RequestInv
<1> QED BY <1>2, <1>4, <1>6, <1>7, <1>8, WriteKeepsAnswers DEF Save

LEMMA ReviewAnswers ==
  ASSUME IInv, AnswersInv, NEW d \in DiagnosisIds, Review(d) PROVE AnswersInv'
<1>1. RowsOK BY DEF IInv, TypeOK, RowsOK
<1>2. RowsOK' BY <1>1, ReviewRows
<1>3. PICK verdict \in Verdicts, note \in Notes :
        investigations' = [investigations EXCEPT ![d].human_verdict = verdict,
                                                 ![d].human_note = note]
  BY DEF Review
<1>4. /\ incidents' = incidents /\ Known' = Known
      /\ contested' = (contested \/ (op = "record_feedback" /\ target = d))
  BY DEF Review, Known
<1>5. Stored' = Stored BY <1>1, <1>3 DEF RowsOK, Stored
<1>6. \A e \in Stored :
        /\ investigations'[e].incident_id = investigations[e].incident_id
        /\ investigations'[e].attempt = investigations[e].attempt
        /\ investigations'[e].diagnosed = investigations[e].diagnosed
        /\ e # d => investigations'[e] = investigations[e]
  BY <1>1, <1>3 DEF RowsOK, Investigation
<1>7. RowsKept BY <1>4, <1>5, <1>6 DEF RowsKept
<1>8. DiagnosedHasOne'
  <2>1. \A j : HasDiagnosis(j) => HasDiagnosis(j)'
    BY <1>5, <1>6 DEF HasDiagnosis, Of, Diagnoses
  <2> QED BY <1>4, <2>1 DEF AnswersInv, DiagnosedHasOne
<1>9. op = "record_feedback" /\ ~ contested' =>
        ~ contested /\ investigations'[target] = investigations[target]
  BY <1>4, <1>6 DEF IInv, RequestInv
<1> QED BY <1>2, <1>7, <1>8, <1>9, WriteKeepsAnswers DEF Review

-----------------------------------------------------------------------------
(* The request's own steps *)

(* A request begins with nothing returned.                                 *)
LEMMA StartOfAnswer ==
  ASSUME IInv, AnswersInv, NEW o, Starts(o), UNCHANGED seen,
         o \in Lists \cup Composite,
         o \in Composite => target' \in Known,
         o = "search" => limit' \in Nat /\ standing' = Known
  PROVE  AnswersInv'
<1>1. /\ UNCHANGED tables /\ at' = "reading" /\ op' = o
      /\ seen' = <<>> /\ Len(seen') = 0 /\ Known' = Known
  BY DEF Starts, AnswersInv, Progress, IInv, RequestInv, Composite, tables, Known
<1>2. o # "record_feedback" BY DEF Lists, Composite
<1>3. Progress'
  <2>1. <<>> \in Seq(SUBSET (Statuses \cup Nat)) OBVIOUS
  <2>2. Len(Statements(o)) \in Nat BY DEF Statements, Lists, Composite
  <2> QED BY <1>1, <1>2, <2>1, <2>2 DEF Progress, Composite
<1>4. DiagnosedHasOne'
  BY <1>1 DEF tables, AnswersInv, DiagnosedHasOne, HasDiagnosis, Of, Diagnoses,
     Stored, Known
<1>5. IncidentSoFar' BY <1>1 DEF IncidentSoFar
<1>6. TraceSoFar' BY <1>1 DEF TraceSoFar
<1>7. SearchSoFar' BY <1>1 DEF SearchSoFar, tables, Known
<1>8. FeedbackSoFar' /\ FeedbackStands'
  BY <1>1, <1>2 DEF FeedbackSoFar, FeedbackStands
<1> QED BY <1>3, <1>4, <1>5, <1>6, <1>7, <1>8 DEF AnswersInv

LEMMA LoadAnswers ==
  ASSUME IInv, AnswersInv, NEW d \in DiagnosisIds, LoadDiagnosis(d) PROVE AnswersInv'
<1>1. /\ UNCHANGED tables /\ at' = "reading" /\ op' = "record_feedback"
      /\ target' = d /\ seen' = <<investigations[d]>> /\ d \in Stored
  BY DEF LoadDiagnosis, Starts, Diagnoses
<1>2. investigations[d] \in Investigation /\ investigations' = investigations
  BY <1>1 DEF IInv, TypeOK, tables
<1>3. seen' \in Seq(Investigation) /\ Len(seen') = 1 /\ seen'[1] = investigations[d]
  BY <1>1, <1>2
<1>4. Progress' BY <1>1, <1>3 DEF Progress, Composite
<1>5. DiagnosedHasOne'
  BY <1>1 DEF tables, AnswersInv, DiagnosedHasOne, HasDiagnosis, Of, Diagnoses,
     Stored, Known
<1>6. IncidentSoFar' /\ TraceSoFar' /\ SearchSoFar'
  BY <1>1 DEF IncidentSoFar, TraceSoFar, SearchSoFar
<1>7. FeedbackSoFar' /\ FeedbackStands'
  BY <1>1, <1>2, <1>3 DEF FeedbackSoFar, FeedbackStands
<1> QED BY <1>4, <1>5, <1>6, <1>7 DEF AnswersInv

(* A page says nothing of the others.                                      *)
LEMMA PageAnswers == ASSUME IInv, AnswersInv, ListPage PROVE AnswersInv'
<1>1. /\ UNCHANGED <<tables, request, seen>> /\ at = "reading"
      /\ at' \in {"reading", "answered"} /\ op \in Lists
  BY DEF ListPage, Lists
<1>2. op' = op /\ op \notin Composite /\ op # "record_feedback"
  BY <1>1 DEF Lists, Composite, request
<1>3. Progress' BY <1>1, <1>2 DEF AnswersInv, Progress
<1>4. DiagnosedHasOne'
  BY <1>1 DEF tables, AnswersInv, DiagnosedHasOne, HasDiagnosis, Of, Diagnoses,
     Stored, Known
<1>5. IncidentSoFar' /\ TraceSoFar' /\ SearchSoFar' /\ FeedbackSoFar' /\ FeedbackStands'
  BY <1>2 DEF IncidentSoFar, TraceSoFar, SearchSoFar, FeedbackSoFar,
     FeedbackStands, Composite
<1> QED BY <1>3, <1>4, <1>5 DEF AnswersInv

LEMMA FeedbackAnswers == ASSUME IInv, AnswersInv, RecordFeedback PROVE AnswersInv'
<1> DEFINE row == investigations[target]
<1>1. /\ at = "reading" /\ at' = "answered" /\ op = "record_feedback"
      /\ UNCHANGED <<incidents, op, target, contested>>
  BY DEF RecordFeedback, request
<1>2. PICK verdict \in Verdicts, note \in Notes :
        /\ investigations' =
             [investigations EXCEPT
                ![target].human_verdict =
                   Column(row.human_verdict, seen[1].human_verdict, verdict),
                ![target].human_note = Column(row.human_note, seen[1].human_note, note)]
        /\ seen' = Append(seen, [seen[1] EXCEPT !.human_verdict = verdict,
                                                !.human_note = note])
  BY DEF RecordFeedback
<1>3. /\ seen \in Seq(Investigation) /\ Len(seen) = 1 /\ seen[1] \in Investigation
      /\ RowsOK /\ target \in Stored /\ row \in Investigation
  <2>1. seen \in Seq(Investigation) /\ Len(seen) = 1
    BY <1>1 DEF AnswersInv, Progress
  <2>2. RowsOK /\ target \in Stored
    BY <1>1 DEF IInv, TypeOK, RowsOK, RequestInv
  <2>3. row \in Investigation BY <2>2 DEF RowsOK
  <2>4. seen[1] \in Investigation BY <2>1, Elements
  <2> HIDE DEF row
  <2> QED BY <2>1, <2>2, <2>3, <2>4
<1>4. /\ seen' \in Seq(Investigation) /\ Len(seen') = 2
      /\ seen'[2].human_verdict = verdict /\ seen'[2].human_note = note
  <2> DEFINE new == [seen[1] EXCEPT !.human_verdict = verdict, !.human_note = note]
  <2>1. new \in Investigation /\ new.human_verdict = verdict /\ new.human_note = note
    BY <1>3 DEF Investigation
  <2>2. seen' = Append(seen, new) BY <1>2
  <2> HIDE DEF new
  <2>3. seen' \in Seq(Investigation) /\ Len(seen') = 2 /\ seen'[2] = new
    BY <1>3, <2>1, <2>2, Elements
  <2> QED BY <2>1, <2>3
<1>5. \A e \in Stored :
        /\ investigations'[e].incident_id = investigations[e].incident_id
        /\ investigations'[e].diagnosed = investigations[e].diagnosed
  BY <1>2, <1>3 DEF RowsOK, Investigation
<1>6. Stored' = Stored /\ Known' = Known
  BY <1>1, <1>2, <1>3 DEF RowsOK, Stored, Known
<1>7. DiagnosedHasOne'
  <2>1. \A j : HasDiagnosis(j) => HasDiagnosis(j)'
    BY <1>5, <1>6 DEF HasDiagnosis, Of, Diagnoses
  <2> QED BY <1>1, <1>6, <2>1 DEF AnswersInv, DiagnosedHasOne
<1>8. FeedbackStands'
  <2>1. investigations'[target].human_verdict =
          Column(row.human_verdict, seen[1].human_verdict, verdict)
        /\ investigations'[target].human_note =
             Column(row.human_note, seen[1].human_note, note)
    BY <1>2, <1>3 DEF RowsOK, Investigation
  <2>2. ~ contested => /\ row.human_verdict = seen[1].human_verdict
                       /\ row.human_note = seen[1].human_note
    BY <1>1 DEF AnswersInv, FeedbackSoFar
  <2>3. ~ contested => /\ investigations'[target].human_verdict = verdict
                       /\ investigations'[target].human_note = note
    BY <2>1, <2>2 DEF Column
  <2> QED BY <1>1, <1>4, <2>3 DEF FeedbackStands
<1>9. Progress' BY <1>1, <1>4 DEF Progress, Composite
<1>10. IncidentSoFar' /\ TraceSoFar' /\ SearchSoFar' /\ FeedbackSoFar'
  BY <1>1 DEF IncidentSoFar, TraceSoFar, SearchSoFar, FeedbackSoFar
<1> QED BY <1>7, <1>8, <1>9, <1>10 DEF AnswersInv

-----------------------------------------------------------------------------
(* One statement more *)

LEMMA SmallNumbers ==
  ASSUME NEW n \in Nat
  PROVE  /\ n < 2 => n = 0 \/ n = 1
         /\ n < 3 => n = 0 \/ n = 1 \/ n = 2
         /\ n < 4 => n < 3 \/ n = 3
OBVIOUS

(* What a statement leaves alone.                                          *)
LEMMA SameFacts ==
  ASSUME UNCHANGED tables, UNCHANGED <<op, target, filter, limit>>
  PROVE  /\ Known' = Known /\ Stored' = Stored /\ UNCHANGED <<incidents, investigations>>
         /\ HasDiagnosis(target)' = HasDiagnosis(target)
         /\ Of(target)' = Of(target) /\ Diagnoses' = Diagnoses
         /\ Traced(target)' = Traced(target)
         /\ DiagnosedHasOne' = DiagnosedHasOne
BY DEF tables, Known, Stored, HasDiagnosis, Of, Diagnoses, Traced, DiagnosedHasOne

LEMMA IncidentStatement ==
  ASSUME IInv, AnswersInv, op = "get_incident",
         Len(seen) < 2, UNCHANGED tables, UNCHANGED request,
         NEW r \in Results(Statements(op)[Len(seen) + 1]), seen' = Append(seen, r)
  PROVE  r \in SUBSET (Statuses \cup Nat) /\ IncidentSoFar'
<1>1. Statements(op) = <<"incident", "diagnosis">> BY DEF Statements
<1>2. seen \in Seq(SUBSET (Statuses \cup Nat)) /\ target \in Known /\ RowsOK
  BY DEF AnswersInv, Progress, Composite, IInv, TypeOK, RowsOK
<1>3. Len(seen) \in Nat BY <1>2, Elements
<1>4. Of(target)' = Of(target) /\ HasDiagnosis(target)' = HasDiagnosis(target) /\ op' = op
  BY SameFacts DEF request
<1>5. CASE Len(seen) = 0
  <2>1. r = {incidents[target].status} BY <1>1, <1>5 DEF Results
  <2>2. incidents[target].status \in Statuses BY <1>2 DEF RowsOK, Incident
  <2>3. r \in SUBSET (Statuses \cup Nat) BY <2>1, <2>2
  <2>4. Len(seen') = 1 /\ seen'[1] = r BY <1>2, <1>5, <2>3, Elements
  <2>5. "diagnosed" \in r => HasDiagnosis(target)
    BY <1>2, <2>1 DEF AnswersInv, DiagnosedHasOne
  <2> QED BY <1>4, <2>3, <2>4, <2>5 DEF IncidentSoFar
<1>6. CASE Len(seen) = 1
  <2>1. r = LatestDiagnosis(target) BY <1>1, <1>6 DEF Results
  <2>2. r \subseteq Of(target) /\ r \in SUBSET (Statuses \cup Nat)
    BY <1>2, <2>1, IdsAreNumbers DEF LatestDiagnosis, Of, RowsOK
  <2>3. Len(seen') = 2 /\ seen'[2] = r /\ seen'[1] = seen[1]
    BY <1>2, <1>6, <2>2, Elements
  <2>4. "diagnosed" \in seen[1] => HasDiagnosis(target)
    BY <1>6 DEF AnswersInv, IncidentSoFar
  <2>5. "diagnosed" \in seen[1] => r # {}
    BY <1>2, <2>1, <2>4, LatestExists DEF HasDiagnosis
  <2> QED BY <1>4, <2>2, <2>3, <2>4, <2>5 DEF IncidentSoFar
<1>7. Len(seen) < 2 OBVIOUS
<1>8. Len(seen) = 0 \/ Len(seen) = 1 BY <1>3, <1>7, SmallNumbers
<1> QED BY <1>5, <1>6, <1>8

LEMMA TraceStatement ==
  ASSUME IInv, AnswersInv, op = "get_investigation", at = "reading",
         Len(seen) < 4, UNCHANGED tables, UNCHANGED request,
         NEW r \in Results(Statements(op)[Len(seen) + 1]), seen' = Append(seen, r),
         at' = IF Len(seen') = 4 THEN "answered" ELSE at
  PROVE  r \in SUBSET (Statuses \cup Nat) /\ TraceSoFar'
<1>1. Statements(op) = <<"steps", "evidence", "hypotheses", "diagnosis">>
  BY DEF Statements
<1>2. seen \in Seq(SUBSET (Statuses \cup Nat)) /\ RowsOK
  BY DEF AnswersInv, Progress, Composite, IInv, TypeOK, RowsOK
<1>3. Len(seen) \in Nat BY <1>2, Elements
<1>4. /\ Traced(target)' = Traced(target) /\ op' = op /\ Diagnoses' = Diagnoses
      /\ investigations' = investigations
  BY SameFacts DEF request
<1>5. /\ \A n \in 1 .. 3 : Len(seen) >= n => seen[n] \subseteq Traced(target)
      /\ Len(seen) >= 2 => seen[1] \subseteq seen[2]
      /\ Len(seen) >= 3 => seen[2] \subseteq seen[3]
  BY DEF AnswersInv, TraceSoFar
<1>6. CASE Len(seen) < 3
  <2>1. r = Traced(target) BY <1>1, <1>3, <1>6 DEF Results
  <2>2. r \in SUBSET (Statuses \cup Nat)
    BY <1>2, <2>1, IdsAreNumbers DEF Traced, Of, RowsOK
  <2>3. /\ Len(seen') = Len(seen) + 1 /\ seen'[Len(seen) + 1] = r
        /\ \A n \in 1 .. Len(seen) : seen'[n] = seen[n]
    BY <1>2, <2>2, Elements
  <2>4. at' = "reading" BY <1>3, <1>6, <2>3
  <2>5. \A n \in 1 .. 3 : Len(seen') >= n => seen'[n] \subseteq Traced(target)
    BY <1>3, <1>5, <2>1, <2>3
  <2>6. Len(seen') >= 2 => seen'[1] \subseteq seen'[2]
    BY <1>3, <1>5, <1>6, <2>1, <2>3
  <2>7. Len(seen') >= 3 => seen'[2] \subseteq seen'[3]
    BY <1>3, <1>5, <1>6, <2>1, <2>3
  <2> QED BY <1>4, <2>2, <2>4, <2>5, <2>6, <2>7 DEF TraceSoFar
<1>7. CASE Len(seen) = 3
  <2>1. r = LatestDiagnosis(target) BY <1>1, <1>7 DEF Results
  <2>2. r \in SUBSET (Statuses \cup Nat)
    BY <1>2, <2>1, IdsAreNumbers DEF LatestDiagnosis, Of, RowsOK
  <2>3. /\ Len(seen') = 4 /\ seen'[4] = r
        /\ seen'[1] = seen[1] /\ seen'[2] = seen[2] /\ seen'[3] = seen[3]
    BY <1>2, <1>7, <2>2, Elements
  <2>4. ASSUME NEW d \in seen[1] \cap Diagnoses
        PROVE  \E k \in r : investigations[d].attempt <= investigations[k].attempt
    <3>1. d \in Of(target) \cap Diagnoses BY <1>5, <1>7, <2>4 DEF Traced
    <3> QED BY <1>2, <2>1, <3>1, LatestExists
  <2>5. \A n \in 1 .. 3 : seen'[n] \subseteq Traced(target)
    BY <1>5, <1>7, <2>3
  <2>6. seen'[1] \subseteq seen'[2] /\ seen'[2] \subseteq seen'[3]
    BY <1>5, <1>7, <2>3
  <2> QED BY <1>4, <2>2, <2>3, <2>4, <2>5, <2>6 DEF TraceSoFar
<1>8. Len(seen) < 4 OBVIOUS
<1>9. Len(seen) < 3 \/ Len(seen) = 3 BY <1>3, <1>8, SmallNumbers
<1> QED BY <1>6, <1>7, <1>9

(* The candidates are all there is, where that is no more than are looked   *)
(* at.                                                                     *)
LEMMA AllAreCandidates ==
  ASSUME RowsOK, NEW S \in Candidates
  PROVE  /\ S \subseteq Known /\ S \in SUBSET (Statuses \cup Nat)
         /\ Cardinality(Known \ OtherType) <= CandidateLimit => S = Known \ OtherType
<1> DEFINE typed == Known \ OtherType
<1>1. /\ S \in SUBSET typed
      /\ Cardinality(S) = IF Cardinality(typed) < CandidateLimit
                            THEN Cardinality(typed) ELSE CandidateLimit
  BY DEF Candidates
<1>2. IsFiniteSet(typed)
  <2>1. typed \in SUBSET IncidentIds BY DEF RowsOK
  <2> QED BY <2>1, IdsAreNumbers, FS_Subset
<1>3. Cardinality(typed) \in Nat BY <1>2, FS_CardinalityType
<1>4. S \subseteq Known /\ S \in SUBSET (Statuses \cup Nat)
  BY <1>1, IdsAreNumbers DEF RowsOK
<1>5. ASSUME Cardinality(typed) <= CandidateLimit PROVE S = typed
  <2>1. Cardinality(S) = Cardinality(typed) BY <1>1, <1>3, <1>5, IdsAreNumbers
  <2> HIDE DEF typed
  <2> QED BY <1>1, <1>2, <2>1, FS_Subset
<1> QED BY <1>4, <1>5

(* A match that is not told yields to as many as were asked for, none of    *)
(* which resembles the failure less.                                       *)
LEMMA ToldAreClosest ==
  ASSUME NEW S \in SUBSET IncidentIds, NEW M \in MatchesIn(S), limit \in Nat
  PROVE  /\ M \in SUBSET (Statuses \cup Nat)
         /\ \A i \in Resembling(S) \ M :
              /\ Cardinality(M) >= limit /\ M # {}
              /\ \A j \in M : Score[j] >= Score[i]
<1> DEFINE like == Resembling(S)
<1>1. /\ M \in SUBSET like
      /\ Cardinality(M) = IF Cardinality(like) < Told THEN Cardinality(like) ELSE Told
      /\ \A i \in M, j \in like \ M : ~ Closer(j, i)
  BY DEF MatchesIn
<1>2. like \in SUBSET IncidentIds BY DEF Resembling
<1>3. IsFiniteSet(like) BY <1>2, IdsAreNumbers, FS_Subset
<1>4. M \in SUBSET (Statuses \cup Nat) BY <1>1, <1>2, IdsAreNumbers
<1> HIDE DEF like
<1>5. ASSUME NEW i \in like \ M
      PROVE  /\ Cardinality(M) >= limit /\ M # {}
             /\ \A j \in M : Score[j] >= Score[i]
  <2>1. Cardinality(M) < Cardinality(like) /\ Cardinality(M) \in Nat
    BY <1>1, <1>3, <1>5, ProperSubset
  <2>2. Told \in Nat \ {0} /\ Told >= limit BY DEF Told
  <2>3. Cardinality(like) \in Nat BY <1>3, FS_CardinalityType
  <2>4. Cardinality(M) = Told BY <1>1, <2>1, <2>2, <2>3
  <2>5. M # {} BY <2>2, <2>4, FS_EmptySet
  <2>6. ASSUME NEW j \in M PROVE Score[j] >= Score[i]
    <3>1. ~ Closer(i, j) BY <1>1, <1>5, <2>6
    <3>2. Score[i] \in Nat /\ Score[j] \in Nat
      BY <1>1, <1>2, <1>5, <2>6, IdsAreNumbers
    <3> QED BY <3>1, <3>2 DEF Closer
  <2> QED BY <2>2, <2>4, <2>5, <2>6
<1> QED BY <1>4, <1>5 DEF like

LEMMA SearchStatement ==
  ASSUME IInv, AnswersInv, op = "search",
         Len(seen) < 3, UNCHANGED tables, UNCHANGED request, UNCHANGED standing,
         NEW r \in Results(Statements(op)[Len(seen) + 1]), seen' = Append(seen, r)
  PROVE  r \in SUBSET (Statuses \cup Nat) /\ SearchSoFar'
<1>1. Statements(op) = <<"candidates", "diagnoses", "matches">> BY DEF Statements
<1>2. /\ seen \in Seq(SUBSET (Statuses \cup Nat)) /\ RowsOK /\ limit \in Nat
      /\ standing \subseteq Known
  BY DEF AnswersInv, Progress, Composite, IInv, TypeOK, RowsOK, RequestInv,
     SearchSoFar
<1>3. Len(seen) \in Nat BY <1>2, Elements
<1>4. /\ Known' = Known /\ op' = op /\ limit' = limit /\ standing' = standing
  BY SameFacts DEF request
<1>5. Len(seen) >= 1 =>
         /\ seen[1] \subseteq Known
         /\ Cardinality(Known \ OtherType) <= CandidateLimit =>
              standing \ OtherType \subseteq seen[1]
  BY DEF AnswersInv, SearchSoFar
<1>6. CASE Len(seen) = 0
  <2>1. r \in Candidates BY <1>1, <1>6 DEF Results
  <2>2. /\ r \subseteq Known /\ r \in SUBSET (Statuses \cup Nat)
        /\ Cardinality(Known \ OtherType) <= CandidateLimit => r = Known \ OtherType
    BY <1>2, <2>1, AllAreCandidates
  <2>3. Len(seen') = 1 /\ seen'[1] = r BY <1>2, <1>6, <2>2, Elements
  <2> QED BY <1>2, <1>4, <2>2, <2>3 DEF SearchSoFar
<1>7. CASE Len(seen) = 1
  <2>1. r \in DiagnosesFor(seen[1]) BY <1>1, <1>7 DEF Results
  <2>2. r \in SUBSET (Statuses \cup Nat)
    BY <1>2, <2>1, IdsAreNumbers DEF DiagnosesFor, Diagnoses, RowsOK
  <2>3. Len(seen') = 2 /\ seen'[1] = seen[1] BY <1>2, <1>7, <2>2, Elements
  <2> QED BY <1>2, <1>4, <1>5, <1>7, <2>2, <2>3 DEF SearchSoFar
<1>8. CASE Len(seen) = 2
  <2>1. r \in MatchesIn(seen[1]) BY <1>1, <1>8 DEF Results
  <2>2. seen[1] \in SUBSET IncidentIds BY <1>2, <1>5, <1>8 DEF RowsOK
  <2>3. /\ r \in SUBSET (Statuses \cup Nat)
        /\ \A i \in Resembling(seen[1]) \ r :
             /\ Cardinality(r) >= limit /\ r # {}
             /\ \A j \in r : Score[j] >= Score[i]
    BY <1>2, <2>1, <2>2, ToldAreClosest
  <2>4. Len(seen') = 3 /\ seen'[3] = r /\ seen'[1] = seen[1]
    BY <1>2, <1>8, <2>3, Elements
  <2> QED BY <1>2, <1>4, <1>5, <1>8, <2>3, <2>4 DEF SearchSoFar, Resembling
<1>9. Len(seen) < 3 OBVIOUS
<1>10. Len(seen) = 0 \/ Len(seen) = 1 \/ Len(seen) = 2 BY <1>3, <1>9, SmallNumbers
<1> QED BY <1>6, <1>7, <1>8, <1>10

LEMMA StatementAnswers == ASSUME IInv, AnswersInv, Statement PROVE AnswersInv'
<1>1. PICK r \in Results(Statements(op)[Len(seen) + 1]) : seen' = Append(seen, r)
  BY DEF Statement
<1>2. /\ at = "reading" /\ Len(seen) < Len(Statements(op))
      /\ at' = IF Len(seen') = Len(Statements(op)) THEN "answered" ELSE at
      /\ UNCHANGED tables /\ UNCHANGED request /\ UNCHANGED standing
  BY DEF Statement
<1>3. UNCHANGED <<op, target, filter, limit>> BY <1>2 DEF request
<1>4. op \in Composite
  <2>1. op # "record_feedback"
    <3>1. op = "record_feedback" => Len(seen) = 1
      BY <1>2 DEF AnswersInv, Progress
    <3>2. op = "record_feedback" => Len(Statements(op)) = 0 BY DEF Statements
    <3> QED BY <1>2, <3>1, <3>2
  <2>2. ASSUME op \notin Composite PROVE FALSE
    <3>1. Statements(op) = <<>> BY <2>2 DEF Statements, Composite
    <3>2. seen = <<>> BY <2>1, <2>2 DEF AnswersInv, Progress
    <3> QED BY <1>2, <3>1, <3>2
  <2> QED BY <2>2
<1>5. seen \in Seq(SUBSET (Statuses \cup Nat)) /\ target \in Known
  BY <1>4 DEF AnswersInv, Progress
<1>6. Len(Statements(op)) = IF op = "get_incident" THEN 2
                            ELSE IF op = "get_investigation" THEN 4 ELSE 3
  BY <1>4 DEF Statements, Composite
<1>7. IncidentSoFar' /\ (op = "get_incident" => r \in SUBSET (Statuses \cup Nat))
  BY <1>1, <1>2, <1>3, <1>6, IncidentStatement DEF IncidentSoFar
<1>8. TraceSoFar' /\ (op = "get_investigation" => r \in SUBSET (Statuses \cup Nat))
  BY <1>1, <1>2, <1>3, <1>6, TraceStatement DEF TraceSoFar
<1>9. SearchSoFar' /\ (op = "search" => r \in SUBSET (Statuses \cup Nat))
  BY <1>1, <1>2, <1>3, <1>6, SearchStatement DEF SearchSoFar
<1>10. r \in SUBSET (Statuses \cup Nat)
  BY <1>4, <1>7, <1>8, <1>9 DEF Composite
<1>11. Progress'
  <2>1. /\ seen' \in Seq(SUBSET (Statuses \cup Nat))
        /\ Len(seen') = Len(seen) + 1 /\ Len(seen) \in Nat
    BY <1>1, <1>5, <1>10, Elements
  <2>2. Len(seen') <= Len(Statements(op)) BY <1>2, <1>6, <2>1
  <2>3. at' # "idle" /\ (at' = "answered" => Len(seen') = Len(Statements(op)))
    BY <1>2
  <2>4. target' \in Known' BY <1>2, <1>3, <1>5, SameFacts
  <2>5. op' = op /\ op # "record_feedback" BY <1>3, <1>4 DEF Composite
  <2> QED BY <1>4, <2>1, <2>2, <2>3, <2>4, <2>5 DEF Progress
<1>12. DiagnosedHasOne' BY <1>2, <1>3, SameFacts DEF AnswersInv
<1>13. FeedbackSoFar' /\ FeedbackStands'
  BY <1>3, <1>4 DEF FeedbackSoFar, FeedbackStands, Composite
<1> QED BY <1>7, <1>8, <1>9, <1>11, <1>12, <1>13 DEF AnswersInv

LEMMA StepAnswers == IInv /\ AnswersInv /\ [Next]_vars => AnswersInv'
<1> SUFFICES ASSUME IInv, AnswersInv, [Next]_vars PROVE AnswersInv'
  OBVIOUS
<1>1. ASSUME NEW i \in IncidentIds, Receive(i) \/ Begin(i) PROVE AnswersInv'
  BY <1>1, ReceiveAnswers, BeginAnswers
<1>2. ASSUME NEW i \in IncidentIds, NEW d \in DiagnosisIds, Save(d, i)
      PROVE  AnswersInv'
  BY <1>2, SaveAnswers
<1>3. ASSUME NEW d \in DiagnosisIds, Review(d) \/ LoadDiagnosis(d) PROVE AnswersInv'
  BY <1>3, ReviewAnswers, LoadAnswers
<1>4. CASE ListIncidents \/ ListDiagnoses
  <2>1. PICK o \in Lists : Starts(o) /\ UNCHANGED seen
    BY <1>4 DEF ListIncidents, ListDiagnoses, Lists
  <2>2. o \notin Composite BY DEF Lists, Composite
  <2> QED BY <2>1, <2>2, StartOfAnswer DEF Composite
<1>5. ASSUME NEW i \in IncidentIds,
             GetIncident(i) \/ GetInvestigation(i) \/ SearchSimilarIncidents(i)
      PROVE  AnswersInv'
  <2>1. PICK o \in Composite :
          /\ Starts(o) /\ UNCHANGED seen /\ target' \in Known
          /\ o = "search" => limit' \in Limits /\ standing' = Known
    BY <1>5 DEF GetIncident, GetInvestigation, SearchSimilarIncidents, Composite
  <2>2. o = "search" => limit' \in Nat BY <2>1, IdsAreNumbers
  <2> QED BY <2>1, <2>2, StartOfAnswer
<1>6. CASE ListPage BY <1>6, PageAnswers
<1>7. CASE Statement BY <1>7, StatementAnswers
<1>8. CASE RecordFeedback BY <1>8, FeedbackAnswers
<1>9. CASE UNCHANGED vars
  <2>1. UNCHANGED tables /\ UNCHANGED <<op, target, filter, limit>>
        /\ UNCHANGED <<at, seen, standing, contested>>
    BY <1>9 DEF vars, request
  <2>2. Progress' BY <2>1, SameFacts DEF AnswersInv, Progress, Statements
  <2>3. DiagnosedHasOne' BY <2>1, SameFacts DEF AnswersInv
  <2>4. IncidentSoFar' BY <2>1, SameFacts DEF AnswersInv, IncidentSoFar
  <2>5. TraceSoFar' BY <2>1, SameFacts DEF AnswersInv, TraceSoFar
  <2>6. SearchSoFar' BY <2>1, SameFacts DEF AnswersInv, SearchSoFar, Resembling
  <2>7. FeedbackSoFar' /\ FeedbackStands'
    BY <2>1, SameFacts DEF AnswersInv, FeedbackSoFar, FeedbackStands
  <2> QED BY <2>2, <2>3, <2>4, <2>5, <2>6, <2>7 DEF AnswersInv
<1> QED BY <1>1, <1>2, <1>3, <1>4, <1>5, <1>6, <1>7, <1>8, <1>9 DEF Next

LEMMA InitAnswers == Init => AnswersInv
<1> SUFFICES ASSUME Init PROVE AnswersInv OBVIOUS
<1>1. /\ op = "none" /\ at = "idle" /\ seen = <<>> /\ Known = {}
  BY DEF Init, Known
<1> QED BY <1>1 DEF AnswersInv, Progress, DiagnosedHasOne, IncidentSoFar, TraceSoFar,
        SearchSoFar, FeedbackSoFar, FeedbackStands, Composite

LEMMA WholeAnswers == ASSUME IInv, AnswersInv PROVE AnswersAreWhole
<1> SUFFICES ASSUME at = "answered" PROVE AnswersAreWhole
  BY DEF AnswersAreWhole
<1>1. ASSUME op = "get_incident", "diagnosed" \in seen[1]
      PROVE  \E d \in seen[2] : investigations[d].incident_id = target
  <2>1. Len(seen) = 2
    BY <1>1 DEF AnswersInv, Progress, Composite, Statements
  <2> QED BY <1>1, <2>1 DEF AnswersInv, IncidentSoFar, Of
<1>2. ASSUME op = "get_investigation"
      PROVE  /\ seen[1] \subseteq seen[2] /\ seen[2] \subseteq seen[3]
             /\ \A d \in seen[1] \cap Diagnoses : \E k \in seen[4] :
                  investigations[d].attempt <= investigations[k].attempt
  <2>1. Len(seen) = 4
    BY <1>2 DEF AnswersInv, Progress, Composite, Statements
  <2> QED BY <1>2, <2>1 DEF AnswersInv, TraceSoFar
<1> QED BY <1>1, <1>2 DEF AnswersAreWhole

LEMMA ClosestAreTold == ASSUME IInv, AnswersInv PROVE NothingCloserIsPassedOver
<1> SUFFICES ASSUME at = "answered", op = "search",
                    Cardinality(Known \ OtherType) <= CandidateLimit,
                    NEW i \in Resembling(standing \ OtherType) \ seen[3]
             PROVE  /\ Cardinality(seen[3]) >= limit /\ seen[3] # {}
                    /\ \A j \in seen[3] : Score[j] >= Score[i]
  BY DEF NothingCloserIsPassedOver
<1>1. Len(seen) = 3 BY DEF AnswersInv, Progress, Composite, Statements
<1>2. i \in Resembling(seen[1]) \ seen[3]
  BY <1>1 DEF AnswersInv, SearchSoFar, Resembling
<1> QED BY <1>1, <1>2 DEF AnswersInv, SearchSoFar

THEOREM AnswersInductive == Spec => []AnswersInv
<1>1. Spec => []IInv BY InitIInv, StepIInv, PTL DEF Spec
<1> QED BY <1>1, InitAnswers, StepAnswers, PTL DEF Spec

(* What the statements of one request return belongs together, whatever is *)
(* committed between them.                                                 *)
THEOREM AnswersBelongTogether == Spec => []AnswersAreWhole
<1>1. Spec => []IInv BY InitIInv, StepIInv, PTL DEF Spec
<1> QED BY <1>1, AnswersInductive, WholeAnswers, PTL

(* No incident that was known when the search began, and resembles the      *)
(* failure more, gives way to one that is told.                            *)
THEOREM SearchTellsTheClosest == Spec => []NothingCloserIsPassedOver
<1>1. Spec => []IInv BY InitIInv, StepIInv, PTL DEF Spec
<1> QED BY <1>1, AnswersInductive, ClosestAreTold, PTL

(* A verdict and its note stand as they were given, unless somebody else's  *)
(* came between.                                                           *)
THEOREM FeedbackIsStored == Spec => []FeedbackStands
<1>1. AnswersInv => FeedbackStands BY DEF AnswersInv
<1> QED BY <1>1, AnswersInductive, PTL
=============================================================================
