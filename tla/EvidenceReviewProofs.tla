------------------------- MODULE EvidenceReviewProofs -------------------------
(***************************************************************************)
(* Proofs about EvidenceReview and EvidenceExport, for any number of       *)
(* items, requests and extractions.                                        *)
(***************************************************************************)
EXTENDS EvidenceExport, FiniteSetTheorems, NaturalFacts, TLAPS

(* What body[r] can be: a request, or none in progress.                    *)
AnyBody == Body \cup {NoBody}

(* The fields of a request body, whatever its kind.                        *)
LEMMA BodyType ==
  ASSUME NEW q \in AnyBody
  PROVE  /\ q.action \in SubmittableAction \cup {"PATCH"}
         /\ q.risk \in Risks \cup {NotGiven}
         /\ q.status \in Statuses \cup {NotGiven}
BY DEF AnyBody, Body, NoBody, ReviewRequest, EvidenceItemUpdate, SubmittableAction

(* The state machine of next_review_status stays within ReviewStatus.      *)
LEMMA NextStatusType ==
  ASSUME NEW s \in ReviewStatus, NEW a \in SubmittableAction \cup {"PATCH"}
  PROVE  next_review_status(s, a) \in ReviewStatus
BY DEF next_review_status, Decision, ReviewStatus, SubmittableAction

(* A request sends no UPDATE, one, or (a PATCH of two fields) two.         *)
LEMMA UpdatesType ==
  ASSUME NEW old, NEW q
  PROVE  UpdatesSent(old, q) \in {0, 1, 2} /\ UpdatesSent(old, q) \in Nat
BY DEF UpdatesSent

(* A freshly extracted row is a row of evidence_items.                     *)
LEMMA NewItemType ==
  ASSUME NEW n \in Nat
  PROVE  NewItem(n) \in EvidenceItem /\ Gone \in EvidenceItem
BY FieldsAssumption DEF NewItem, Gone, EvidenceItem, ReviewStatus

(* What review or update_item makes of a row is again a row.               *)
LEMMA EditedType ==
  ASSUME NEW old \in EvidenceItem, NEW q \in AnyBody
  PROVE  Edited(old, q) \in EvidenceItem
<1>1. next_review_status(old.review_status, q.action) \in ReviewStatus
  BY BodyType, NextStatusType DEF EvidenceItem
<1>2. UpdatesSent(old, q) \in Nat
  BY UpdatesType
<1>3. (IF SetsRisk(old, q) THEN q.risk ELSE old.risk) \in Risks
  BY BodyType DEF SetsRisk, EvidenceItem
<1>4. (IF SetsStatus(old, q) THEN q.status ELSE old.status) \in Statuses
  BY BodyType DEF SetsStatus, EvidenceItem
<1>5. old.version + UpdatesSent(old, q) \in Nat
  BY <1>2 DEF EvidenceItem
<1> QED BY <1>1, <1>3, <1>4, <1>5 DEF Edited, EvidenceItem

(* An audit event of two rows is a row of evidence_review_events.          *)
LEMMA EventType ==
  ASSUME NEW s \in Nat, NEW i \in Items, NEW a \in ReviewAction,
         NEW old \in EvidenceItem, NEW new \in EvidenceItem,
         NEW extra \in [previous: Statuses \cup {NotGiven}, next: Statuses \cup {NotGiven}]
  PROVE  Event(s, i, a, old, new, extra) \in EvidenceReviewEvent
BY DEF Event, EvidenceReviewEvent, EvidenceItem

(* All events of one request are.                                          *)
LEMMA EventsType ==
  ASSUME NEW s \in Nat, NEW i \in Items, NEW old \in EvidenceItem, NEW q \in AnyBody
  PROVE  EventsOf(s, i, old, q) \in SUBSET EvidenceReviewEvent
<1>1. Edited(old, q) \in EvidenceItem
  BY EditedType
<1>2. NoExtra \in [previous: Statuses \cup {NotGiven}, next: Statuses \cup {NotGiven}]
  BY DEF NoExtra
<1>3. \A t \in Nat : RiskEvents(t, i, old, q) \subseteq EvidenceReviewEvent
  BY <1>1, <1>2, EventType DEF RiskEvents, ReviewAction, SubmittableAction
<1>4. StatusEvents(s, i, old, q) \subseteq EvidenceReviewEvent
  <2>1. CASE SetsStatus(old, q)
    <3>1. [previous |-> old.status, next |-> q.status]
            \in [previous: Statuses \cup {NotGiven}, next: Statuses \cup {NotGiven}]
      BY <2>1, BodyType DEF SetsStatus, EvidenceItem
    <3> QED BY <3>1, EventType DEF StatusEvents, ReviewAction, SubmittableAction
  <2>2. CASE ~SetsStatus(old, q)
    BY <2>2 DEF StatusEvents
  <2> QED BY <2>1, <2>2
<1>5. CASE q.action = "PATCH"
  BY <1>3, <1>4, <1>5 DEF EventsOf
<1>6. CASE q.action # "PATCH"
  <2>1. q.action \in ReviewAction
    BY <1>6, BodyType DEF ReviewAction
  <2> QED BY <1>1, <1>2, <1>6, <2>1, EventType DEF EventsOf
<1> QED BY <1>5, <1>6

(* Archiving makes a row of a row.                                         *)
LEMMA ArchivedType ==
  ASSUME NEW old \in EvidenceItem
  PROVE  Archived(old) \in EvidenceItem
BY DEF Archived, EvidenceItem

(* The parts of TypeOK about one actor's locals: an end of a transaction   *)
(* and the reset of what it read keep every type.                          *)
LEMMA EndType ==
  ASSUME TypeOK, NEW a \in Actors, NEW result \in Outcomes, End(a, result)
  PROVE  /\ advisory_lock' \in Extractors \cup {NoActor}
         /\ pc' \in [Actors -> {"idle", "loaded", "flushed", "generating",
                                "archiving", "deleting"}]
         /\ outcome' \in [Actors -> Outcomes]
         /\ staged' \in [Actors -> SUBSET EvidenceReviewEvent]
BY DEF TypeOK, End

(* The same of the locals of a review request.                             *)
LEMMA ForgetRequestType ==
  ASSUME TypeOK, NEW r \in Reviewers, ForgetRequest(r)
  PROVE  /\ target' \in [Reviewers -> Items \cup {NotGiven}]
         /\ body' \in [Reviewers -> AnyBody]
         /\ loaded' \in [Reviewers -> EvidenceItem]
         /\ selected' \in [Extractors -> SUBSET Items]
         /\ snapshot' \in [Extractors -> [Items -> EvidenceItem]]
         /\ doomed' \in [Extractors -> SUBSET Items]
         /\ deleting' \in [Extractors -> SUBSET Items]
BY NewItemType DEF TypeOK, ForgetRequest, AnyBody, extract_vars

(* The same of the locals of an extraction.                                *)
LEMMA ForgetExtractionType ==
  ASSUME TypeOK, NEW x \in Extractors, ForgetExtraction(x)
  PROVE  /\ target' \in [Reviewers -> Items \cup {NotGiven}]
         /\ body' \in [Reviewers -> AnyBody]
         /\ loaded' \in [Reviewers -> EvidenceItem]
         /\ selected' \in [Extractors -> SUBSET Items]
         /\ snapshot' \in [Extractors -> [Items -> EvidenceItem]]
         /\ doomed' \in [Extractors -> SUBSET Items]
         /\ deleting' \in [Extractors -> SUBSET Items]
BY NewItemType DEF TypeOK, ForgetExtraction, AnyBody, review_vars

(* Every variable keeps the type of what it stands for, on every step.     *)
THEOREM TypeCorrect == Spec => []TypeOK
<1>1. Init => TypeOK
  BY NewItemType, ActorsAssumption DEF Init, TypeOK, Outcomes
<1>2. TypeOK /\ [Next]_vars => TypeOK'
  <2> SUFFICES ASSUME TypeOK, [Next]_vars PROVE TypeOK'
    OBVIOUS
  <2> USE DEF TypeOK
  <2>1. ASSUME NEW r \in Reviewers, LoadItem(r) PROVE TypeOK'
    <3>1. r \in Actors
      BY DEF Actors
    <3> QED BY <2>1, <3>1, SubmittedAssumption DEF LoadItem, tables, extract_vars, Outcomes
  <2>2. ASSUME NEW r \in Reviewers, RefuseRequest(r) PROVE TypeOK'
    <3>1. r \in Actors
      BY DEF Actors
    <3> QED BY <2>2, <3>1 DEF RefuseRequest, tables, review_vars, extract_vars, Outcomes
  <2>3. ASSUME NEW r \in Reviewers, NEW result \in Outcomes, RollbackReview(r, result)
        PROVE TypeOK'
    <3>1. r \in Actors
      BY DEF Actors
    <3> QED BY <2>3, <3>1, EndType, ForgetRequestType DEF RollbackReview, tables, AnyBody
  <2>4. ASSUME NEW x \in Extractors, NEW result \in Outcomes, RollbackExtraction(x, result)
        PROVE TypeOK'
    <3>1. x \in Actors
      BY DEF Actors
    <3> QED BY <2>4, <3>1, EndType, ForgetExtractionType DEF RollbackExtraction, tables, AnyBody
  <2>5. ASSUME NEW r \in Reviewers, FlushUpdate(r) PROVE TypeOK'
    <3>1. r \in Actors /\ target[r] \in Items /\ body[r] \in AnyBody
      BY <2>5 DEF Actors, FlushUpdate, AnyBody
    <3>2. EventsOf(next_seq, target[r], loaded[r], body[r]) \in SUBSET EvidenceReviewEvent
      BY <3>1, EventsType
    <3>3. UpdatesSent(loaded[r], body[r]) \in Nat
      BY UpdatesType
    <3> QED BY <2>5, <3>1, <3>2, <3>3 DEF FlushUpdate, review_vars, extract_vars
  <2>6. ASSUME NEW r \in Reviewers, FlushEvent(r) PROVE TypeOK'
    <3>1. r \in Actors /\ target[r] \in Items /\ body[r] \in AnyBody
      BY <2>6 DEF Actors, FlushEvent, AnyBody
    <3>2. EventsOf(next_seq, target[r], loaded[r], body[r]) \in SUBSET EvidenceReviewEvent
      BY <3>1, EventsType
    <3> QED BY <2>6, <3>1, <3>2 DEF FlushEvent, review_vars, extract_vars
  <2>7. ASSUME NEW r \in Reviewers, CommitReview(r) PROVE TypeOK'
    <3>1. r \in Actors /\ body[r] \in AnyBody
      BY DEF Actors, AnyBody
    <3>2. Edited(loaded[r], body[r]) \in EvidenceItem
      BY <3>1, EditedType
    <3>3. row' \in [Items -> EvidenceItem]
      BY <2>7, <3>2 DEF CommitReview
    <3>4. events' \subseteq EvidenceReviewEvent
      BY <2>7, <3>1 DEF CommitReview
    <3> QED BY <2>7, <3>1, <3>3, <3>4, EndType, ForgetRequestType
            DEF CommitReview, AnyBody, Outcomes
  <2>8. ASSUME NEW x \in Extractors, BeginExtraction(x) PROVE TypeOK'
    <3>1. x \in Actors
      BY DEF Actors
    <3> QED BY <2>8, <3>1 DEF BeginExtraction, tables, review_vars, extract_vars, Outcomes
  <2>9. ASSUME NEW x \in Extractors, RefuseExtraction(x) PROVE TypeOK'
    <3>1. x \in Actors
      BY DEF Actors
    <3> QED BY <2>9, <3>1 DEF RefuseExtraction, tables, review_vars, extract_vars, Outcomes
  <2>10. ASSUME NEW x \in Extractors, SelectReviewed(x) PROVE TypeOK'
    <3>1. x \in Actors
      BY DEF Actors
    <3> QED BY <2>10, <3>1 DEF SelectReviewed, tables, review_vars
  <2>11. ASSUME NEW x \in Extractors, NEW i \in Items, ArchiveItem(x, i) PROVE TypeOK'
    <3>1. x \in Actors
      BY DEF Actors
    <3>2. Event(next_seq, i, "EXTRACTION_ARCHIVED", snapshot[x][i], snapshot[x][i], NoExtra)
            \in EvidenceReviewEvent
      BY EventType DEF ReviewAction, NoExtra
    <3> QED BY <2>11, <3>1, <3>2 DEF ArchiveItem, review_vars
  <2>12. ASSUME NEW x \in Extractors, SelectUnreviewed(x) PROVE TypeOK'
    <3>1. x \in Actors
      BY DEF Actors
    <3> QED BY <2>12, <3>1 DEF SelectUnreviewed, tables, review_vars
  <2>13. ASSUME NEW x \in Extractors, NEW i \in Items, DeleteItem(x, i) PROVE TypeOK'
    BY <2>13 DEF DeleteItem, tables, review_vars
  <2>14. ASSUME NEW x \in Extractors, CommitExtraction(x) PROVE TypeOK'
    <3>1. x \in Actors
      BY DEF Actors
    <3>2. PICK new \in SUBSET {i \in Items \ stored : row[i] # Gone} :
            /\ stored' = (stored \ deleting[x]) \cup new
            /\ row' = [i \in Items |->
                 IF i \in new THEN NewItem(extractions + 1)
                 ELSE IF i \in deleting[x] THEN Gone
                 ELSE IF \E e \in staged[x] : e.item = i THEN Archived(snapshot[x][i])
                 ELSE row[i]]
      BY <2>14 DEF CommitExtraction
    <3>3. stored' \subseteq Items
      BY <3>2
    <3>4. ASSUME NEW i \in Items PROVE row'[i] \in EvidenceItem
      <4>1. NewItem(extractions + 1) \in EvidenceItem /\ Gone \in EvidenceItem
        <5>1. extractions + 1 \in Nat
          OBVIOUS
        <5> QED BY <5>1, NewItemType
      <4>2. Archived(snapshot[x][i]) \in EvidenceItem
        BY ArchivedType
      <4> QED BY <3>2, <4>1, <4>2
    <3>5. row' \in [Items -> EvidenceItem]
      BY <3>2, <3>4
    <3>6. events' \subseteq EvidenceReviewEvent
      BY <2>14, <3>1 DEF CommitExtraction
    <3> QED BY <2>14, <3>1, <3>3, <3>5, <3>6, EndType, ForgetExtractionType
            DEF CommitExtraction, AnyBody, Outcomes
  <2>15. CASE UNCHANGED vars
    BY <2>15 DEF vars, tables, review_vars, extract_vars
  <2> QED
    BY <2>1, <2>2, <2>3, <2>4, <2>5, <2>6, <2>7, <2>8, <2>9, <2>10, <2>11, <2>12, <2>13,
       <2>14, <2>15
    DEF Next, ReviewStep, ExtractionStep, LoseRace, LoseItem, CommitNothing, GenerationFails,
        LoseArchiveRace, Crash, Outcomes
<1> QED BY <1>1, <1>2, PTL DEF Spec

-----------------------------------------------------------------------------
(***************************************************************************)
(* The audit trail.  Row locks are what uncommitted writes imply, so the   *)
(* inductive invariant says who may write a row (WriterExclusive), that    *)
(* what a writer read is what it will replace (NoLostUpdate,               *)
(* ArchivesCurrent), what its uncommitted events look like (StagedShape)   *)
(* and that they come after every decision already committed (StagedLast). *)
(***************************************************************************)

WriterExclusive ==
  \A i \in Items : \A a, b \in Actors : WritesRow(a, i) /\ WritesRow(b, i) => a = b

ArchivesCurrent ==
  \A x \in Extractors : \A e \in staged[x] :
    row[e.item] = snapshot[x][e.item] /\ e.previous_status = e.next_status

NotYetArchiving ==
  \A x \in Extractors :
    pc[x] \in {"idle", "generating"} => staged[x] = {} /\ deleting[x] = {}

ForeignKey ==
  /\ \A e \in events : e.item \in stored
  /\ \A a \in Actors : \A e \in staged[a] :
       e.item \in stored /\ \A x \in Extractors : e.item \notin deleting[x]

SeqBound ==
  /\ \A e \in events : e.seq < next_seq
  /\ \A a \in Actors : \A e \in staged[a] : e.seq < next_seq

RequestShape(at, es, i, old, q) ==
  /\ at # "flushed" => es = {}
  /\ at = "flushed" => i \in Items
  /\ \A e \in es : /\ e.item = i
                   /\ e.previous_status = old.review_status
                   /\ e.next_status = Edited(old, q).review_status
  /\ Moves(old, q) /\ at = "flushed" => \E d : es = {d}

StagedShape ==
  \A r \in Reviewers : RequestShape(pc[r], staged[r], target[r], loaded[r], body[r])

StagedLast ==
  \A r \in Reviewers : \A e \in staged[r] :
    e.previous_status # e.next_status => \A f \in Decisions(e.item) : f.seq < e.seq

(* What a handler read is the row still, if the version is.                *)
ReadIsPast(exists, now, old) ==
  /\ exists => /\ old.version <= now.version
               /\ old.version = now.version => old = now
  /\ ~exists => now = Gone

ReadsVersioned ==
  /\ \A r \in Reviewers : pc[r] \in {"loaded", "flushed"} =>
       /\ target[r] \in Items
       /\ ReadIsPast(target[r] \in stored, row[target[r]], loaded[r])
  /\ \A x \in Extractors : \A i \in selected[x] :
       ReadIsPast(i \in stored, row[i], snapshot[x][i])

AuditInv ==
  /\ TypeOK /\ WriterExclusive /\ NoLostUpdate /\ ArchivesCurrent
  /\ NotYetArchiving /\ ForeignKey /\ SeqBound /\ StagedShape /\ StagedLast
  /\ ReadsVersioned /\ AuditTrailReplays

(* A decision taken on the status a trail replays to, and numbered after   *)
(* all of it, extends the trail.                                           *)
LEMMA AppendReplays ==
  ASSUME NEW ds \in SUBSET EvidenceReviewEvent, NEW d \in EvidenceReviewEvent,
         Replays(ds, d.previous_status), \A f \in ds : f.seq < d.seq
  PROVE  Replays(ds \cup {d}, d.next_status)
<1> DEFINE all == ds \cup {d}
<1>0. \A e \in all : e.seq \in Nat
  BY DEF EvidenceReviewEvent
<1>1. ASSUME NEW e \in all, \A f \in all : f.seq <= e.seq PROVE d.next_status = e.next_status
  BY <1>0, <1>1
<1>2. ASSUME NEW e \in all, \A f \in all : f.seq >= e.seq PROVE e.previous_status = "NEW"
  <2>1. CASE e = d
    <3>1. ds = {}
      BY <1>0, <1>2, <2>1
    <3> QED BY <2>1, <3>1 DEF Replays
  <2>2. CASE e # d
    BY <1>2, <2>2 DEF Replays
  <2> QED BY <2>1, <2>2
<1>3. ASSUME NEW e \in all, NEW f \in all, f.seq < e.seq,
             ~\E g \in all : f.seq < g.seq /\ g.seq < e.seq
      PROVE  e.previous_status = f.next_status
  <2>1. f \in ds
    BY <1>0, <1>3
  <2>2. CASE e = d
    <3>1. \A g \in ds : g.seq <= f.seq
      BY <1>0, <1>3, <2>1, <2>2
    <3> QED BY <2>1, <2>2, <3>1 DEF Replays
  <2>3. CASE e # d
    BY <1>3, <2>1, <2>3 DEF Replays
  <2> QED BY <2>2, <2>3
<1> QED BY <1>1, <1>2, <1>3 DEF Replays

(* What the events of a request say about the row it loaded, and the       *)
(* numbers they take.                                                      *)
EventsFollow(es, s, i, old, q) ==
  /\ \A e \in es : /\ e.item = i
                   /\ e.previous_status = old.review_status
                   /\ e.next_status = Edited(old, q).review_status
                   /\ e.seq >= s
                   /\ UpdatesSent(old, q) > 0 => e.seq < s + UpdatesSent(old, q)
                   /\ UpdatesSent(old, q) = 0 => e.seq = s
  /\ Moves(old, q) => \E d : es = {d}

(* Every request's events are of that shape.                               *)
LEMMA EventsShape ==
  ASSUME NEW s \in Nat, NEW i \in Items, NEW old \in EvidenceItem, NEW q \in AnyBody
  PROVE  EventsFollow(EventsOf(s, i, old, q), s, i, old, q)
<1> USE DEF EventsFollow
<1>1. CASE q.action = "PATCH"
  <2>1. next_review_status(old.review_status, q.action) = old.review_status
    BY <1>1 DEF next_review_status, Decision
  <2>2. ~Moves(old, q) /\ Edited(old, q).review_status = old.review_status
    BY <2>1 DEF Moves, Edited
  <2>3. ASSUME NEW e \in StatusEvents(s, i, old, q)
        PROVE  /\ e.item = i /\ e.previous_status = old.review_status
               /\ e.next_status = old.review_status /\ e.seq = s
               /\ UpdatesSent(old, q) \in {1, 2}
    BY <2>3 DEF StatusEvents, Event, UpdatesSent
  <2>4. ASSUME NEW t, NEW e \in RiskEvents(t, i, old, q)
        PROVE  /\ e.item = i /\ e.previous_status = old.review_status
               /\ e.next_status = old.review_status /\ e.seq = t
               /\ SetsRisk(old, q)
    BY <2>2, <2>4 DEF RiskEvents, Event
  <2>5. ASSUME NEW e \in RiskEvents(IF SetsStatus(old, q) THEN s + 1 ELSE s, i, old, q)
        PROVE  /\ e.item = i /\ e.previous_status = old.review_status
               /\ e.next_status = old.review_status
               /\ e.seq >= s /\ e.seq < s + UpdatesSent(old, q)
               /\ UpdatesSent(old, q) \in {1, 2}
    <3> DEFINE t == IF SetsStatus(old, q) THEN s + 1 ELSE s
    <3>1. /\ e.item = i /\ e.previous_status = old.review_status
          /\ e.next_status = old.review_status /\ e.seq = t /\ SetsRisk(old, q)
      BY <2>4, <2>5
    <3>2. CASE SetsStatus(old, q)
      <4>1. UpdatesSent(old, q) = 2
        BY <3>1, <3>2 DEF UpdatesSent
      <4> QED BY <3>1, <3>2, <4>1
    <3>3. CASE ~SetsStatus(old, q)
      <4>1. UpdatesSent(old, q) = 1
        BY <3>1, <3>3 DEF UpdatesSent
      <4> QED BY <3>1, <3>3, <4>1
    <3> QED BY <3>2, <3>3
  <2> QED BY <1>1, <2>2, <2>3, <2>5 DEF EventsOf
<1>2. CASE q.action # "PATCH"
  <2>1. EventsOf(s, i, old, q) = {Event(s, i, q.action, old, Edited(old, q), NoExtra)}
    BY <1>2 DEF EventsOf
  <2>2. Moves(old, q) => UpdatesSent(old, q) > 0
    BY DEF UpdatesSent
  <2>3. UpdatesSent(old, q) \in Nat
    BY UpdatesType
  <2>4. ASSUME NEW e \in EventsOf(s, i, old, q)
        PROVE  /\ e.item = i /\ e.previous_status = old.review_status
               /\ e.next_status = Edited(old, q).review_status /\ e.seq = s
    <3>1. e = Event(s, i, q.action, old, Edited(old, q), NoExtra)
      BY <2>1, <2>4
    <3> QED BY <3>1 DEF Event
  <2>5. \E d : EventsOf(s, i, old, q) = {d}
    BY <2>1
  <2>6. ASSUME UpdatesSent(old, q) > 0 PROVE s < s + UpdatesSent(old, q)
    BY <2>3, <2>6
  <2> QED BY <2>2, <2>4, <2>5, <2>6
<1> QED BY <1>1, <1>2

(* Nobody but a changes what it holds, and a takes no new row lock.        *)
Others(a) ==
  \A b \in Actors \ {a} :
    /\ pc'[b] = pc[b] /\ staged'[b] = staged[b]
    /\ b \in Reviewers =>
         target'[b] = target[b] /\ body'[b] = body[b] /\ loaded'[b] = loaded[b]
    /\ b \in Extractors => snapshot'[b] = snapshot[b] /\ deleting'[b] = deleting[b]

(* A step of a that writes no table and holds no more than before keeps    *)
(* the invariant: reads, refusals and rollbacks.                           *)
LEMMA ReleasingKeepsAudit ==
  ASSUME AuditInv, TypeOK', ReadsVersioned', UNCHANGED tables, NEW a \in Actors, Others(a),
         a \in Reviewers => pc'[a] # "flushed" /\ staged'[a] = {},
         a \in Extractors =>
           \/ staged'[a] = {} /\ deleting'[a] = {}
           \/ /\ staged'[a] = staged[a] /\ snapshot'[a] = snapshot[a]
              /\ deleting'[a] = deleting[a] /\ pc'[a] \notin {"idle", "generating"}
  PROVE  AuditInv'
<1> USE ActorsAssumption DEF Actors
<1>1. \A b \in Actors : staged'[b] \subseteq staged[b]
  BY DEF Others
<1>2. \A x \in Extractors : deleting'[x] \subseteq deleting[x]
  BY DEF Others
<1>3. ASSUME NEW b \in Actors, NEW i \in Items, WritesRow(b, i)' PROVE WritesRow(b, i)
  <2>1. CASE b = a
    <3>1. CASE a \in Reviewers
      BY <1>3, <2>1, <3>1 DEF WritesRow
    <3>2. CASE a \in Extractors
      BY <1>1, <1>2, <1>3, <2>1, <3>2 DEF WritesRow
    <3> QED BY <3>1, <3>2
  <2>2. CASE b # a
    BY <1>3, <2>2 DEF WritesRow, Others
  <2> QED BY <2>1, <2>2
<1>4. WriterExclusive'
  BY <1>3 DEF AuditInv, WriterExclusive
<1>5. NoLostUpdate'
  BY DEF AuditInv, NoLostUpdate, Others, tables
<1>6. ArchivesCurrent'
  BY DEF AuditInv, ArchivesCurrent, Others, tables
<1>7. NotYetArchiving'
  BY DEF AuditInv, NotYetArchiving, Others
<1>8. ForeignKey'
  BY <1>1, <1>2 DEF AuditInv, ForeignKey, tables
<1>9. SeqBound'
  BY <1>1 DEF AuditInv, SeqBound, tables
<1>10. StagedShape'
  <2> SUFFICES ASSUME NEW r \in Reviewers
               PROVE  RequestShape(pc'[r], staged'[r], target'[r], loaded'[r], body'[r])
    BY DEF StagedShape
  <2>1. CASE r = a
    BY <2>1 DEF RequestShape
  <2>2. CASE r # a
    <3>1. /\ pc'[r] = pc[r] /\ staged'[r] = staged[r]
          /\ target'[r] = target[r] /\ body'[r] = body[r] /\ loaded'[r] = loaded[r]
      BY <2>2 DEF Others
    <3> QED BY <3>1 DEF AuditInv, StagedShape
  <2> QED BY <2>1, <2>2
<1>11. StagedLast' /\ AuditTrailReplays'
  BY <1>1 DEF AuditInv, StagedLast, AuditTrailReplays, Decisions, EventsOn, tables
<1> QED BY <1>4, <1>5, <1>6, <1>7, <1>8, <1>9, <1>10, <1>11 DEF AuditInv

(* Who is flushed is where StagedShape and NoLostUpdate say it is.         *)
LEMMA FlushedWrites ==
  ASSUME AuditInv, NEW r \in Reviewers, NEW e \in staged[r]
  PROVE  /\ pc[r] = "flushed" /\ e.item = target[r] /\ target[r] \in Items
         /\ e.previous_status = loaded[r].review_status
         /\ e.next_status = Edited(loaded[r], body[r]).review_status
         /\ e.previous_status # e.next_status => UpdatesSent(loaded[r], body[r]) > 0
         /\ e.previous_status # e.next_status => WritesRow(r, e.item)
<1>1. /\ pc[r] = "flushed" /\ e.item = target[r] /\ target[r] \in Items
      /\ e.previous_status = loaded[r].review_status
      /\ e.next_status = Edited(loaded[r], body[r]).review_status
  BY DEF AuditInv, StagedShape, RequestShape
<1>2. e.previous_status # e.next_status => Moves(loaded[r], body[r])
  BY <1>1 DEF Edited, Moves
<1>3. Moves(loaded[r], body[r]) => UpdatesSent(loaded[r], body[r]) > 0
  BY DEF UpdatesSent
<1> QED BY <1>1, <1>2, <1>3 DEF WritesRow

(* A flush takes the row lock when it sends an UPDATE, on the row it read, *)
(* and stages events numbered after everything.                            *)
LEMMA FlushKeepsAudit ==
  ASSUME AuditInv, TypeOK', NEW r \in Reviewers, FlushUpdate(r) \/ FlushEvent(r)
  PROVE  AuditInv'
<1> DEFINE i == target[r]
           old == loaded[r]
           q == body[r]
           fresh == EventsOf(next_seq, i, old, q)
<1> USE ActorsAssumption DEF Actors
<1>1. /\ TypeOK /\ pc[r] = "loaded" /\ i \in stored /\ i \in Items
      /\ next_seq \in Nat /\ old \in EvidenceItem /\ q \in AnyBody
  BY DEF AuditInv, TypeOK, FlushUpdate, FlushEvent, AnyBody
<1>2. /\ staged' = [staged EXCEPT ![r] = fresh] /\ pc' = [pc EXCEPT ![r] = "flushed"]
      /\ UNCHANGED <<stored, row, events, review_vars, extract_vars>>
  BY DEF FlushUpdate, FlushEvent
<1>3. UpdatesSent(old, q) \in Nat
  BY UpdatesType
<1>4. UpdatesSent(old, q) > 0 => RowFree(i) /\ row[i] = old
  BY <1>1 DEF AuditInv, ReadsVersioned, ReadIsPast, FlushUpdate, FlushEvent
<1>5. \A x \in Extractors : i \notin deleting[x]
  BY <1>1, <1>3 DEF FlushUpdate, FlushEvent, RowFree, WritesRow
<1>6. next_seq' >= next_seq + 1 /\ next_seq' >= next_seq + UpdatesSent(old, q)
  BY <1>1, <1>3 DEF FlushUpdate, FlushEvent
<1>7. next_seq' \in Nat
  BY DEF TypeOK
<1>8. EventsFollow(fresh, next_seq, i, old, q)
  BY <1>1, EventsShape
<1>9. /\ pc'[r] = "flushed" /\ staged'[r] = fresh /\ target'[r] = i /\ loaded'[r] = old
      /\ body'[r] = q
      /\ \A b \in Actors \ {r} : pc'[b] = pc[b] /\ staged'[b] = staged[b]
      /\ target' = target /\ loaded' = loaded /\ body' = body
      /\ selected' = selected /\ snapshot' = snapshot /\ deleting' = deleting
      /\ stored' = stored /\ row' = row /\ events' = events
  BY <1>1, <1>2 DEF TypeOK, review_vars, extract_vars
<1>10. ASSUME NEW b \in Actors, NEW j \in Items, WritesRow(b, j)'
       PROVE  WritesRow(b, j) \/ (b = r /\ j = i /\ UpdatesSent(old, q) > 0)
  <2>1. CASE b = r
    BY <1>9, <1>10, <2>1 DEF WritesRow
  <2>2. CASE b # r
    BY <1>9, <1>10, <2>2 DEF WritesRow
  <2> QED BY <2>1, <2>2
<1>11. WriterExclusive'
  <2> SUFFICES ASSUME NEW j \in Items, NEW a \in Actors, NEW b \in Actors,
                      WritesRow(a, j)', WritesRow(b, j)'
               PROVE  a = b
    BY DEF WriterExclusive
  <2> QED BY <1>4, <1>10 DEF AuditInv, WriterExclusive, RowFree
<1>12. NoLostUpdate'
  BY <1>1, <1>4, <1>9 DEF AuditInv, NoLostUpdate
<1>13. ArchivesCurrent' /\ NotYetArchiving'
  BY <1>9 DEF AuditInv, ArchivesCurrent, NotYetArchiving
<1> HIDE DEF fresh, i, old, q
<1>14. ForeignKey'
  BY <1>1, <1>5, <1>8, <1>9 DEF AuditInv, ForeignKey, EventsFollow
<1>15. SeqBound'
  <2>1. \A e \in fresh : e.seq < next_seq'
    <3> SUFFICES ASSUME NEW e \in fresh PROVE e.seq < next_seq'
      OBVIOUS
    <3>1. e \in EvidenceReviewEvent
      BY <1>1, EventsType DEF fresh
    <3> QED BY <1>1, <1>3, <1>6, <1>7, <1>8, <3>1 DEF EvidenceReviewEvent, EventsFollow
  <2>2. /\ \A e \in events : e.seq < next_seq'
        /\ \A a \in Actors : \A e \in staged[a] : e.seq < next_seq'
    BY <1>1, <1>6, <1>7 DEF AuditInv, SeqBound, TypeOK, EvidenceReviewEvent
  <2> QED BY <1>9, <2>1, <2>2 DEF SeqBound
<1>16. StagedShape'
  <2> SUFFICES ASSUME NEW s \in Reviewers
               PROVE  RequestShape(pc'[s], staged'[s], target'[s], loaded'[s], body'[s])
    BY DEF StagedShape
  <2>1. CASE s = r
    <3>1. RequestShape("flushed", fresh, i, old, q)
      BY <1>1, <1>8 DEF RequestShape, EventsFollow
    <3> QED BY <1>9, <2>1, <3>1
  <2>2. CASE s # r
    BY <1>9, <2>2 DEF AuditInv, StagedShape
  <2> QED BY <2>1, <2>2
<1>17. StagedLast'
  <2> SUFFICES ASSUME NEW s \in Reviewers, NEW e \in staged'[s],
                      e.previous_status # e.next_status,
                      NEW f \in Decisions(e.item)
               PROVE  f.seq < e.seq
    BY <1>9 DEF StagedLast, Decisions, EventsOn
  <2>1. CASE s = r
    <3>1. e \in EvidenceReviewEvent /\ f \in EvidenceReviewEvent /\ f \in events
      BY <1>1, <1>9, <2>1, EventsType DEF fresh, TypeOK, Decisions, EventsOn
    <3>2. e.seq >= next_seq /\ f.seq < next_seq
      BY <1>8, <1>9, <2>1, <3>1 DEF AuditInv, SeqBound, EventsFollow
    <3> QED BY <1>1, <3>1, <3>2 DEF EvidenceReviewEvent
  <2>2. CASE s # r
    <3>1. e \in staged[s]
      BY <1>9, <2>2
    <3> QED BY <3>1 DEF AuditInv, StagedLast
  <2> QED BY <2>1, <2>2
<1>18. ReadsVersioned'
  BY <1>1, <1>9 DEF AuditInv, ReadsVersioned, ReadIsPast
<1>19. AuditTrailReplays'
  BY <1>9 DEF AuditInv, AuditTrailReplays, Decisions, EventsOn
<1> QED BY <1>11, <1>12, <1>13, <1>14, <1>15, <1>16, <1>17, <1>18, <1>19 DEF AuditInv

(* Archiving an item takes the lock of a row that is still what was read.  *)
LEMMA ArchiveKeepsAudit ==
  ASSUME AuditInv, TypeOK', NEW x \in Extractors, NEW i \in Items, ArchiveItem(x, i)
  PROVE  AuditInv'
<1> USE ActorsAssumption DEF Actors
<1> DEFINE d == Event(next_seq, i, "EXTRACTION_ARCHIVED", snapshot[x][i], snapshot[x][i], NoExtra)
<1>1. /\ TypeOK /\ pc[x] = "archiving" /\ i \in stored /\ RowFree(i) /\ next_seq \in Nat
      /\ next_seq' = next_seq + 1 /\ i \in selected[x]
      /\ row[i].version = snapshot[x][i].version
  BY DEF AuditInv, TypeOK, ArchiveItem
<1>2. /\ staged'[x] = staged[x] \cup {d} /\ selected'[x] = selected[x] \ {i}
      /\ \A a \in Actors \ {x} : staged'[a] = staged[a]
      /\ \A y \in Extractors : selected'[y] \subseteq selected[y]
      /\ stored' = stored /\ row' = row /\ events' = events /\ pc' = pc
      /\ target' = target /\ loaded' = loaded /\ body' = body
      /\ snapshot' = snapshot /\ deleting' = deleting
  BY <1>1 DEF ArchiveItem, TypeOK, review_vars
<1>3. row[i] = snapshot[x][i]
  BY <1>1 DEF AuditInv, ReadsVersioned, ReadIsPast
<1>4. d.item = i /\ d.previous_status = d.next_status /\ d.seq = next_seq
  BY DEF Event
<1> HIDE DEF d
<1>5. ASSUME NEW a \in Actors, NEW j \in Items, WritesRow(a, j)'
      PROVE  WritesRow(a, j) \/ (a = x /\ j = i)
  <2>1. CASE a = x
    BY <1>2, <1>4, <1>5, <2>1 DEF WritesRow
  <2>2. CASE a # x
    BY <1>2, <1>5, <2>2 DEF WritesRow
  <2> QED BY <2>1, <2>2
<1>6. WriterExclusive'
  <2> SUFFICES ASSUME NEW j \in Items, NEW a \in Actors, NEW b \in Actors,
                      WritesRow(a, j)', WritesRow(b, j)'
               PROVE  a = b
    BY DEF WriterExclusive
  <2> QED BY <1>1, <1>5 DEF AuditInv, WriterExclusive, RowFree
<1>7. NoLostUpdate'
  BY <1>2 DEF AuditInv, NoLostUpdate
<1>8. ArchivesCurrent'
  BY <1>2, <1>3, <1>4 DEF AuditInv, ArchivesCurrent
<1>9. NotYetArchiving'
  BY <1>1, <1>2 DEF AuditInv, NotYetArchiving
<1>10. ForeignKey'
  <2>1. \A y \in Extractors : i \notin deleting[y]
    BY <1>1 DEF RowFree, WritesRow
  <2> QED BY <1>1, <1>2, <1>4, <2>1 DEF AuditInv, ForeignKey
<1>11. SeqBound'
  <2>1. \A e \in events : e.seq < next_seq + 1
    BY <1>1 DEF AuditInv, SeqBound, TypeOK, EvidenceReviewEvent
  <2>2. \A a \in Actors : \A e \in staged[a] : e.seq < next_seq + 1
    BY <1>1 DEF AuditInv, SeqBound, TypeOK, EvidenceReviewEvent
  <2>3. d.seq < next_seq + 1
    BY <1>1, <1>4
  <2> QED BY <1>1, <1>2, <2>1, <2>2, <2>3 DEF SeqBound
<1>12. StagedShape' /\ StagedLast'
  BY <1>2 DEF AuditInv, StagedShape, StagedLast, Decisions, EventsOn
<1>13. ReadsVersioned'
  BY <1>2 DEF AuditInv, ReadsVersioned, ReadIsPast
<1>14. AuditTrailReplays'
  BY <1>2 DEF AuditInv, AuditTrailReplays, Decisions, EventsOn
<1> QED BY <1>6, <1>7, <1>8, <1>9, <1>10, <1>11, <1>12, <1>13, <1>14 DEF AuditInv

(* Deleting an item takes the lock of a row no uncommitted event points to.*)
LEMMA DeleteKeepsAudit ==
  ASSUME AuditInv, TypeOK', NEW x \in Extractors, NEW i \in Items, DeleteItem(x, i)
  PROVE  AuditInv'
<1> USE ActorsAssumption DEF Actors
<1>1. /\ TypeOK /\ pc[x] = "deleting" /\ DeleteFree(i)
      /\ deleting'[x] \subseteq deleting[x] \cup {i}
      /\ \A y \in Extractors \ {x} : deleting'[y] = deleting[y]
      /\ stored' = stored /\ row' = row /\ events' = events /\ pc' = pc
      /\ next_seq' = next_seq /\ staged' = staged
      /\ target' = target /\ loaded' = loaded /\ body' = body
      /\ snapshot' = snapshot /\ selected' = selected
  BY DEF AuditInv, TypeOK, DeleteItem, tables, review_vars
<1>2. ASSUME NEW a \in Actors, NEW j \in Items, WritesRow(a, j)'
      PROVE  WritesRow(a, j) \/ (a = x /\ j = i)
  <2>1. CASE a = x
    BY <1>1, <1>2, <2>1 DEF WritesRow
  <2>2. CASE a # x
    BY <1>1, <1>2, <2>2 DEF WritesRow
  <2> QED BY <2>1, <2>2
<1>3. WriterExclusive'
  <2> SUFFICES ASSUME NEW j \in Items, NEW a \in Actors, NEW b \in Actors,
                      WritesRow(a, j)', WritesRow(b, j)'
               PROVE  a = b
    BY DEF WriterExclusive
  <2> QED BY <1>1, <1>2 DEF AuditInv, WriterExclusive, RowFree, DeleteFree
<1>4. NoLostUpdate' /\ ArchivesCurrent' /\ SeqBound'
  BY <1>1 DEF AuditInv, NoLostUpdate, ArchivesCurrent, SeqBound
<1>5. NotYetArchiving'
  BY <1>1 DEF AuditInv, NotYetArchiving
<1>6. ForeignKey'
  BY <1>1 DEF AuditInv, ForeignKey, DeleteFree
<1>7. StagedShape' /\ StagedLast'
  BY <1>1 DEF AuditInv, StagedShape, StagedLast, Decisions, EventsOn
<1>8. ReadsVersioned' /\ AuditTrailReplays'
  BY <1>1 DEF AuditInv, ReadsVersioned, ReadIsPast, AuditTrailReplays, Decisions, EventsOn
<1> QED BY <1>3, <1>4, <1>5, <1>6, <1>7, <1>8 DEF AuditInv

(* A commit replaces the row it read: by its own lock nobody else's        *)
(* uncommitted write is about that row, and its decision extends the trail.*)
LEMMA CommitReviewKeepsAudit ==
  ASSUME AuditInv, TypeOK', NEW r \in Reviewers, CommitReview(r)
  PROVE  AuditInv'
<1> USE ActorsAssumption DEF Actors
<1> DEFINE i == target[r]
           old == loaded[r]
           q == body[r]
           writes == UpdatesSent(old, q) > 0
<1>1. /\ TypeOK /\ pc[r] = "flushed" /\ i \in Items /\ old \in EvidenceItem /\ q \in AnyBody
      /\ staged[r] \subseteq EvidenceReviewEvent
  BY DEF AuditInv, TypeOK, CommitReview, StagedShape, RequestShape, AnyBody
<1>2. /\ writes => row'[i] = Edited(old, q)
      /\ ~writes => row'[i] = row[i]
      /\ \A j \in Items \ {i} : row'[j] = row[j]
      /\ events' = events \cup staged[r]
      /\ staged'[r] = {} /\ pc'[r] = "idle"
      /\ \A a \in Actors \ {r} : staged'[a] = staged[a] /\ pc'[a] = pc[a]
      /\ \A s \in Reviewers \ {r} :
           target'[s] = target[s] /\ loaded'[s] = loaded[s] /\ body'[s] = body[s]
      /\ snapshot' = snapshot /\ deleting' = deleting /\ selected' = selected
      /\ stored' = stored /\ next_seq' = next_seq
  BY <1>1 DEF CommitReview, TypeOK, End, ForgetRequest, extract_vars
<1>3. UpdatesSent(old, q) \in Nat
  BY <1>1, UpdatesType
<1>4. writes => WritesRow(r, i) /\ i \in stored /\ row[i] = old
  BY <1>1 DEF AuditInv, NoLostUpdate, WritesRow
<1>5. Edited(old, q).version = old.version + UpdatesSent(old, q)
  BY DEF Edited
<1>6. /\ \A e \in staged[r] : e.item = i /\ e.previous_status = old.review_status
                              /\ e.next_status = Edited(old, q).review_status
      /\ Moves(old, q) => writes /\ \E d : staged[r] = {d}
  <2>1. Moves(old, q) => UpdatesSent(old, q) > 0
    BY DEF UpdatesSent
  <2> QED BY <1>1, <2>1 DEF AuditInv, StagedShape, RequestShape
<1>7. Edited(old, q).review_status # old.review_status <=> Moves(old, q)
  BY DEF Edited, Moves
<1> HIDE DEF i, old, q, writes
<1>8. ASSUME NEW a \in Actors, NEW j \in Items, WritesRow(a, j)'
      PROVE  WritesRow(a, j) /\ a # r /\ row'[j] = row[j]
  <2>1. a # r
    BY <1>2, <1>8 DEF WritesRow
  <2>2. WritesRow(a, j)
    BY <1>2, <1>8, <2>1 DEF WritesRow
  <2>3. CASE j = i /\ writes
    BY <1>1, <1>4, <2>1, <2>2, <2>3 DEF AuditInv, WriterExclusive
  <2>4. CASE ~(j = i /\ writes)
    <3>1. row'[j] = row[j]
      BY <1>2, <2>4
    <3> QED BY <2>1, <2>2, <3>1
  <2> QED BY <2>3, <2>4
<1>9. WriterExclusive'
  BY <1>8 DEF AuditInv, WriterExclusive
<1>10. NoLostUpdate'
  <2> SUFFICES ASSUME NEW s \in Reviewers, pc'[s] = "flushed",
                      UpdatesSent(loaded'[s], body'[s]) > 0
               PROVE  target'[s] \in stored /\ row'[target'[s]] = loaded'[s]
    BY <1>2 DEF NoLostUpdate
  <2>1. s # r /\ pc[s] = "flushed" /\ target'[s] = target[s] /\ loaded'[s] = loaded[s]
        /\ body'[s] = body[s]
    BY <1>2
  <2>2. target[s] \in stored /\ row[target[s]] = loaded[s] /\ target[s] \in Items
    BY <1>1, <2>1 DEF AuditInv, NoLostUpdate, TypeOK
  <2>3. WritesRow(s, target[s])'
    BY <2>1 DEF WritesRow
  <2> QED BY <1>8, <2>1, <2>2, <2>3
<1>11. ArchivesCurrent'
  <2> SUFFICES ASSUME NEW x \in Extractors, NEW e \in staged'[x]
               PROVE  row'[e.item] = snapshot'[x][e.item] /\ e.previous_status = e.next_status
    BY DEF ArchivesCurrent
  <2>1. e \in staged[x] /\ e.item \in Items
    <3>1. e \in staged[x]
      BY <1>2
    <3>2. e \in EvidenceReviewEvent
      BY <1>1, <3>1 DEF TypeOK
    <3> QED BY <3>1, <3>2 DEF EvidenceReviewEvent
  <2>2. WritesRow(x, e.item)'
    BY DEF WritesRow
  <2>3. row'[e.item] = row[e.item]
    BY <1>8, <2>1, <2>2
  <2> QED BY <1>2, <2>1, <2>3 DEF AuditInv, ArchivesCurrent
<1>12. NotYetArchiving'
  BY <1>2 DEF AuditInv, NotYetArchiving
<1>13. ForeignKey'
  BY <1>1, <1>2 DEF AuditInv, ForeignKey
<1>14. SeqBound'
  BY <1>2 DEF AuditInv, SeqBound
<1>15. StagedShape'
  <2> SUFFICES ASSUME NEW s \in Reviewers
               PROVE  RequestShape(pc'[s], staged'[s], target'[s], loaded'[s], body'[s])
    BY DEF StagedShape
  <2>1. CASE s = r
    BY <1>2, <2>1 DEF RequestShape
  <2>2. CASE s # r
    BY <1>2, <2>2 DEF AuditInv, StagedShape
  <2> QED BY <2>1, <2>2
<1>16. StagedLast'
  <2> SUFFICES ASSUME NEW s \in Reviewers, NEW e \in staged'[s],
                      e.previous_status # e.next_status,
                      NEW f \in events', f.item = e.item, f.previous_status # f.next_status
               PROVE  f.seq < e.seq
    BY DEF StagedLast, Decisions, EventsOn
  <2>1. s # r /\ e \in staged[s]
    BY <1>2
  <2>2. WritesRow(s, e.item) /\ pc[s] = "flushed" /\ e.item = target[s] /\ e.item \in Items
    BY <2>1, FlushedWrites
  <2>3. f \notin staged[r]
    <3> SUFFICES ASSUME f \in staged[r] PROVE FALSE
      OBVIOUS
    <3>1. WritesRow(r, f.item)
      BY FlushedWrites
    <3> QED BY <2>1, <2>2, <3>1 DEF AuditInv, WriterExclusive
  <2>4. f \in Decisions(e.item)
    BY <1>2, <2>3 DEF Decisions, EventsOn
  <2> QED BY <2>1, <2>4 DEF AuditInv, StagedLast
<1>17. ReadsVersioned'
  <2>1. ASSUME NEW j \in Items, NEW seen \in EvidenceItem,
               ReadIsPast(j \in stored, row[j], seen)
        PROVE  ReadIsPast(j \in stored', row'[j], seen)
    <3>1. CASE j = i /\ writes
      <4>1. row'[j].version = row[j].version + UpdatesSent(old, q)
        BY <1>2, <1>4, <1>5, <3>1
      <4>2. row[j].version \in Nat /\ seen.version \in Nat /\ UpdatesSent(old, q) > 0
        BY <1>1, <3>1 DEF TypeOK, EvidenceItem, writes
      <4>3. j \in stored /\ seen.version <= row[j].version
        BY <1>4, <2>1, <3>1 DEF ReadIsPast
      <4> QED BY <1>2, <1>3, <4>1, <4>2, <4>3 DEF ReadIsPast
    <3>2. CASE ~(j = i /\ writes)
      <4>1. row'[j] = row[j] /\ stored' = stored
        BY <1>2, <3>2
      <4> QED BY <2>1, <4>1
    <3> QED BY <3>1, <3>2
  <2>2. ASSUME NEW s \in Reviewers, pc'[s] \in {"loaded", "flushed"}
        PROVE  /\ target'[s] \in Items
               /\ ReadIsPast(target'[s] \in stored', row'[target'[s]], loaded'[s])
    <3>1. s # r /\ pc[s] \in {"loaded", "flushed"} /\ target'[s] = target[s]
          /\ loaded'[s] = loaded[s]
      BY <1>2, <2>2
    <3>2. /\ target[s] \in Items /\ loaded[s] \in EvidenceItem
          /\ ReadIsPast(target[s] \in stored, row[target[s]], loaded[s])
      BY <1>1, <3>1 DEF AuditInv, ReadsVersioned, TypeOK
    <3> QED BY <2>1, <3>1, <3>2
  <2>3. ASSUME NEW x \in Extractors, NEW j \in selected'[x]
        PROVE  ReadIsPast(j \in stored', row'[j], snapshot'[x][j])
    <3>1. /\ j \in Items /\ snapshot[x][j] \in EvidenceItem
          /\ ReadIsPast(j \in stored, row[j], snapshot[x][j])
      BY <1>1, <1>2, <2>3 DEF AuditInv, ReadsVersioned, TypeOK
    <3> QED BY <1>2, <2>1, <3>1
  <2> QED BY <2>2, <2>3 DEF ReadsVersioned
<1>18. AuditTrailReplays'
  <2> SUFFICES ASSUME NEW j \in stored PROVE Replays(Decisions(j)', row'[j].review_status)
    BY <1>2 DEF AuditTrailReplays
  <2>0. j \in Items /\ Replays(Decisions(j), row[j].review_status)
    BY <1>1 DEF AuditInv, AuditTrailReplays, TypeOK
  <2>1. CASE j = i /\ Moves(old, q)
    <3>1. PICK d : staged[r] = {d}
      BY <1>6, <2>1
    <3>2. /\ d \in EvidenceReviewEvent /\ d.item = j /\ d.previous_status = row[j].review_status
          /\ d.next_status = row'[j].review_status /\ d.previous_status # d.next_status
      BY <1>1, <1>2, <1>4, <1>6, <1>7, <2>1, <3>1
    <3>3. Decisions(j)' = Decisions(j) \cup {d}
      BY <1>2, <3>1, <3>2 DEF Decisions, EventsOn
    <3>4. \A f \in Decisions(j) : f.seq < d.seq
      BY <3>1, <3>2 DEF AuditInv, StagedLast
    <3>5. Decisions(j) \in SUBSET EvidenceReviewEvent
      BY <1>1 DEF TypeOK, Decisions, EventsOn
    <3> QED BY <2>0, <3>2, <3>3, <3>4, <3>5, AppendReplays
  <2>2. CASE ~(j = i /\ Moves(old, q))
    <3>1. Decisions(j)' = Decisions(j)
      BY <1>2, <1>6, <1>7, <2>2 DEF Decisions, EventsOn
    <3>2. row'[j].review_status = row[j].review_status
      BY <1>2, <1>4, <1>7, <2>0, <2>2
    <3> QED BY <2>0, <3>1, <3>2
  <2> QED BY <2>1, <2>2
<1> QED BY <1>9, <1>10, <1>11, <1>12, <1>13, <1>14, <1>15, <1>16, <1>17, <1>18
        DEF AuditInv

(* An extraction's commit changes the status of no item that stays, and    *)
(* touches no row another transaction has written.                         *)
LEMMA CommitExtractionKeepsAudit ==
  ASSUME AuditInv, TypeOK', NEW x \in Extractors, CommitExtraction(x)
  PROVE  AuditInv'
<1> USE ActorsAssumption DEF Actors
<1>1. PICK new \in SUBSET {i \in Items \ stored : row[i] # Gone} :
        /\ stored' = (stored \ deleting[x]) \cup new
        /\ row' = [i \in Items |->
             IF i \in new THEN NewItem(extractions + 1)
             ELSE IF i \in deleting[x] THEN Gone
             ELSE IF \E e \in staged[x] : e.item = i THEN Archived(snapshot[x][i])
             ELSE row[i]]
  BY DEF CommitExtraction
<1>2. /\ TypeOK /\ new \subseteq Items
      /\ events' = {e \in events : e.item \notin deleting[x]} \cup staged[x]
      /\ staged'[x] = {} /\ pc'[x] = "idle" /\ deleting'[x] = {} /\ selected'[x] = {}
      /\ \A a \in Actors \ {x} : staged'[a] = staged[a] /\ pc'[a] = pc[a]
      /\ \A y \in Extractors \ {x} : deleting'[y] = deleting[y] /\ snapshot'[y] = snapshot[y]
                                     /\ selected'[y] = selected[y]
      /\ target' = target /\ loaded' = loaded /\ body' = body /\ next_seq' = next_seq
  BY DEF AuditInv, TypeOK, CommitExtraction, End, ForgetExtraction, review_vars
<1>3. ASSUME NEW i \in Items, i \in new
      PROVE  i \notin stored /\ row[i] # Gone /\ row'[i] = NewItem(extractions + 1)
  BY <1>1, <1>3
<1>4. ASSUME NEW i \in Items, i \notin new, i \in deleting[x]
      PROVE  row'[i] = Gone /\ i \notin stored' /\ WritesRow(x, i)
  <2>1. row'[i] = Gone
    BY <1>1, <1>4
  <2>2. i \notin stored'
    BY <1>1, <1>4
  <2> QED BY <1>4, <2>1, <2>2 DEF WritesRow
<1>5. ASSUME NEW i \in Items, i \notin new, i \notin deleting[x],
             NEW e \in staged[x], e.item = i
      PROVE  row'[i] = Archived(row[i]) /\ WritesRow(x, i)
  <2>1. row'[i] = Archived(snapshot[x][i])
    BY <1>1, <1>5
  <2>2. row[i] = snapshot[x][i]
    BY <1>5 DEF AuditInv, ArchivesCurrent
  <2> QED BY <1>5, <2>1, <2>2 DEF WritesRow
<1>6. ASSUME NEW i \in Items, i \notin new, i \notin deleting[x],
             \A e \in staged[x] : e.item # i
      PROVE  row'[i] = row[i]
  BY <1>1, <1>6
<1>7. ASSUME NEW i \in Items, i \notin new, ~WritesRow(x, i)
      PROVE  row'[i] = row[i]
  BY <1>4, <1>5, <1>6, <1>7
<1>8. ASSUME NEW i \in stored, i \notin deleting[x]
      PROVE  i \in Items /\ i \in stored' /\ i \notin new
             /\ row'[i].review_status = row[i].review_status
  <2>1. i \in Items /\ i \in stored' /\ i \notin new
    BY <1>1, <1>2, <1>8 DEF TypeOK
  <2>2. CASE \E e \in staged[x] : e.item = i
    <3>1. row'[i] = Archived(row[i])
      BY <1>5, <1>8, <2>1, <2>2
    <3> QED BY <2>1, <3>1 DEF Archived
  <2>3. CASE \A e \in staged[x] : e.item # i
    BY <1>6, <1>8, <2>1, <2>3
  <2> QED BY <2>1, <2>2, <2>3
<1>9. \A e \in staged[x] : /\ e.item \in stored /\ e.item \notin deleting[x]
                           /\ e.previous_status = e.next_status
  BY DEF AuditInv, ForeignKey, ArchivesCurrent
<1>10. ASSUME NEW a \in Actors, NEW i \in Items, WritesRow(a, i)'
       PROVE  WritesRow(a, i) /\ a # x /\ ~WritesRow(x, i)
  <2>1. a # x
    BY <1>2, <1>10 DEF WritesRow
  <2>2. WritesRow(a, i)
    BY <1>2, <1>10, <2>1 DEF WritesRow
  <2> QED BY <2>1, <2>2 DEF AuditInv, WriterExclusive
<1>11. WriterExclusive'
  BY <1>10 DEF AuditInv, WriterExclusive
<1>12. NoLostUpdate'
  <2> SUFFICES ASSUME NEW s \in Reviewers, pc'[s] = "flushed",
                      UpdatesSent(loaded'[s], body'[s]) > 0
               PROVE  target'[s] \in stored' /\ row'[target'[s]] = loaded'[s]
    BY DEF NoLostUpdate
  <2>1. pc[s] = "flushed" /\ s # x
    BY <1>2
  <2>2. target[s] \in stored /\ row[target[s]] = loaded[s] /\ target[s] \in Items
    BY <1>2, <2>1 DEF AuditInv, NoLostUpdate, TypeOK
  <2>3. WritesRow(s, target[s])
    BY <1>2, <2>1 DEF WritesRow
  <2>4. ~WritesRow(x, target[s])
    BY <2>1, <2>2, <2>3 DEF AuditInv, WriterExclusive
  <2>5. target[s] \notin deleting[x]
    BY <2>4 DEF WritesRow
  <2> QED BY <1>2, <1>7, <1>8, <2>2, <2>4, <2>5
<1>13. ArchivesCurrent'
  <2> SUFFICES ASSUME NEW y \in Extractors, NEW e \in staged'[y]
               PROVE  row'[e.item] = snapshot'[y][e.item] /\ e.previous_status = e.next_status
    BY DEF ArchivesCurrent
  <2>1. y # x /\ e \in staged[y]
    BY <1>2
  <2>2. e.item \in stored /\ e.item \in Items /\ e.item \notin deleting[x]
    BY <1>2, <2>1 DEF AuditInv, ForeignKey, TypeOK
  <2>3. WritesRow(y, e.item)
    BY <2>1 DEF WritesRow
  <2>4. ~WritesRow(x, e.item)
    BY <2>1, <2>2, <2>3 DEF AuditInv, WriterExclusive
  <2>5. row'[e.item] = row[e.item]
    BY <1>7, <1>8, <2>2, <2>4
  <2> QED BY <1>2, <2>1, <2>5 DEF AuditInv, ArchivesCurrent
<1>14. NotYetArchiving'
  BY <1>2 DEF AuditInv, NotYetArchiving
<1>15. ForeignKey'
  <2>1. ASSUME NEW e \in events' PROVE e.item \in stored'
    BY <1>2, <1>8, <1>9, <2>1 DEF AuditInv, ForeignKey
  <2>2. ASSUME NEW a \in Actors, NEW e \in staged'[a]
        PROVE  e.item \in stored' /\ \A y \in Extractors : e.item \notin deleting'[y]
    <3>1. a # x /\ e \in staged[a]
      BY <1>2, <2>2
    <3>2. e.item \in stored /\ \A y \in Extractors : e.item \notin deleting[y]
      BY <3>1 DEF AuditInv, ForeignKey
    <3> QED BY <1>2, <1>8, <3>2
  <2> QED BY <2>1, <2>2 DEF ForeignKey
<1>16. SeqBound'
  BY <1>2 DEF AuditInv, SeqBound
<1>17. StagedShape'
  <2> SUFFICES ASSUME NEW s \in Reviewers
               PROVE  RequestShape(pc'[s], staged'[s], target'[s], loaded'[s], body'[s])
    BY DEF StagedShape
  <2>1. s # x
    OBVIOUS
  <2> QED BY <1>2, <2>1 DEF AuditInv, StagedShape
<1>18. ASSUME NEW i \in Items, NEW e \in Decisions(i)'
       PROVE  e \in Decisions(i)
  <2>1. e \in events' /\ e.item = i /\ e.previous_status # e.next_status
    BY DEF Decisions, EventsOn
  <2>2. e \in events
    BY <1>2, <1>9, <2>1
  <2> QED BY <2>1, <2>2 DEF Decisions, EventsOn
<1>19. StagedLast'
  <2> SUFFICES ASSUME NEW s \in Reviewers, NEW e \in staged'[s],
                      e.previous_status # e.next_status,
                      NEW f \in Decisions(e.item)'
               PROVE  f.seq < e.seq
    BY DEF StagedLast
  <2>1. e \in staged[s]
    BY <1>2
  <2>2. e \in EvidenceReviewEvent
    BY <1>2, <2>1 DEF TypeOK
  <2>3. f \in Decisions(e.item)
    BY <1>18, <2>2 DEF EvidenceReviewEvent
  <2> QED BY <2>1, <2>3 DEF AuditInv, StagedLast
<1>20. ReadsVersioned'
  <2>1. ASSUME NEW i \in Items, NEW seen \in EvidenceItem,
               ReadIsPast(i \in stored, row[i], seen)
        PROVE  ReadIsPast(i \in stored', row'[i], seen)
    <3>1. i \notin new
      BY <1>3, <2>1 DEF ReadIsPast
    <3>2. CASE i \in deleting[x]
      BY <1>4, <3>1, <3>2 DEF ReadIsPast
    <3>3. CASE i \notin deleting[x] /\ \E e \in staged[x] : e.item = i
      <4>1. row'[i] = Archived(row[i])
        BY <1>5, <3>1, <3>3
      <4>2. row'[i].version = row[i].version + 1
        BY <4>1 DEF Archived
      <4>3. row[i].version \in Nat /\ seen.version \in Nat
        BY <1>2 DEF TypeOK, EvidenceItem
      <4>4. i \in stored /\ i \in stored'
        BY <1>8, <1>9, <3>3
      <4> QED BY <2>1, <4>2, <4>3, <4>4 DEF ReadIsPast
    <3>4. CASE i \notin deleting[x] /\ \A e \in staged[x] : e.item # i
      <4>1. row'[i] = row[i]
        BY <1>6, <3>1, <3>4
      <4>2. i \in stored' <=> i \in stored
        BY <1>1, <3>1, <3>4
      <4> QED BY <2>1, <4>1, <4>2 DEF ReadIsPast
    <3> QED BY <3>2, <3>3, <3>4
  <2>2. ASSUME NEW s \in Reviewers, pc'[s] \in {"loaded", "flushed"}
        PROVE  /\ target'[s] \in Items
               /\ ReadIsPast(target'[s] \in stored', row'[target'[s]], loaded'[s])
    <3>1. pc[s] \in {"loaded", "flushed"} /\ s # x
      BY <1>2, <2>2
    <3>2. /\ target[s] \in Items /\ loaded[s] \in EvidenceItem
          /\ ReadIsPast(target[s] \in stored, row[target[s]], loaded[s])
      BY <1>2, <3>1 DEF AuditInv, ReadsVersioned, TypeOK
    <3> QED BY <1>2, <2>1, <3>2
  <2>3. ASSUME NEW y \in Extractors, NEW j \in selected'[y]
        PROVE  ReadIsPast(j \in stored', row'[j], snapshot'[y][j])
    <3>1. y # x /\ j \in selected[y] /\ snapshot'[y] = snapshot[y]
      BY <1>2, <2>3
    <3>2. /\ j \in Items /\ snapshot[y][j] \in EvidenceItem
          /\ ReadIsPast(j \in stored, row[j], snapshot[y][j])
      BY <1>2, <3>1 DEF AuditInv, ReadsVersioned, TypeOK
    <3> QED BY <2>1, <3>1, <3>2
  <2> QED BY <2>2, <2>3 DEF ReadsVersioned
<1>21. AuditTrailReplays'
  <2> SUFFICES ASSUME NEW i \in stored'
               PROVE  Replays(Decisions(i)', row'[i].review_status)
    BY DEF AuditTrailReplays
  <2>1. CASE i \in new
    <3>1. i \in Items /\ i \notin stored /\ row'[i].review_status = "NEW"
      BY <1>2, <1>3, <2>1 DEF NewItem
    <3>2. Decisions(i)' = {}
      BY <1>18, <3>1 DEF AuditInv, ForeignKey, Decisions, EventsOn
    <3> QED BY <3>1, <3>2 DEF Replays
  <2>2. CASE i \notin new
    <3>1. i \in stored /\ i \notin deleting[x]
      BY <1>1, <2>2
    <3>2. i \in Items /\ row'[i].review_status = row[i].review_status
      BY <1>8, <3>1
    <3>3. Decisions(i) \subseteq Decisions(i)'
      BY <1>2, <3>1 DEF Decisions, EventsOn
    <3>4. Decisions(i)' = Decisions(i)
      BY <1>18, <3>2, <3>3
    <3> QED BY <3>1, <3>2, <3>4 DEF AuditInv, AuditTrailReplays
  <2> QED BY <2>1, <2>2
<1> QED BY <1>11, <1>12, <1>13, <1>14, <1>15, <1>16, <1>17, <1>19, <1>20, <1>21 DEF AuditInv

(* The steps that write no table: reads, refusals, rollbacks, crashes.     *)
LEMMA QuietReviewKeepsAudit ==
  ASSUME AuditInv, TypeOK', NEW r \in Reviewers,
         \/ LoadItem(r) \/ RefuseRequest(r)
         \/ \E result \in Outcomes : RollbackReview(r, result)
  PROVE  AuditInv'
<1> USE ActorsAssumption DEF Actors
<1>0. TypeOK /\ ReadsVersioned /\ StagedShape
  BY DEF AuditInv
<1>1. UNCHANGED tables /\ UNCHANGED extract_vars
  BY DEF LoadItem, RefuseRequest, RollbackReview, ForgetRequest
<1>2. Others(r)
  BY <1>0 DEF LoadItem, RefuseRequest, RollbackReview, End, ForgetRequest, TypeOK, Others,
              extract_vars, review_vars
<1>3. pc'[r] # "flushed" /\ staged'[r] = {}
  BY <1>0 DEF LoadItem, RefuseRequest, RollbackReview, End, TypeOK, StagedShape, RequestShape
<1>4. pc'[r] \in {"loaded", "flushed"}
        => /\ target'[r] \in Items
           /\ ReadIsPast(target'[r] \in stored, row[target'[r]], loaded'[r])
  <2>1. CASE LoadItem(r)
    <3>1. PICK i \in Items :
            i \in stored /\ target' = [target EXCEPT ![r] = i]
              /\ loaded' = [loaded EXCEPT ![r] = row[i]]
      BY <2>1 DEF LoadItem, Accepts
    <3>2. target'[r] = i /\ loaded'[r] = row[i]
      BY <1>0, <3>1 DEF TypeOK
    <3>3. row[i].version \in Nat
      BY <1>0 DEF TypeOK, EvidenceItem
    <3> QED BY <3>1, <3>2, <3>3 DEF ReadIsPast
  <2>2. CASE RefuseRequest(r) \/ \E result \in Outcomes : RollbackReview(r, result)
    BY <1>0, <2>2 DEF RefuseRequest, RollbackReview, End, TypeOK
  <2> QED BY <2>1, <2>2
<1>5. ReadsVersioned'
  <2>1. \A s \in Reviewers : pc'[s] \in {"loaded", "flushed"} =>
          /\ target'[s] \in Items
          /\ ReadIsPast(target'[s] \in stored', row'[target'[s]], loaded'[s])
    <3> SUFFICES ASSUME NEW s \in Reviewers, pc'[s] \in {"loaded", "flushed"}
                 PROVE  /\ target'[s] \in Items
                        /\ ReadIsPast(target'[s] \in stored', row'[target'[s]], loaded'[s])
      OBVIOUS
    <3>1. CASE s = r
      BY <1>1, <1>4, <3>1 DEF tables
    <3>2. CASE s # r
      BY <1>0, <1>1, <1>2, <3>2 DEF ReadsVersioned, Others, tables
    <3> QED BY <3>1, <3>2
  <2> QED BY <1>0, <1>1, <2>1 DEF ReadsVersioned, tables, extract_vars
<1> QED BY <1>1, <1>2, <1>3, <1>5, ReleasingKeepsAudit

(* The same of an extraction: begins, refusals, reads and rollbacks.        *)
LEMMA QuietExtractionKeepsAudit ==
  ASSUME AuditInv, TypeOK', NEW x \in Extractors,
         \/ BeginExtraction(x) \/ RefuseExtraction(x) \/ SelectReviewed(x) \/ SelectUnreviewed(x)
         \/ \E result \in Outcomes : RollbackExtraction(x, result)
  PROVE  AuditInv'
<1> USE ActorsAssumption DEF Actors
<1>0. TypeOK /\ ReadsVersioned /\ NotYetArchiving
  BY DEF AuditInv
<1>1. UNCHANGED tables /\ UNCHANGED review_vars
  BY DEF BeginExtraction, RefuseExtraction, SelectReviewed, SelectUnreviewed,
         RollbackExtraction, ForgetExtraction
<1>2. Others(x)
  BY <1>0 DEF BeginExtraction, RefuseExtraction, SelectReviewed, SelectUnreviewed,
              RollbackExtraction, ForgetExtraction, End, TypeOK, Others, extract_vars, review_vars
<1>3. \/ staged'[x] = {} /\ deleting'[x] = {}
      \/ /\ staged'[x] = staged[x] /\ snapshot'[x] = snapshot[x]
         /\ deleting'[x] = deleting[x] /\ pc'[x] \notin {"idle", "generating"}
  <2>1. CASE BeginExtraction(x) \/ RefuseExtraction(x) \/ SelectReviewed(x)
    BY <1>0, <2>1 DEF BeginExtraction, RefuseExtraction, SelectReviewed, NotYetArchiving,
                      extract_vars
  <2>2. CASE SelectUnreviewed(x)
    BY <1>0, <2>2 DEF SelectUnreviewed, TypeOK
  <2>3. CASE \E result \in Outcomes : RollbackExtraction(x, result)
    BY <1>0, <2>3 DEF RollbackExtraction, End, ForgetExtraction, TypeOK
  <2> QED BY <2>1, <2>2, <2>3
<1>4. \A i \in selected'[x] : ReadIsPast(i \in stored, row[i], snapshot'[x][i])
  <2>1. CASE SelectReviewed(x)
    <3> SUFFICES ASSUME NEW i \in selected'[x]
                 PROVE  ReadIsPast(i \in stored, row[i], snapshot'[x][i])
      OBVIOUS
    <3>1. i \in stored /\ i \in Items /\ snapshot'[x] = row
      BY <1>0, <2>1 DEF SelectReviewed, TypeOK
    <3>2. row[i].version \in Nat
      BY <1>0, <3>1 DEF TypeOK, EvidenceItem
    <3> QED BY <3>1, <3>2 DEF ReadIsPast
  <2>2. CASE BeginExtraction(x) \/ RefuseExtraction(x) \/ SelectUnreviewed(x)
    BY <1>0, <2>2 DEF BeginExtraction, RefuseExtraction, SelectUnreviewed, ReadsVersioned,
                      extract_vars
  <2>3. CASE \E result \in Outcomes : RollbackExtraction(x, result)
    BY <1>0, <2>3 DEF RollbackExtraction, ForgetExtraction, TypeOK
  <2> QED BY <2>1, <2>2, <2>3
<1>5. \A y \in Extractors \ {x} : selected'[y] = selected[y] /\ snapshot'[y] = snapshot[y]
  BY <1>0 DEF BeginExtraction, RefuseExtraction, SelectReviewed, SelectUnreviewed,
              RollbackExtraction, ForgetExtraction, TypeOK, extract_vars
<1>6. ReadsVersioned'
  <2>1. \A r \in Reviewers : pc'[r] = pc[r]
    BY <1>2 DEF Others
  <2>2. \A y \in Extractors : \A i \in selected'[y] :
          ReadIsPast(i \in stored', row'[i], snapshot'[y][i])
    BY <1>0, <1>1, <1>4, <1>5 DEF ReadsVersioned, tables
  <2> QED BY <1>0, <1>1, <2>1, <2>2 DEF ReadsVersioned, tables, review_vars
<1> QED BY <1>1, <1>2, <1>3, <1>6, ReleasingKeepsAudit

(* Every reachable state satisfies the inductive invariant.                *)
THEOREM AuditInvariant == Spec => []AuditInv
<1> USE ActorsAssumption, FieldsAssumption DEF Actors
<1>1. Init /\ TypeOK => AuditInv
  <2> SUFFICES ASSUME Init, TypeOK PROVE AuditInv
    OBVIOUS
  <2>1. WriterExclusive /\ NoLostUpdate /\ NotYetArchiving /\ ArchivesCurrent
    BY DEF Init, WriterExclusive, WritesRow, NoLostUpdate, NotYetArchiving, ArchivesCurrent
  <2>2. ForeignKey /\ SeqBound
    BY DEF Init, ForeignKey, SeqBound
  <2>3. StagedShape /\ StagedLast
    BY DEF Init, StagedShape, RequestShape, StagedLast
  <2>4. ReadsVersioned /\ AuditTrailReplays
    BY DEF Init, ReadsVersioned, AuditTrailReplays
  <2> QED BY <2>1, <2>2, <2>3, <2>4 DEF AuditInv
<1>2. AuditInv /\ TypeOK' /\ [Next]_vars => AuditInv'
  <2> SUFFICES ASSUME AuditInv, TypeOK', [Next]_vars PROVE AuditInv'
    OBVIOUS
  <2> USE DEF Outcomes
  <2>1. CASE \E r \in Reviewers : LoadItem(r) \/ RefuseRequest(r)
    BY <2>1, QuietReviewKeepsAudit
  <2>2. CASE \E r \in Reviewers : FlushUpdate(r) \/ FlushEvent(r)
    BY <2>2, FlushKeepsAudit
  <2>3. CASE \E r \in Reviewers : LoseRace(r) \/ LoseItem(r) \/ CommitNothing(r)
    BY <2>3, QuietReviewKeepsAudit DEF LoseRace, LoseItem, CommitNothing
  <2>4. CASE \E r \in Reviewers : CommitReview(r)
    BY <2>4, CommitReviewKeepsAudit
  <2>5. CASE \E x \in Extractors : BeginExtraction(x) \/ RefuseExtraction(x)
                                   \/ SelectReviewed(x) \/ SelectUnreviewed(x)
    BY <2>5, QuietExtractionKeepsAudit
  <2>6. CASE \E x \in Extractors : GenerationFails(x) \/ \E i \in Items : LoseArchiveRace(x, i)
    BY <2>6, QuietExtractionKeepsAudit DEF GenerationFails, LoseArchiveRace
  <2>7. CASE \E x \in Extractors, i \in Items : ArchiveItem(x, i)
    BY <2>7, ArchiveKeepsAudit
  <2>8. CASE \E x \in Extractors, i \in Items : DeleteItem(x, i)
    BY <2>8, DeleteKeepsAudit
  <2>9. CASE \E x \in Extractors : CommitExtraction(x)
    BY <2>9, CommitExtractionKeepsAudit
  <2>10. CASE \E a \in Actors : Crash(a)
    BY <2>10, QuietReviewKeepsAudit, QuietExtractionKeepsAudit DEF Crash
  <2>11. CASE UNCHANGED vars
    <3> USE <2>11 DEF vars, tables, review_vars, extract_vars
    <3>1. WriterExclusive' /\ NoLostUpdate' /\ NotYetArchiving' /\ ArchivesCurrent'
      BY DEF AuditInv, WriterExclusive, WritesRow, NoLostUpdate, NotYetArchiving, ArchivesCurrent
    <3>2. ForeignKey' /\ SeqBound' /\ ReadsVersioned'
      BY DEF AuditInv, ForeignKey, SeqBound, ReadsVersioned
    <3>3. StagedShape' /\ StagedLast' /\ AuditTrailReplays'
      BY DEF AuditInv, StagedShape, StagedLast, AuditTrailReplays, Decisions, EventsOn
    <3> QED BY <3>1, <3>2, <3>3 DEF AuditInv
  <2> QED BY <2>1, <2>2, <2>3, <2>4, <2>5, <2>6, <2>7, <2>8, <2>9, <2>10, <2>11
          DEF Next, ReviewStep, ExtractionStep
<1> QED BY <1>1, <1>2, TypeCorrect, PTL DEF Spec

(* The committed decisions of every item replay, in order, to the review   *)
(* status it shows: whatever reviews, edits and re-extractions interleave, *)
(* the audit trail and the row never tell different stories.               *)
THEOREM AuditTrailCorrect == Spec => []AuditTrailReplays
<1>1. AuditInv => AuditTrailReplays
  BY DEF AuditInv
<1> QED BY <1>1, AuditInvariant, PTL

(* No request that has written overwrites a change it has not seen.        *)
THEOREM UpdatesNotLost == Spec => []NoLostUpdate
<1>1. AuditInv => NoLostUpdate
  BY DEF AuditInv
<1> QED BY <1>1, AuditInvariant, PTL

-----------------------------------------------------------------------------
(***************************************************************************)
(* The history.  Beside the audit invariant it takes that extractions are  *)
(* one at a time (OneExtraction), what a request may do to the row it read *)
(* (RequestsAccepted) and what its uncommitted events say (RatingsStaged), *)
(* that an event which tells something is of a row its transaction holds   *)
(* and comes after all that is told of it (TellingLast), that an item is   *)
(* archived once (ArchivesOnce, ArchivingExplained), and that an           *)
(* extraction which deletes has every untouched item on its list           *)
(* (Deletions).                                                            *)
(***************************************************************************)

(* Remarks, and ratings set to what they are, tell nothing.                *)
Telling(e) ==
  \/ e.previous_status # e.next_status \/ e.previous_risk # e.next_risk
  \/ e.action \in {"SET_STATUS", "EXTRACTION_ARCHIVED"}

ArchiveEvents(es) == {e \in es : e.action = "EXTRACTION_ARCHIVED"}

OneExtraction == \A x \in Extractors : pc[x] # "idle" => advisory_lock = x

AcceptedRequest(old, q) ==
  /\ q \in Body
  /\ q.action # "PATCH" => ~old.archived /\ Allowed(old.review_status, q.action)

RequestsAccepted ==
  \A r \in Reviewers : pc[r] # "idle" => AcceptedRequest(loaded[r], body[r])

RatingsOf(es, old, q) ==
  /\ es # {} /\ ArchiveEvents(es) = {}
  /\ RiskChanges(es) # {} <=> SetsRisk(old, q)
  /\ \A e \in RiskChanges(es) : e.next_risk = q.risk
  /\ StatusChanges(es) # {} <=> SetsStatus(old, q)
  /\ \A e \in StatusChanges(es) : e.extra.next = q.status

RatingsStaged ==
  \A r \in Reviewers :
    pc[r] = "flushed" => RatingsOf(staged[r], loaded[r], body[r])

TellingLast ==
  \A a \in Actors : \A e \in staged[a] : Telling(e) =>
    /\ WritesRow(a, e.item)
    /\ \A f \in EventsOn(e.item) : Telling(f) => f.seq < e.seq

ArchivesOf(es, seen, todo) ==
  /\ \A e \in es :
       /\ e.action = "EXTRACTION_ARCHIVED" /\ e.previous_risk = e.next_risk
       /\ ~seen[e.item].archived
       /\ \A f \in es : f.item = e.item => f = e
  /\ \A i \in todo : ~seen[i].archived /\ \A e \in es : e.item # i

ArchivesOnce ==
  \A x \in Extractors : ArchivesOf(staged[x], snapshot[x], selected[x])

ArchivedIn(es, archived) ==
  /\ archived => \E d : ArchiveEvents(es) = {d}
  /\ ~archived => ArchiveEvents(es) = {}

ArchivingExplained == \A i \in stored : ArchivedIn(EventsOn(i), row[i].archived)

Listed(x, i) == i \in doomed[x] \cup deleting[x] \/ \E e \in staged[x] : e.item = i

Deletions ==
  \A x \in Extractors :
    /\ pc[x] # "deleting" => doomed[x] = {} /\ deleting[x] = {}
    /\ \A i \in doomed[x] \cup deleting[x] : i \in stored /\ ~row[i].archived
    /\ \A i \in deleting[x] : row[i].review_status = "NEW"
    /\ pc[x] = "deleting" => \A i \in stored : Untouched(i) => Listed(x, i)

(* What is committed of items and events fits together.                    *)
CommittedInv == ArchivingExplained /\ RatingsReplay /\ UntouchedItemsAreCurrent

HistoryInv ==
  /\ OneExtraction /\ RequestsAccepted /\ RatingsStaged
  /\ TellingLast /\ ArchivesOnce /\ Deletions /\ CommittedInv

(* An extraction holds the advisory lock from its first step to its last.  *)
LEMMA LockIsHeld ==
  ASSUME TypeOK, OneExtraction, [Next]_vars
  PROVE  OneExtraction'
<1> USE ActorsAssumption DEF Actors, TypeOK, OneExtraction
<1>1. ASSUME NEW r \in Reviewers, LoadItem(r) \/ RefuseRequest(r) \/ FlushUpdate(r)
                                   \/ FlushEvent(r)
      PROVE  OneExtraction'
  BY <1>1 DEF LoadItem, RefuseRequest, FlushUpdate, FlushEvent
<1>2. ASSUME NEW a \in Actors, NEW result, End(a, result) PROVE OneExtraction'
  BY <1>2 DEF End
<1>3. ASSUME NEW x \in Extractors, BeginExtraction(x) \/ RefuseExtraction(x)
                                    \/ SelectReviewed(x) \/ SelectUnreviewed(x)
                                    \/ \E i \in Items : ArchiveItem(x, i) \/ DeleteItem(x, i)
      PROVE  OneExtraction'
  BY <1>3 DEF BeginExtraction, RefuseExtraction, SelectReviewed, SelectUnreviewed, ArchiveItem,
              DeleteItem
<1>4. CASE UNCHANGED vars
  BY <1>4 DEF vars
<1> QED BY <1>1, <1>2, <1>3, <1>4
        DEF Next, ReviewStep, ExtractionStep, LoseRace, LoseItem, CommitNothing, CommitReview,
            GenerationFails, LoseArchiveRace, CommitExtraction, Crash, RollbackReview,
            RollbackExtraction

(* The staged events of a request name its ratings, each once.             *)
LEMMA EventsRate ==
  ASSUME NEW s \in Nat, NEW i \in Items, NEW old \in EvidenceItem, NEW q \in Body,
         UpdatesSent(old, q) > 0 \/ q.action # "PATCH"
  PROVE  RatingsOf(EventsOf(s, i, old, q), old, q)
<1> DEFINE es == EventsOf(s, i, old, q)
<1>1. CASE q.action = "PATCH"
  <2> DEFINE t == IF SetsStatus(old, q) THEN s + 1 ELSE s
             e1 == Event(s, i, "SET_STATUS", old, old,
                         [previous |-> old.status, next |-> q.status])
             e2 == Event(t, i, "SET_RISK", old, Edited(old, q), NoExtra)
  <2>1. ~Moves(old, q)
    BY <1>1 DEF Moves, next_review_status, Decision
  <2>2. SetsStatus(old, q) \/ SetsRisk(old, q)
    BY <1>1, <2>1 DEF UpdatesSent
  <2>3. /\ SetsStatus(old, q) => e1 \in es
        /\ SetsRisk(old, q) => e2 \in es
        /\ \A e \in es : (e = e1 /\ SetsStatus(old, q)) \/ (e = e2 /\ SetsRisk(old, q))
    BY <1>1 DEF EventsOf, StatusEvents, RiskEvents
  <2>4. /\ e1.action = "SET_STATUS" /\ e1.previous_risk = e1.next_risk
        /\ e1.extra.next = q.status
    BY DEF Event
  <2>5. /\ e2.action = "SET_RISK" /\ e2.previous_risk = old.risk
        /\ SetsRisk(old, q) => e2.next_risk = q.risk /\ e2.next_risk # e2.previous_risk
    BY DEF Event, Edited, SetsRisk
  <2> HIDE DEF es, e1, e2
  <2> QED BY <2>2, <2>3, <2>4, <2>5 DEF RatingsOf, RiskChanges, StatusChanges, ArchiveEvents, es
<1>2. CASE q.action # "PATCH"
  <2> DEFINE d == Event(s, i, q.action, old, Edited(old, q), NoExtra)
  <2>1. es = {d}
    BY <1>2 DEF EventsOf
  <2>2. q \in ReviewRequest
    BY <1>2 DEF Body, EvidenceItemUpdate
  <2>3. q.action \notin {"SET_STATUS", "EXTRACTION_ARCHIVED"} /\ ~SetsStatus(old, q)
    BY <2>2 DEF ReviewRequest, SubmittableAction, SetsStatus
  <2>4. /\ d.action = q.action /\ d.previous_risk = old.risk
        /\ d.next_risk = IF SetsRisk(old, q) THEN q.risk ELSE old.risk
    BY DEF Event, Edited
  <2> HIDE DEF es, d
  <2> QED BY <2>1, <2>3, <2>4 DEF RatingsOf, RiskChanges, StatusChanges, ArchiveEvents, SetsRisk, es
<1> QED BY <1>1, <1>2

(* Requests go on only with what they were accepted for, and what they     *)
(* stage is what they will change.                                         *)
LEMMA RequestsKeepTheirWord ==
  ASSUME TypeOK, TypeOK', AuditInv, RequestsAccepted, RatingsStaged, [Next]_vars
  PROVE  RequestsAccepted' /\ RatingsStaged'
<1> USE ActorsAssumption DEF Actors
<1> DEFINE Stays(s) == /\ pc'[s] = pc[s] /\ staged'[s] = staged[s]
                       /\ loaded'[s] = loaded[s] /\ body'[s] = body[s]
           Word(s) == /\ pc'[s] # "idle" => AcceptedRequest(loaded'[s], body'[s])
                      /\ pc'[s] = "flushed" => RatingsOf(staged'[s], loaded'[s], body'[s])
<1>1. ASSUME NEW s \in Reviewers, Stays(s) PROVE Word(s)
  BY <1>1 DEF RequestsAccepted, RatingsStaged
<1>2. ASSUME NEW s \in Reviewers, pc'[s] = "idle" PROVE Word(s)
  BY <1>2
<1>3. ASSUME NEW r \in Reviewers, LoadItem(r), NEW s \in Reviewers PROVE Word(s)
  <2>1. CASE s # r
    BY <1>1, <1>3, <2>1 DEF LoadItem, TypeOK
  <2>2. CASE s = r
    <3>1. PICK i \in Items, q \in Submitted :
            /\ \E expected_version \in Versions : Accepts(i, q, expected_version)
            /\ body' = [body EXCEPT ![r] = q]
            /\ loaded' = [loaded EXCEPT ![r] = row[i]]
      BY <1>3 DEF LoadItem
    <3>2. AcceptedRequest(row[i], q)
      BY <3>1, SubmittedAssumption DEF Accepts, AcceptedRequest
    <3>3. body'[r] = q /\ loaded'[r] = row[i] /\ pc'[r] = "loaded"
      BY <1>3, <3>1 DEF LoadItem, TypeOK
    <3> QED BY <2>2, <3>2, <3>3
  <2> QED BY <2>1, <2>2
<1>4. ASSUME NEW r \in Reviewers, FlushUpdate(r) \/ FlushEvent(r), NEW s \in Reviewers
      PROVE  Word(s)
  <2>1. CASE s # r
    BY <1>1, <1>4, <2>1 DEF FlushUpdate, FlushEvent, TypeOK, review_vars
  <2>2. CASE s = r
    <3>1. /\ pc[r] = "loaded" /\ loaded' = loaded /\ body' = body
          /\ staged'[r] = EventsOf(next_seq, target[r], loaded[r], body[r])
          /\ UpdatesSent(loaded[r], body[r]) > 0 \/ body[r].action # "PATCH"
      BY <1>4 DEF FlushUpdate, FlushEvent, TypeOK, review_vars
    <3>2. AcceptedRequest(loaded[r], body[r])
      BY <3>1 DEF RequestsAccepted
    <3>3. target[r] \in Items /\ next_seq \in Nat /\ loaded[r] \in EvidenceItem
      BY <3>1 DEF AuditInv, ReadsVersioned, TypeOK
    <3>4. RatingsOf(staged'[r], loaded[r], body[r])
      BY <3>1, <3>2, <3>3, EventsRate DEF AcceptedRequest
    <3> QED BY <2>2, <3>1, <3>2, <3>4
  <2> QED BY <2>1, <2>2
<1>5. ASSUME NEW r \in Reviewers, NEW result, End(r, result), ForgetRequest(r),
             NEW s \in Reviewers
      PROVE  Word(s)
  <2>1. CASE s # r
    BY <1>1, <1>5, <2>1 DEF End, ForgetRequest, TypeOK
  <2>2. CASE s = r
    BY <1>2, <1>5, <2>2 DEF End, TypeOK
  <2> QED BY <2>1, <2>2
<1>6. ASSUME NEW r \in Reviewers, RefuseRequest(r), NEW s \in Reviewers PROVE Word(s)
  BY <1>1, <1>6 DEF RefuseRequest, review_vars
<1>7. ASSUME NEW x \in Extractors, NEW s \in Reviewers,
             \/ BeginExtraction(x) \/ RefuseExtraction(x) \/ SelectReviewed(x)
             \/ SelectUnreviewed(x) \/ \E i \in Items : ArchiveItem(x, i) \/ DeleteItem(x, i)
             \/ \E result : End(x, result) /\ ForgetExtraction(x)
      PROVE  Word(s)
  <2>1. Stays(s)
    BY <1>7 DEF BeginExtraction, RefuseExtraction, SelectReviewed, SelectUnreviewed, ArchiveItem,
                DeleteItem, End, ForgetExtraction, TypeOK, review_vars
  <2> QED BY <1>1, <2>1
<1>8. ASSUME UNCHANGED vars, NEW s \in Reviewers PROVE Word(s)
  BY <1>1, <1>8 DEF vars, review_vars
<1> HIDE DEF Word
<1>9. \A s \in Reviewers : Word(s)
  BY <1>3, <1>4, <1>5, <1>6, <1>7, <1>8
     DEF Next, ReviewStep, ExtractionStep, LoseRace, LoseItem, CommitNothing, CommitReview,
         GenerationFails, LoseArchiveRace, CommitExtraction, Crash, RollbackReview,
         RollbackExtraction
<1> QED BY <1>9 DEF Word, RequestsAccepted, RatingsStaged

(* What is committed says the same as long as the tables stay.             *)
LEMMA CommittedStay ==
  ASSUME CommittedInv, UNCHANGED tables
  PROVE  CommittedInv'
BY DEF CommittedInv, ArchivingExplained, RatingsReplay, UntouchedItemsAreCurrent, Untouched,
       EventsOn, tables

(* What a row says after its own last events is what they say.             *)
LEMMA LatestOfUnion ==
  ASSUME NEW es, NEW ds, \A e \in es \cup ds : e.seq \in Nat,
         \A e \in es, f \in ds : f.seq > e.seq, ds # {}
  PROVE  Latest(es \cup ds) \subseteq ds
BY DEF Latest

(* The ratings of an item after a request: those of the row it makes.      *)
LEMMA AppendRates ==
  ASSUME NEW es \in SUBSET EvidenceReviewEvent, NEW ds \in SUBSET EvidenceReviewEvent,
         NEW old, NEW q, NEW new, RatingsFollow(es, old), RatingsOf(ds, old, q),
         new.risk = IF SetsRisk(old, q) THEN q.risk ELSE old.risk,
         new.status = IF SetsStatus(old, q) THEN q.status ELSE old.status,
         \A e \in es, f \in ds : Telling(e) /\ Telling(f) => f.seq > e.seq
  PROVE  RatingsFollow(es \cup ds, new)
<1>0. \A e \in es \cup ds : e.seq \in Nat
  BY DEF EvidenceReviewEvent
<1>1. /\ RiskChanges(es \cup ds) = RiskChanges(es) \cup RiskChanges(ds)
      /\ StatusChanges(es \cup ds) = StatusChanges(es) \cup StatusChanges(ds)
  BY DEF RiskChanges, StatusChanges
<1>2. /\ \A e \in RiskChanges(es), f \in RiskChanges(ds) : f.seq > e.seq
      /\ \A e \in StatusChanges(es), f \in StatusChanges(ds) : f.seq > e.seq
  BY DEF RiskChanges, StatusChanges, Telling
<1>3. /\ \A e \in RiskChanges(es) \cup RiskChanges(ds) : e.seq \in Nat
      /\ \A e \in StatusChanges(es) \cup StatusChanges(ds) : e.seq \in Nat
  BY <1>0 DEF RiskChanges, StatusChanges
<1>4. /\ RiskChanges(es \cup ds) = {} => new.risk = "UNRATED"
      /\ \A e \in Latest(RiskChanges(es \cup ds)) : new.risk = e.next_risk
  <2>1. CASE SetsRisk(old, q)
    <3>1. RiskChanges(ds) # {}
      BY <2>1 DEF RatingsOf
    <3>2. Latest(RiskChanges(es \cup ds)) \subseteq RiskChanges(ds)
      BY <1>1, <1>2, <1>3, <3>1, LatestOfUnion
    <3> QED BY <1>1, <2>1, <3>1, <3>2 DEF RatingsOf
  <2>2. CASE ~SetsRisk(old, q)
    <3>1. RiskChanges(ds) = {}
      BY <2>2 DEF RatingsOf
    <3>2. RiskChanges(es \cup ds) = RiskChanges(es)
      BY <1>1, <3>1
    <3> QED BY <2>2, <3>2 DEF RatingsFollow
  <2> QED BY <2>1, <2>2
<1>5. /\ StatusChanges(es \cup ds) = {} => new.status = "OPEN"
      /\ \A e \in Latest(StatusChanges(es \cup ds)) : new.status = e.extra.next
  <2>1. CASE SetsStatus(old, q)
    <3>1. StatusChanges(ds) # {}
      BY <2>1 DEF RatingsOf
    <3>2. Latest(StatusChanges(es \cup ds)) \subseteq StatusChanges(ds)
      BY <1>1, <1>2, <1>3, <3>1, LatestOfUnion
    <3> QED BY <1>1, <2>1, <3>1, <3>2 DEF RatingsOf
  <2>2. CASE ~SetsStatus(old, q)
    <3>1. StatusChanges(ds) = {}
      BY <2>2 DEF RatingsOf
    <3>2. StatusChanges(es \cup ds) = StatusChanges(es)
      BY <1>1, <3>1
    <3> QED BY <2>2, <3>2 DEF RatingsFollow
  <2> QED BY <2>1, <2>2
<1> QED BY <1>4, <1>5 DEF RatingsFollow

(* Row locks are what their holder's own state says.                       *)
LEMMA LocksOfOthers ==
  ASSUME NEW a \in Actors, Others(a), NEW b \in Actors \ {a}, NEW i
  PROVE  WritesRow(b, i)' <=> WritesRow(b, i)
BY ActorsAssumption DEF Actors, Others, WritesRow

(* Reads, refusals and rollbacks of a request.                             *)
LEMMA QuietReviewKeepsHistory ==
  ASSUME AuditInv, HistoryInv, NEW r \in Reviewers,
         LoadItem(r) \/ RefuseRequest(r) \/ \E result : RollbackReview(r, result)
  PROVE  TellingLast' /\ ArchivesOnce' /\ Deletions' /\ CommittedInv'
<1> USE ActorsAssumption DEF Actors
<1>0. TypeOK /\ StagedShape /\ TellingLast /\ ArchivesOnce /\ Deletions /\ CommittedInv
  BY DEF AuditInv, HistoryInv
<1>1. UNCHANGED <<tables, extract_vars>>
  BY DEF LoadItem, RefuseRequest, RollbackReview, ForgetRequest
<1>2. Others(r)
  BY <1>0 DEF LoadItem, RefuseRequest, RollbackReview, End, ForgetRequest, TypeOK, Others,
              extract_vars, review_vars
<1>3. staged'[r] = {}
  BY <1>0 DEF LoadItem, RefuseRequest, RollbackReview, End, TypeOK, StagedShape, RequestShape
<1>4. TellingLast'
  <2> SUFFICES ASSUME NEW a \in Actors, NEW e \in staged'[a], Telling(e)
               PROVE  WritesRow(a, e.item)' /\ \A f \in EventsOn(e.item) : Telling(f) => f.seq < e.seq
    BY <1>1 DEF TellingLast, EventsOn, tables
  <2>1. a # r /\ e \in staged[a]
    BY <1>2, <1>3 DEF Others
  <2> QED BY <1>0, <1>2, <2>1, LocksOfOthers DEF TellingLast
<1>5. /\ \A x \in Extractors : staged'[x] = staged[x] /\ pc'[x] = pc[x]
      /\ snapshot' = snapshot /\ selected' = selected /\ doomed' = doomed
      /\ deleting' = deleting /\ stored' = stored /\ row' = row /\ events' = events
  BY <1>1, <1>2 DEF Others, extract_vars, tables
<1>6. ArchivesOnce' /\ Deletions'
  BY <1>0, <1>5 DEF ArchivesOnce, Deletions, Listed, Untouched, EventsOn
<1> QED BY <1>0, <1>1, <1>4, <1>6, CommittedStay

(* A flush stages what tells something only with the row's lock.           *)
LEMMA FlushKeepsHistory ==
  ASSUME AuditInv, HistoryInv, NEW r \in Reviewers, FlushUpdate(r) \/ FlushEvent(r)
  PROVE  TellingLast' /\ ArchivesOnce' /\ Deletions' /\ CommittedInv'
<1> USE ActorsAssumption DEF Actors
<1> DEFINE i == target[r]
           old == loaded[r]
           q == body[r]
           fresh == EventsOf(next_seq, i, old, q)
<1>0. TypeOK /\ SeqBound /\ TellingLast /\ ArchivesOnce /\ Deletions /\ CommittedInv
  BY DEF AuditInv, HistoryInv
<1>1. /\ pc[r] = "loaded" /\ i \in Items /\ next_seq \in Nat
      /\ old \in EvidenceItem /\ AcceptedRequest(old, q)
      /\ UpdatesSent(old, q) > 0 \/ q.action # "PATCH"
  BY <1>0 DEF TypeOK, FlushUpdate, FlushEvent, HistoryInv, RequestsAccepted, AuditInv,
              ReadsVersioned
<1>2. /\ staged'[r] = fresh /\ pc'[r] = "flushed" /\ UNCHANGED <<review_vars, extract_vars>>
      /\ stored' = stored /\ row' = row /\ events' = events /\ extractions' = extractions
      /\ \A a \in Actors \ {r} : staged'[a] = staged[a] /\ pc'[a] = pc[a]
  BY <1>0 DEF FlushUpdate, FlushEvent, TypeOK
<1>3. Others(r)
  BY <1>2 DEF Others, review_vars, extract_vars
<1>4. /\ EventsFollow(fresh, next_seq, i, old, q) /\ RatingsOf(fresh, old, q)
      /\ fresh \subseteq EvidenceReviewEvent
  BY <1>1, EventsShape, EventsRate, EventsType DEF AcceptedRequest, AnyBody
<1>5. ASSUME NEW e \in fresh, Telling(e)
      PROVE  e.item = i /\ e.seq >= next_seq /\ UpdatesSent(old, q) > 0
  <2>1. e.item = i /\ e.seq >= next_seq
    BY <1>4 DEF EventsFollow
  <2>2. Moves(old, q) \/ SetsRisk(old, q) \/ SetsStatus(old, q)
    <3>1. CASE e.previous_status # e.next_status
      BY <1>4, <3>1 DEF EventsFollow, Moves, Edited
    <3>2. CASE e.previous_risk # e.next_risk
      BY <1>4, <3>2 DEF RatingsOf, RiskChanges
    <3>3. CASE e.action = "SET_STATUS"
      BY <1>4, <3>3 DEF RatingsOf, StatusChanges
    <3>4. CASE e.action = "EXTRACTION_ARCHIVED"
      BY <1>4, <3>4 DEF RatingsOf, ArchiveEvents
    <3> QED BY <1>5, <3>1, <3>2, <3>3, <3>4 DEF Telling
  <2>3. UpdatesSent(old, q) > 0
    BY <2>2 DEF UpdatesSent
  <2> QED BY <2>1, <2>3
<1>6. TellingLast'
  <2> SUFFICES ASSUME NEW a \in Actors, NEW e \in staged'[a], Telling(e)
               PROVE  WritesRow(a, e.item)' /\ \A f \in EventsOn(e.item) : Telling(f) => f.seq < e.seq
    BY <1>2 DEF TellingLast, EventsOn
  <2>1. CASE a # r
    BY <1>0, <1>2, <1>3, <2>1, LocksOfOthers DEF TellingLast
  <2>2. CASE a = r
    <3>1. e \in fresh /\ e.item = i /\ e.seq >= next_seq /\ UpdatesSent(old, q) > 0
      BY <1>2, <1>5, <2>2
    <3>2. WritesRow(r, e.item)'
      BY <1>2, <3>1 DEF WritesRow, review_vars
    <3>3. ASSUME NEW f \in EventsOn(e.item) PROVE f.seq < e.seq
      <4>1. f \in EvidenceReviewEvent /\ e \in EvidenceReviewEvent /\ f.seq < next_seq
        BY <1>0, <1>4, <3>1 DEF EventsOn, TypeOK, SeqBound
      <4> QED BY <1>1, <3>1, <4>1 DEF EvidenceReviewEvent
    <3> QED BY <2>2, <3>1, <3>2, <3>3
  <2> QED BY <2>1, <2>2
<1>7. ArchivesOnce' /\ Deletions'
  BY <1>0, <1>2 DEF ArchivesOnce, Deletions, Listed, Untouched, EventsOn, extract_vars
<1>8. CommittedInv'
  BY <1>0, <1>2 DEF CommittedInv, ArchivingExplained, RatingsReplay, UntouchedItemsAreCurrent,
                    Untouched, EventsOn
<1> QED BY <1>6, <1>7, <1>8

(* An item is archived by the extraction that has found it live.           *)
LEMMA ArchiveKeepsHistory ==
  ASSUME AuditInv, HistoryInv, NEW x \in Extractors, NEW i \in Items, ArchiveItem(x, i)
  PROVE  TellingLast' /\ ArchivesOnce' /\ Deletions' /\ CommittedInv'
<1> USE ActorsAssumption DEF Actors
<1> DEFINE d == Event(next_seq, i, "EXTRACTION_ARCHIVED", snapshot[x][i], snapshot[x][i], NoExtra)
<1>0. TypeOK /\ SeqBound /\ TellingLast /\ ArchivesOnce /\ Deletions /\ CommittedInv
  BY DEF AuditInv, HistoryInv
<1>1. /\ staged'[x] = staged[x] \cup {d} /\ selected'[x] = selected[x] \ {i}
      /\ i \in selected[x] /\ pc' = pc
      /\ \A a \in Actors \ {x} : staged'[a] = staged[a]
      /\ \A y \in Extractors \ {x} : selected'[y] = selected[y]
      /\ snapshot' = snapshot /\ doomed' = doomed /\ deleting' = deleting
      /\ stored' = stored /\ row' = row /\ events' = events /\ extractions' = extractions
      /\ UNCHANGED review_vars
  BY <1>0 DEF ArchiveItem, TypeOK
<1>2. /\ d.item = i /\ d.action = "EXTRACTION_ARCHIVED" /\ d.previous_risk = d.next_risk
      /\ d.seq = next_seq
  BY DEF Event
<1> HIDE DEF d
<1>3. Others(x)
  BY <1>1 DEF Others, review_vars
<1>4. TellingLast'
  <2> SUFFICES ASSUME NEW a \in Actors, NEW e \in staged'[a], Telling(e)
               PROVE  WritesRow(a, e.item)' /\ \A f \in EventsOn(e.item) : Telling(f) => f.seq < e.seq
    BY <1>1 DEF TellingLast, EventsOn
  <2>1. CASE a # x
    BY <1>0, <1>1, <1>3, <2>1, LocksOfOthers DEF TellingLast
  <2>2. CASE a = x /\ e \in staged[x]
    <3>1. WritesRow(a, e.item)'
      BY <1>1, <2>2 DEF WritesRow
    <3> QED BY <1>0, <2>2, <3>1 DEF TellingLast
  <2>3. CASE a = x /\ e = d
    <3>1. WritesRow(a, e.item)'
      BY <1>1, <2>3 DEF WritesRow
    <3>2. \A f \in EventsOn(e.item) : f.seq < e.seq
      BY <1>0, <1>2, <2>3 DEF SeqBound, EventsOn
    <3> QED BY <3>1, <3>2
  <2> QED BY <1>1, <2>1, <2>2, <2>3
<1>5. ArchivesOnce'
  <2> SUFFICES ASSUME NEW y \in Extractors
               PROVE  ArchivesOf(staged'[y], snapshot'[y], selected'[y])
    BY DEF ArchivesOnce
  <2>1. ArchivesOf(staged[y], snapshot[y], selected[y])
    BY <1>0 DEF ArchivesOnce
  <2>2. CASE y # x
    BY <1>1, <2>1, <2>2
  <2>3. CASE y = x
    BY <1>1, <1>2, <2>1, <2>3 DEF ArchivesOf
  <2> QED BY <2>2, <2>3
<1>6. Deletions'
  BY <1>0, <1>1 DEF Deletions, Listed, Untouched, EventsOn
<1>7. CommittedInv'
  BY <1>0, <1>1 DEF CommittedInv, ArchivingExplained, RatingsReplay, UntouchedItemsAreCurrent,
                    Untouched, EventsOn
<1> QED BY <1>4, <1>5, <1>6, <1>7

(* A visited row that is still NEW goes on the list of deleted ones, and   *)
(* any other one has been touched.                                         *)
LEMMA DeleteKeepsHistory ==
  ASSUME AuditInv, HistoryInv, NEW x \in Extractors, NEW i \in Items, DeleteItem(x, i)
  PROVE  TellingLast' /\ ArchivesOnce' /\ Deletions' /\ CommittedInv'
<1> USE ActorsAssumption DEF Actors
<1>0. TypeOK /\ TellingLast /\ ArchivesOnce /\ Deletions /\ CommittedInv
  BY DEF AuditInv, HistoryInv
<1>1. /\ doomed'[x] = doomed[x] \ {i} /\ i \in doomed[x] /\ pc[x] = "deleting"
      /\ row[i].review_status = "NEW" => deleting'[x] = deleting[x] \cup {i}
      /\ row[i].review_status # "NEW" => deleting'[x] = deleting[x]
      /\ \A y \in Extractors \ {x} : doomed'[y] = doomed[y] /\ deleting'[y] = deleting[y]
      /\ UNCHANGED <<tables, pc, staged, review_vars, selected, snapshot>>
  BY <1>0 DEF DeleteItem, TypeOK
<1>2. ASSUME NEW a \in Actors, NEW j, WritesRow(a, j) PROVE WritesRow(a, j)'
  BY <1>1, <1>2 DEF WritesRow, review_vars
<1>3. TellingLast'
  BY <1>0, <1>1, <1>2 DEF TellingLast, EventsOn, tables
<1>4. ArchivesOnce'
  BY <1>0, <1>1 DEF ArchivesOnce
<1>5. Deletions'
  <2>1. \A j : Untouched(j)' <=> Untouched(j)
    BY <1>1 DEF Untouched, EventsOn, tables
  <2>2. ASSUME NEW j, Listed(x, j), Untouched(j) PROVE Listed(x, j)'
    BY <1>1, <2>2 DEF Listed, Untouched
  <2>3. ASSUME NEW y \in Extractors \ {x}, NEW j, Listed(y, j) PROVE Listed(y, j)'
    BY <1>1, <2>3 DEF Listed
  <2>4. /\ stored' = stored /\ row' = row /\ pc' = pc
    BY <1>1 DEF tables
  <2> QED BY <1>0, <1>1, <2>1, <2>2, <2>3, <2>4 DEF Deletions
<1> QED BY <1>0, <1>1, <1>3, <1>4, <1>5, CommittedStay

(* Begins, refusals, reads and rollbacks of an extraction: what it selects *)
(* for archiving is live, what it selects for deletion is untouched.       *)
LEMMA QuietExtractionKeepsHistory ==
  ASSUME AuditInv, HistoryInv, NEW x \in Extractors,
         \/ BeginExtraction(x) \/ RefuseExtraction(x) \/ SelectReviewed(x) \/ SelectUnreviewed(x)
         \/ \E result : RollbackExtraction(x, result)
  PROVE  TellingLast' /\ ArchivesOnce' /\ Deletions' /\ CommittedInv'
<1> USE ActorsAssumption DEF Actors
<1>0. /\ TypeOK /\ NotYetArchiving
      /\ TellingLast /\ ArchivesOnce /\ Deletions /\ CommittedInv
  BY DEF AuditInv, HistoryInv
<1>1. UNCHANGED tables /\ UNCHANGED review_vars
  BY DEF BeginExtraction, RefuseExtraction, SelectReviewed, SelectUnreviewed,
         RollbackExtraction, ForgetExtraction
<1>2. Others(x)
  BY <1>0 DEF BeginExtraction, RefuseExtraction, SelectReviewed, SelectUnreviewed,
              RollbackExtraction, ForgetExtraction, End, TypeOK, Others, extract_vars, review_vars
<1>3. \A y \in Extractors \ {x} : selected'[y] = selected[y] /\ doomed'[y] = doomed[y]
  BY <1>0 DEF BeginExtraction, RefuseExtraction, SelectReviewed, SelectUnreviewed,
              RollbackExtraction, ForgetExtraction, TypeOK, extract_vars
<1>4. \/ staged'[x] = {} /\ deleting'[x] = {}
      \/ staged'[x] = staged[x] /\ deleting'[x] = deleting[x]
  BY <1>0 DEF BeginExtraction, RefuseExtraction, SelectReviewed, SelectUnreviewed,
              RollbackExtraction, End, ForgetExtraction, TypeOK, extract_vars
<1>5. TellingLast'
  <2> SUFFICES ASSUME NEW a \in Actors, NEW e \in staged'[a], Telling(e)
               PROVE  WritesRow(a, e.item)' /\ \A f \in EventsOn(e.item) : Telling(f) => f.seq < e.seq
    BY <1>1 DEF TellingLast, EventsOn, tables
  <2>1. CASE a # x
    <3>1. e \in staged[a]
      BY <1>2, <2>1 DEF Others
    <3> QED BY <1>0, <1>2, <2>1, <3>1, LocksOfOthers DEF TellingLast
  <2>2. CASE a = x
    <3>1. e \in staged[x]
      BY <1>4, <2>2
    <3>2. WritesRow(x, e.item)'
      BY <2>2 DEF WritesRow
    <3> QED BY <1>0, <2>2, <3>1, <3>2 DEF TellingLast
  <2> QED BY <2>1, <2>2
<1>6. ArchivesOf(staged'[x], snapshot'[x], selected'[x])
  <2>1. ArchivesOf(staged[x], snapshot[x], selected[x])
    BY <1>0 DEF ArchivesOnce
  <2>2. CASE BeginExtraction(x) \/ RefuseExtraction(x) \/ SelectUnreviewed(x)
    BY <2>1, <2>2 DEF BeginExtraction, RefuseExtraction, SelectUnreviewed, extract_vars
  <2>3. CASE SelectReviewed(x)
    <3>1. staged'[x] = {} /\ snapshot'[x] = row /\ \A i \in selected'[x] : ~row[i].archived
      BY <1>0, <2>3 DEF SelectReviewed, NotYetArchiving, TypeOK, Reviewed
    <3> QED BY <3>1 DEF ArchivesOf
  <2>4. CASE \E result : RollbackExtraction(x, result)
    <3>1. staged'[x] = {} /\ selected'[x] = {}
      BY <1>0, <2>4 DEF RollbackExtraction, End, ForgetExtraction, TypeOK
    <3> QED BY <3>1 DEF ArchivesOf
  <2> QED BY <2>2, <2>3, <2>4
<1>7. ArchivesOnce'
  BY <1>0, <1>2, <1>3, <1>6 DEF ArchivesOnce, Others
<1>8. /\ pc'[x] # "deleting" => doomed'[x] = {} /\ deleting'[x] = {}
      /\ \A i \in doomed'[x] \cup deleting'[x] : i \in stored /\ ~row[i].archived
      /\ \A i \in deleting'[x] : row[i].review_status = "NEW"
      /\ pc'[x] = "deleting" => \A i \in stored : Untouched(i) => Listed(x, i)'
  <2>1. CASE BeginExtraction(x) \/ SelectReviewed(x)
    BY <1>0, <2>1 DEF BeginExtraction, SelectReviewed, Deletions, TypeOK, extract_vars
  <2>2. CASE RefuseExtraction(x)
    BY <1>0, <2>2 DEF RefuseExtraction, Deletions, TypeOK, extract_vars
  <2>3. CASE SelectUnreviewed(x)
    <3>1. /\ pc[x] = "archiving" /\ pc'[x] = "deleting" /\ staged'[x] = staged[x]
          /\ deleting'[x] = deleting[x] /\ deleting[x] = {}
          /\ doomed'[x] = {i \in stored : row[i].review_status = "NEW" /\ EventsOn(i) = {}
                                            /\ \A e \in staged[x] : e.item # i}
      BY <1>0, <2>3 DEF SelectUnreviewed, Deletions, TypeOK
    <3>2. ASSUME NEW i \in doomed'[x] PROVE i \in stored /\ ~row[i].archived
      <4>1. i \in stored /\ EventsOn(i) = {}
        BY <3>1, <3>2
      <4> QED BY <1>0, <4>1 DEF CommittedInv, ArchivingExplained, ArchivedIn, ArchiveEvents
    <3>3. ASSUME NEW i \in stored, Untouched(i) PROVE Listed(x, i)'
      BY <3>1, <3>3 DEF Untouched, Listed
    <3> QED BY <3>1, <3>2, <3>3
  <2>4. CASE \E result : RollbackExtraction(x, result)
    BY <1>0, <2>4 DEF RollbackExtraction, End, ForgetExtraction, TypeOK
  <2> QED BY <2>1, <2>2, <2>3, <2>4
<1>9. Deletions'
  <2>1. \A i : (Untouched(i)' <=> Untouched(i)) /\ stored' = stored /\ row' = row
    BY <1>1 DEF Untouched, EventsOn, tables
  <2>2. ASSUME NEW y \in Extractors \ {x}, NEW i, Listed(y, i) PROVE Listed(y, i)'
    BY <1>2, <1>3, <2>2 DEF Listed, Others
  <2> SUFFICES ASSUME NEW y \in Extractors
               PROVE  /\ pc'[y] # "deleting" => doomed'[y] = {} /\ deleting'[y] = {}
                      /\ \A i \in doomed'[y] \cup deleting'[y] : i \in stored /\ ~row[i].archived
                      /\ \A i \in deleting'[y] : row[i].review_status = "NEW"
                      /\ pc'[y] = "deleting" => \A i \in stored : Untouched(i) => Listed(y, i)'
    BY <2>1 DEF Deletions
  <2>3. CASE y = x
    BY <1>8, <2>3
  <2>4. CASE y # x
    BY <1>0, <1>2, <1>3, <2>2, <2>4 DEF Deletions, Others
  <2> QED BY <2>3, <2>4
<1> QED BY <1>0, <1>1, <1>5, <1>7, <1>9, CommittedStay

(* A request's commit extends the history of its item alone, and an item   *)
(* with an event is not untouched.                                         *)
LEMMA CommitReviewKeepsHistory ==
  ASSUME AuditInv, HistoryInv, TypeOK', NEW r \in Reviewers, CommitReview(r)
  PROVE  TellingLast' /\ ArchivesOnce' /\ Deletions' /\ CommittedInv'
<1> USE ActorsAssumption DEF Actors
<1> DEFINE old == loaded[r]
           q == body[r]
           writes == UpdatesSent(old, q) > 0
<1>0. /\ TypeOK /\ TellingLast /\ ArchivesOnce /\ Deletions /\ CommittedInv
  BY DEF AuditInv, HistoryInv
<1>i. PICK i \in Items : i = target[r]
  BY DEF AuditInv, StagedShape, RequestShape, CommitReview
<1>1. /\ pc[r] = "flushed" /\ i \in Items /\ old \in EvidenceItem
      /\ staged[r] \subseteq EvidenceReviewEvent /\ AcceptedRequest(old, q)
      /\ RatingsOf(staged[r], old, q) /\ \A e \in staged[r] : e.item = i
  BY <1>0, <1>i DEF AuditInv, TypeOK, CommitReview, StagedShape, RequestShape, HistoryInv,
              RequestsAccepted, RatingsStaged
<1>2. /\ writes => row'[i] = Edited(old, q)
      /\ ~writes => row'[i] = row[i]
      /\ \A j \in Items \ {i} : row'[j] = row[j]
      /\ events' = events \cup staged[r]
      /\ staged'[r] = {} /\ pc'[r] = "idle"
      /\ \A a \in Actors \ {r} : staged'[a] = staged[a] /\ pc'[a] = pc[a]
      /\ UNCHANGED extract_vars /\ stored' = stored /\ extractions' = extractions
  BY <1>0, <1>1, <1>i DEF CommitReview, TypeOK, End, ForgetRequest
<1>3. Others(r)
  BY <1>0, <1>2 DEF CommitReview, ForgetRequest, TypeOK, Others, extract_vars
<1>4. writes => WritesRow(r, i) /\ i \in stored /\ row[i] = old
  BY <1>1, <1>i DEF AuditInv, NoLostUpdate, WritesRow
<1>5. ~writes => ~SetsRisk(old, q) /\ ~SetsStatus(old, q)
  BY DEF UpdatesSent
<1>6. /\ Edited(old, q).archived = old.archived /\ Edited(old, q).batch = old.batch
      /\ Edited(old, q).risk = IF SetsRisk(old, q) THEN q.risk ELSE old.risk
      /\ Edited(old, q).status = IF SetsStatus(old, q) THEN q.status ELSE old.status
  BY DEF Edited
<1> HIDE DEF old, q, writes
<1>7. \A j \in Items \ {i} : EventsOn(j)' = EventsOn(j)
  BY <1>1, <1>2 DEF EventsOn
<1>8. EventsOn(i)' = EventsOn(i) \cup staged[r]
  BY <1>1, <1>2 DEF EventsOn
<1>9. ASSUME NEW j \in Items PROVE row'[j].archived = row[j].archived /\ row'[j].batch = row[j].batch
  BY <1>2, <1>4, <1>6
<1>10. ASSUME NEW j \in Items, Untouched(j)' PROVE Untouched(j)
  <2>1. CASE j = i
    BY <1>1, <1>8, <1>10, <2>1 DEF Untouched, RatingsOf
  <2>2. CASE j # i
    BY <1>2, <1>7, <1>10, <2>2 DEF Untouched
  <2> QED BY <2>1, <2>2
<1>11. ASSUME NEW a \in Actors \ {r}, NEW e \in staged[a], Telling(e), NEW f \in staged[r],
              Telling(f)
       PROVE  f.item # e.item
  <2>1. WritesRow(a, e.item) /\ WritesRow(r, f.item)
    BY <1>0, <1>11 DEF TellingLast
  <2> QED BY <1>1, <2>1 DEF AuditInv, WriterExclusive
<1>12. TellingLast'
  <2> SUFFICES ASSUME NEW a \in Actors, NEW e \in staged'[a], Telling(e)
               PROVE  /\ WritesRow(a, e.item)'
                      /\ \A f \in events' : f.item = e.item /\ Telling(f) => f.seq < e.seq
    BY DEF TellingLast, EventsOn
  <2>1. a # r /\ e \in staged[a]
    BY <1>2
  <2>2. WritesRow(a, e.item)'
    BY <1>0, <1>3, <2>1, LocksOfOthers DEF TellingLast
  <2>3. ASSUME NEW f \in events', f.item = e.item, Telling(f) PROVE f.seq < e.seq
    <3>1. f \notin staged[r]
      BY <1>11, <2>1, <2>3
    <3>2. f \in EventsOn(e.item)
      BY <1>2, <2>3, <3>1 DEF EventsOn
    <3> QED BY <1>0, <2>1, <2>3, <3>2 DEF TellingLast
  <2> QED BY <2>2, <2>3
<1>13. ArchivesOnce'
  BY <1>0, <1>2 DEF ArchivesOnce, extract_vars
<1>14. Deletions'
  <2> SUFFICES ASSUME NEW x \in Extractors
               PROVE  /\ pc[x] # "deleting" => doomed[x] = {} /\ deleting[x] = {}
                      /\ \A j \in doomed[x] \cup deleting[x] : j \in stored /\ ~row'[j].archived
                      /\ \A j \in deleting[x] : row'[j].review_status = "NEW"
                      /\ pc[x] = "deleting" => \A j \in stored : Untouched(j)' => Listed(x, j)'
    BY <1>2 DEF Deletions, extract_vars
  <2>1. ASSUME NEW j \in deleting[x] PROVE row'[j].review_status = "NEW"
    <3>1. j \in Items /\ WritesRow(x, j)
      BY <1>0, <2>1 DEF TypeOK, WritesRow
    <3>2. ~(j = i /\ writes)
      BY <1>4, <3>1 DEF AuditInv, WriterExclusive
    <3>3. row'[j] = row[j]
      BY <1>2, <3>1, <3>2
    <3> QED BY <1>0, <2>1, <3>3 DEF Deletions
  <2>2. ASSUME NEW j \in doomed[x] \cup deleting[x] PROVE j \in stored /\ ~row'[j].archived
    BY <1>0, <1>9 DEF Deletions, TypeOK
  <2>3. ASSUME pc[x] = "deleting", NEW j \in stored, Untouched(j)' PROVE Listed(x, j)'
    <3>1. Listed(x, j)
      BY <1>0, <1>10, <2>3 DEF Deletions, TypeOK
    <3> QED BY <1>2, <3>1 DEF Listed, extract_vars
  <2> QED BY <1>0, <2>1, <2>2, <2>3 DEF Deletions
<1>15. ArchivingExplained'
  <2> SUFFICES ASSUME NEW j \in stored PROVE ArchivedIn(EventsOn(j)', row'[j].archived)
    BY <1>2 DEF ArchivingExplained
  <2>1. j \in Items /\ ArchivedIn(EventsOn(j), row[j].archived)
    BY <1>0 DEF TypeOK, CommittedInv, ArchivingExplained
  <2>2. ArchiveEvents(EventsOn(j)') = ArchiveEvents(EventsOn(j))
    BY <1>1, <1>7, <1>8, <2>1 DEF RatingsOf, ArchiveEvents
  <2> QED BY <1>9, <2>1, <2>2 DEF ArchivedIn
<1>16. RatingsReplay'
  <2> SUFFICES ASSUME NEW j \in stored PROVE RatingsFollow(EventsOn(j)', row'[j])
    BY <1>2 DEF RatingsReplay
  <2>1. j \in Items /\ RatingsFollow(EventsOn(j), row[j])
    BY <1>0 DEF TypeOK, CommittedInv, RatingsReplay
  <2>2. CASE j = i /\ writes
    <3>1. EventsOn(j) \subseteq EvidenceReviewEvent
      BY <1>0 DEF EventsOn, TypeOK
    <3>2. \A e \in EventsOn(j), f \in staged[r] : Telling(e) /\ Telling(f) => f.seq > e.seq
      <4> SUFFICES ASSUME NEW e \in EventsOn(j), NEW f \in staged[r], Telling(e), Telling(f)
                   PROVE  f.seq > e.seq
        OBVIOUS
      <4>1. e.seq < f.seq
        BY <1>0, <1>1, <2>2 DEF TellingLast
      <4>2. e \in EvidenceReviewEvent /\ f \in EvidenceReviewEvent
        BY <1>1, <3>1
      <4> QED BY <4>1, <4>2 DEF EvidenceReviewEvent
    <3>3. RatingsFollow(EventsOn(j), old) /\ row'[j] = Edited(old, q)
      BY <1>2, <1>4, <2>1, <2>2
    <3>4. RatingsFollow(EventsOn(j) \cup staged[r], Edited(old, q))
      BY <1>1, <1>6, <3>1, <3>2, <3>3, AppendRates
    <3> QED BY <1>8, <2>2, <3>3, <3>4
  <2>3. CASE j = i /\ ~writes
    <3>1. RiskChanges(staged[r]) = {} /\ StatusChanges(staged[r]) = {}
      BY <1>1, <1>5, <2>3 DEF RatingsOf
    <3>2. /\ RiskChanges(EventsOn(j)') = RiskChanges(EventsOn(j))
          /\ StatusChanges(EventsOn(j)') = StatusChanges(EventsOn(j))
      BY <1>8, <2>3, <3>1 DEF RiskChanges, StatusChanges
    <3>3. row'[j] = row[j]
      BY <1>2, <2>3
    <3> QED BY <2>1, <3>2, <3>3 DEF RatingsFollow
  <2>4. CASE j # i
    BY <1>2, <1>7, <2>1, <2>4
  <2> QED BY <2>2, <2>3, <2>4
<1>17. UntouchedItemsAreCurrent'
  BY <1>0, <1>2, <1>9, <1>10 DEF CommittedInv, UntouchedItemsAreCurrent, TypeOK
<1> QED BY <1>12, <1>13, <1>14, <1>15, <1>16, <1>17 DEF CommittedInv

(* An extraction's commit leaves of the old items only touched ones: what  *)
(* nobody has touched it deletes, what it archives gets its event.         *)
LEMMA CommitExtractionKeepsHistory ==
  ASSUME AuditInv, HistoryInv, TypeOK', NEW x \in Extractors, CommitExtraction(x)
  PROVE  TellingLast' /\ ArchivesOnce' /\ Deletions' /\ CommittedInv'
<1> USE ActorsAssumption DEF Actors
<1>0. /\ TypeOK /\ TellingLast /\ ArchivesOnce /\ Deletions /\ CommittedInv
  BY DEF AuditInv, HistoryInv
<1>1. PICK new \in SUBSET {i \in Items \ stored : row[i] # Gone} :
        /\ stored' = (stored \ deleting[x]) \cup new
        /\ row' = [i \in Items |->
             IF i \in new THEN NewItem(extractions + 1)
             ELSE IF i \in deleting[x] THEN Gone
             ELSE IF \E e \in staged[x] : e.item = i THEN Archived(snapshot[x][i])
             ELSE row[i]]
  BY DEF CommitExtraction
<1>2. /\ pc[x] = "deleting" /\ doomed[x] = {} /\ extractions' = extractions + 1
      /\ events' = {e \in events : e.item \notin deleting[x]} \cup staged[x]
      /\ staged'[x] = {} /\ pc'[x] = "idle"
      /\ selected'[x] = {} /\ doomed'[x] = {} /\ deleting'[x] = {}
      /\ \A a \in Actors \ {x} : staged'[a] = staged[a] /\ pc'[a] = pc[a]
      /\ \A y \in Extractors \ {x} :
           /\ selected'[y] = selected[y] /\ snapshot'[y] = snapshot[y]
           /\ doomed'[y] = doomed[y] /\ deleting'[y] = deleting[y]
  BY <1>0 DEF TypeOK, CommitExtraction, End, ForgetExtraction
<1>3. Others(x)
  BY <1>0, <1>2 DEF CommitExtraction, ForgetExtraction, Others, review_vars
<1>4. \A y \in Extractors \ {x} : pc[y] = "idle"
  BY <1>2 DEF HistoryInv, OneExtraction
<1>5. /\ \A e \in events : e.item \in stored
      /\ \A e \in staged[x] : /\ e.item \in stored /\ e.item \notin deleting[x]
                              /\ row[e.item] = snapshot[x][e.item]
                              /\ e.previous_status = e.next_status
  BY DEF AuditInv, ForeignKey, ArchivesCurrent
<1>6. ArchivesOf(staged[x], snapshot[x], selected[x])
  BY <1>0 DEF ArchivesOnce
<1>7. ASSUME NEW i \in new PROVE i \notin stored /\ EventsOn(i)' = {}
  BY <1>2, <1>5 DEF EventsOn
<1>8. ASSUME NEW i \in stored, i \notin deleting[x]
      PROVE  EventsOn(i)' = EventsOn(i) \cup {e \in staged[x] : e.item = i}
  BY <1>2, <1>8 DEF EventsOn
<1>9. ASSUME NEW i \in stored', i \notin new
      PROVE  /\ i \in stored /\ i \in Items /\ i \notin deleting[x]
             /\ (\A e \in staged[x] : e.item # i)
                  => row'[i] = row[i] /\ EventsOn(i)' = EventsOn(i)
             /\ \A e \in staged[x] : e.item = i
                  => row'[i] = Archived(row[i]) /\ EventsOn(i)' = EventsOn(i) \cup {e}
  <2>1. i \in stored /\ i \in Items /\ i \notin deleting[x]
    BY <1>0, <1>1, <1>9 DEF TypeOK
  <2>2. ASSUME \A e \in staged[x] : e.item # i
        PROVE  row'[i] = row[i] /\ EventsOn(i)' = EventsOn(i)
    BY <1>1, <1>8, <1>9, <2>1, <2>2
  <2>3. ASSUME NEW e \in staged[x], e.item = i
        PROVE  row'[i] = Archived(row[i]) /\ EventsOn(i)' = EventsOn(i) \cup {e}
    <3>1. row'[i] = Archived(row[i])
      BY <1>1, <1>5, <1>9, <2>1, <2>3
    <3>2. {f \in staged[x] : f.item = i} = {e}
      BY <1>6, <2>3 DEF ArchivesOf
    <3> QED BY <1>8, <2>1, <3>1, <3>2
  <2> QED BY <2>1, <2>2, <2>3
<1>10. ASSUME NEW e \in staged[x]
       PROVE  /\ e.action = "EXTRACTION_ARCHIVED" /\ e.previous_risk = e.next_risk
              /\ ~row[e.item].archived
  BY <1>5, <1>6 DEF ArchivesOf
<1>11. TellingLast'
  <2> SUFFICES ASSUME NEW a \in Actors, NEW e \in staged'[a], Telling(e)
               PROVE  /\ WritesRow(a, e.item)'
                      /\ \A f \in events' : f.item = e.item /\ Telling(f) => f.seq < e.seq
    BY DEF TellingLast, EventsOn
  <2>1. a # x /\ e \in staged[a]
    BY <1>2
  <2>2. WritesRow(a, e.item)'
    BY <1>0, <1>3, <2>1, LocksOfOthers DEF TellingLast
  <2>3. ASSUME NEW f \in events', f.item = e.item, Telling(f) PROVE f.seq < e.seq
    <3>1. ASSUME f \in staged[x] PROVE FALSE
      <4>1. e.item \in Items /\ WritesRow(x, e.item) /\ WritesRow(a, e.item)
        BY <1>0, <1>5, <2>1, <2>3, <3>1 DEF TellingLast, WritesRow, TypeOK
      <4> QED BY <2>1, <4>1 DEF AuditInv, WriterExclusive
    <3>2. f \in EventsOn(e.item)
      BY <1>2, <2>3, <3>1 DEF EventsOn
    <3> QED BY <1>0, <2>1, <2>3, <3>2 DEF TellingLast
  <2> QED BY <2>2, <2>3
<1>12. ArchivesOnce'
  <2> SUFFICES ASSUME NEW y \in Extractors
               PROVE  ArchivesOf(staged'[y], snapshot'[y], selected'[y])
    BY DEF ArchivesOnce
  <2>1. CASE y = x
    BY <1>2, <2>1 DEF ArchivesOf
  <2>2. CASE y # x
    BY <1>0, <1>2, <2>2 DEF ArchivesOnce
  <2> QED BY <2>1, <2>2
<1>13. Deletions'
  <2>1. \A y \in Extractors : pc'[y] = "idle" /\ doomed'[y] = {} /\ deleting'[y] = {}
    BY <1>0, <1>2, <1>4 DEF Deletions
  <2> QED BY <2>1 DEF Deletions
<1>14. ArchivingExplained'
  <2> SUFFICES ASSUME NEW i \in stored' PROVE ArchivedIn(EventsOn(i)', row'[i].archived)
    BY DEF ArchivingExplained
  <2>1. CASE i \in new
    <3>1. row'[i] = NewItem(extractions + 1) /\ EventsOn(i)' = {}
      BY <1>1, <1>7, <2>1
    <3> QED BY <3>1 DEF ArchivedIn, ArchiveEvents, NewItem
  <2>2. CASE i \notin new /\ \A e \in staged[x] : e.item # i
    BY <1>0, <1>9, <2>2 DEF CommittedInv, ArchivingExplained
  <2>3. ASSUME i \notin new, NEW e \in staged[x], e.item = i
        PROVE  ArchivedIn(EventsOn(i)', row'[i].archived)
    <3>1. /\ i \in stored /\ row'[i] = Archived(row[i]) /\ EventsOn(i)' = EventsOn(i) \cup {e}
          /\ e.action = "EXTRACTION_ARCHIVED" /\ ~row[i].archived
      BY <1>9, <1>10, <2>3
    <3>2. ArchiveEvents(EventsOn(i)) = {}
      BY <1>0, <3>1 DEF CommittedInv, ArchivingExplained, ArchivedIn
    <3>3. ArchiveEvents(EventsOn(i)') = {e}
      BY <3>1, <3>2 DEF ArchiveEvents
    <3>4. row'[i].archived = TRUE
      BY <3>1 DEF Archived
    <3> QED BY <3>3, <3>4 DEF ArchivedIn
  <2> QED BY <2>1, <2>2, <2>3
<1>15. RatingsReplay'
  <2> SUFFICES ASSUME NEW i \in stored' PROVE RatingsFollow(EventsOn(i)', row'[i])
    BY DEF RatingsReplay
  <2>1. CASE i \in new
    <3>1. row'[i] = NewItem(extractions + 1) /\ EventsOn(i)' = {}
      BY <1>1, <1>7, <2>1
    <3> QED BY <3>1 DEF RatingsFollow, RiskChanges, StatusChanges, Latest, NewItem
  <2>2. CASE i \notin new /\ \A e \in staged[x] : e.item # i
    BY <1>0, <1>9, <2>2 DEF CommittedInv, RatingsReplay
  <2>3. ASSUME i \notin new, NEW e \in staged[x], e.item = i
        PROVE  RatingsFollow(EventsOn(i)', row'[i])
    <3>1. /\ i \in stored /\ row'[i] = Archived(row[i]) /\ EventsOn(i)' = EventsOn(i) \cup {e}
          /\ e.action = "EXTRACTION_ARCHIVED" /\ e.previous_risk = e.next_risk
      BY <1>9, <1>10, <2>3
    <3>2. /\ RiskChanges(EventsOn(i)') = RiskChanges(EventsOn(i))
          /\ StatusChanges(EventsOn(i)') = StatusChanges(EventsOn(i))
      BY <3>1 DEF RiskChanges, StatusChanges
    <3>3. row'[i].risk = row[i].risk /\ row'[i].status = row[i].status
      BY <3>1 DEF Archived
    <3>4. RatingsFollow(EventsOn(i), row[i])
      BY <1>0, <3>1 DEF CommittedInv, RatingsReplay
    <3> QED BY <3>2, <3>3, <3>4 DEF RatingsFollow
  <2> QED BY <2>1, <2>2, <2>3
<1>16. UntouchedItemsAreCurrent'
  <2> SUFFICES ASSUME NEW i \in stored', Untouched(i)' PROVE row'[i].batch = extractions'
    BY DEF UntouchedItemsAreCurrent
  <2>1. CASE i \in new
    BY <1>1, <1>2, <2>1 DEF NewItem
  <2>2. CASE i \notin new
    <3>1. \A e \in staged[x] : e.item # i
      BY <1>9, <2>2 DEF Untouched
    <3>2. i \in stored /\ i \notin deleting[x] /\ Untouched(i)
      BY <1>9, <2>2, <3>1 DEF Untouched
    <3>3. Listed(x, i)
      BY <1>0, <1>2, <3>2 DEF Deletions
    <3> QED BY <1>2, <3>1, <3>2, <3>3 DEF Listed
  <2> QED BY <2>1, <2>2
<1> QED BY <1>11, <1>12, <1>13, <1>14, <1>15, <1>16 DEF CommittedInv

(* Every reachable state satisfies the history's inductive invariant.      *)
THEOREM HistoryInvariant == Spec => []HistoryInv
<1>1. Init => HistoryInv
  <2> SUFFICES ASSUME Init PROVE HistoryInv
    OBVIOUS
  <2>1. OneExtraction /\ RequestsAccepted /\ RatingsStaged /\ TellingLast
    BY ActorsAssumption DEF Init, OneExtraction, RequestsAccepted, RatingsStaged, TellingLast,
                            Actors
  <2>2. ArchivesOnce /\ Deletions
    BY ActorsAssumption DEF Init, ArchivesOnce, ArchivesOf, Deletions, Actors
  <2>3. CommittedInv
    BY DEF Init, CommittedInv, ArchivingExplained, RatingsReplay, UntouchedItemsAreCurrent
  <2> QED BY <2>1, <2>2, <2>3 DEF HistoryInv
<1>2. AuditInv /\ AuditInv' /\ HistoryInv /\ [Next]_vars => HistoryInv'
  <2> SUFFICES ASSUME AuditInv, AuditInv', HistoryInv, [Next]_vars PROVE HistoryInv'
    OBVIOUS
  <2> DEFINE Goal == TellingLast' /\ ArchivesOnce' /\ Deletions' /\ CommittedInv'
  <2>0. TypeOK /\ TypeOK'
    BY DEF AuditInv
  <2>1. OneExtraction' /\ RequestsAccepted' /\ RatingsStaged'
    BY <2>0, LockIsHeld, RequestsKeepTheirWord DEF HistoryInv
  <2>2. ASSUME NEW r \in Reviewers, LoadItem(r) \/ RefuseRequest(r) \/ LoseRace(r) \/ LoseItem(r)
                                    \/ CommitNothing(r) \/ RollbackReview(r, "answered")
        PROVE  Goal
    BY <2>2, QuietReviewKeepsHistory DEF LoseRace, LoseItem, CommitNothing
  <2>3. ASSUME NEW r \in Reviewers, FlushUpdate(r) \/ FlushEvent(r) PROVE Goal
    BY <2>3, FlushKeepsHistory
  <2>4. ASSUME NEW r \in Reviewers, CommitReview(r) PROVE Goal
    BY <2>0, <2>4, CommitReviewKeepsHistory
  <2>5. ASSUME NEW x \in Extractors,
               \/ BeginExtraction(x) \/ RefuseExtraction(x) \/ GenerationFails(x)
               \/ SelectReviewed(x) \/ SelectUnreviewed(x) \/ \E i \in Items : LoseArchiveRace(x, i)
               \/ RollbackExtraction(x, "answered")
        PROVE  Goal
    BY <2>5, QuietExtractionKeepsHistory DEF GenerationFails, LoseArchiveRace
  <2>6. ASSUME NEW x \in Extractors, NEW i \in Items, ArchiveItem(x, i) PROVE Goal
    BY <2>6, ArchiveKeepsHistory
  <2>7. ASSUME NEW x \in Extractors, NEW i \in Items, DeleteItem(x, i) PROVE Goal
    BY <2>7, DeleteKeepsHistory
  <2>8. ASSUME NEW x \in Extractors, CommitExtraction(x) PROVE Goal
    BY <2>0, <2>8, CommitExtractionKeepsHistory
  <2>9. ASSUME UNCHANGED vars PROVE Goal
    <3>1. TellingLast'
      BY <2>9 DEF HistoryInv, TellingLast, EventsOn, WritesRow, vars, tables, review_vars,
                  extract_vars
    <3>2. ArchivesOnce' /\ Deletions'
      BY <2>9 DEF HistoryInv, ArchivesOnce, Deletions, Listed, Untouched, EventsOn, vars, tables,
                  extract_vars
    <3>3. CommittedInv'
      BY <2>9, CommittedStay DEF HistoryInv, vars
    <3> QED BY <3>1, <3>2, <3>3
  <2> HIDE DEF Goal
  <2>10. Goal
    BY <2>2, <2>3, <2>4, <2>5, <2>6, <2>7, <2>8, <2>9
       DEF Next, ReviewStep, ExtractionStep, Crash
  <2> QED BY <2>1, <2>10 DEF HistoryInv, Goal
<1> QED BY <1>1, <1>2, AuditInvariant, PTL DEF Spec

(* The last committed event about a rating names the one the row shows,    *)
(* however PATCHes, reviews and re-extractions interleave.                 *)
THEOREM RatingsReplayed == Spec => []RatingsReplay
<1>1. HistoryInv => RatingsReplay
  BY DEF HistoryInv, CommittedInv
<1> QED BY <1>1, HistoryInvariant, PTL

(* Whatever items nobody has touched are of the latest extraction: a       *)
(* re-extraction replaces all of them, while reviews go on meanwhile.      *)
THEOREM NoStaleItems == Spec => []UntouchedItemsAreCurrent
<1>1. HistoryInv => UntouchedItemsAreCurrent
  BY DEF HistoryInv, CommittedInv
<1> QED BY <1>1, HistoryInvariant, PTL

-----------------------------------------------------------------------------
(***************************************************************************)
(* The refinement.  A request takes effect when it commits, an extraction  *)
(* as a whole when it commits; every other step leaves the items as they   *)
(* are.                                                                    *)
(***************************************************************************)

(* What a reader sees of an item, as ReviewWorkflow names it.              *)
PhaseOf(i) ==
  IF i \notin stored
  THEN IF row[i] = Gone THEN "deleted" ELSE "absent"
  ELSE IF row[i].archived THEN "archived" ELSE "live"

ViewOf(i) ==
  [review_status |-> row[i].review_status, risk |-> row[i].risk, status |-> row[i].status]

Phases == [i \in Items |-> PhaseOf(i)]

Views == [i \in Items |-> ViewOf(i)]

(* Rows that stay look the same.                                           *)
LEMMA RowsStay ==
  ASSUME stored' = stored, row' = row
  PROVE  UNCHANGED Workflow!vars
BY DEF Workflow!vars

(* The commit of a request decides on a live item, or rates one.           *)
LEMMA CommitReviewIsWorkflow ==
  ASSUME AuditInv, HistoryInv, NEW r \in Reviewers, CommitReview(r)
  PROVE  [Workflow!Next]_(Workflow!vars)
<1> DEFINE old == loaded[r]
           q == body[r]
           new == Edited(old, q)
<1>0. TypeOK
  BY DEF AuditInv
<1>1. PICK i \in Items : i = target[r]
  BY DEF AuditInv, StagedShape, RequestShape, CommitReview
<1>2. AcceptedRequest(old, q)
  BY DEF HistoryInv, RequestsAccepted, CommitReview
<1>3. CASE ~(UpdatesSent(old, q) > 0)
  <2>1. stored' = stored /\ row' = row
    BY <1>0, <1>3 DEF CommitReview, TypeOK
  <2> QED BY <2>1, RowsStay
<1>4. CASE UpdatesSent(old, q) > 0
  <2>1. i \in stored /\ row[i] = old /\ stored' = stored /\ row' = [row EXCEPT ![i] = new]
    BY <1>1, <1>4 DEF CommitReview, AuditInv, NoLostUpdate
  <2>2. /\ row'[i] = new /\ \A j \in Items \ {i} : row'[j] = row[j]
    BY <1>0, <2>1 DEF TypeOK
  <2>3. /\ new.archived = old.archived
        /\ new.review_status = next_review_status(old.review_status, q.action)
    BY DEF Edited
  <2>4. Phases' = Phases
    <3>1. \A j \in Items : PhaseOf(j)' = PhaseOf(j)
      BY <2>1, <2>2, <2>3 DEF PhaseOf
    <3> QED BY <3>1 DEF Phases
  <2>5. \A j \in Items \ {i} : Views'[j] = Views[j]
    BY <2>2 DEF Views, ViewOf
  <2>6. /\ Views[i] = [review_status |-> old.review_status, risk |-> old.risk,
                       status |-> old.status]
        /\ Views'[i] = [review_status |-> new.review_status, risk |-> new.risk,
                        status |-> new.status]
    BY <2>1, <2>2 DEF Views, ViewOf
  <2>7. CASE Moves(old, q)
    <3>1. q.action \in {"START_REVIEW", "APPROVE", "REJECT", "REQUEST_REVISION"}
      BY <2>7 DEF Moves, next_review_status, Decision
    <3>2. q \in ReviewRequest
      BY <1>2, <3>1 DEF AcceptedRequest, Body, EvidenceItemUpdate
    <3>3. new.risk = old.risk /\ new.status = old.status
      BY <3>1, <3>2 DEF Edited, SetsRisk, SetsStatus, ReviewRequest
    <3>4. ~old.archived /\ Allowed(old.review_status, q.action)
      BY <1>2, <3>1 DEF AcceptedRequest
    <3>5. <<old.review_status, new.review_status>> \in Workflow!Graph
      <4>1. old.review_status \in ReviewStatus
        BY <1>0 DEF TypeOK, EvidenceItem
      <4> QED BY <2>3, <3>1, <3>4, <4>1
              DEF Allowed, Decision, next_review_status, ReviewStatus, Workflow!Graph
    <3>6. Phases[i] = "live"
      BY <2>1, <3>4 DEF Phases, PhaseOf
    <3>7. Views' = [Views EXCEPT ![i].review_status = new.review_status]
      <4>1. Views'[i] = [Views[i] EXCEPT !.review_status = new.review_status]
        BY <2>6, <3>3
      <4> QED BY <2>5, <4>1 DEF Views
    <3>8. new.review_status
            \in {edge[2] : edge \in {g \in Workflow!Graph : g[1] = Views[i].review_status}}
      BY <2>6, <3>5
    <3>9. Workflow!Decide(i)
      BY <2>4, <3>6, <3>7, <3>8 DEF Workflow!Decide, Phases, Views, PhaseOf, ViewOf
    <3> QED BY <3>9 DEF Workflow!Next
  <2>8. CASE ~Moves(old, q)
    <3>1. new.review_status = old.review_status
      BY <2>3, <2>8 DEF Moves
    <3>2. Phases[i] \in {"live", "archived"}
      BY <2>1 DEF Phases, PhaseOf
    <3>3. new.risk \in Risks /\ new.status \in Statuses
      <4>1. old \in EvidenceItem /\ q \in AnyBody
        BY <1>0, <1>2 DEF TypeOK, AcceptedRequest, AnyBody
      <4>2. new \in EvidenceItem
        BY <4>1, EditedType
      <4> QED BY <4>2 DEF EvidenceItem
    <3>4. Views' = [Views EXCEPT ![i].risk = new.risk, ![i].status = new.status]
      <4> DEFINE rated == [Views[i] EXCEPT !.risk = new.risk]
      <4>1. rated = [review_status |-> old.review_status, risk |-> new.risk,
                     status |-> old.status]
        BY <2>6
      <4> HIDE DEF rated
      <4>2. Views'[i] = [rated EXCEPT !.status = new.status]
        BY <2>6, <3>1, <4>1
      <4> DEFINE once == [Views EXCEPT ![i].risk = new.risk]
      <4>3. /\ once = [j \in Items |-> once[j]] /\ once[i] = rated
            /\ \A j \in Items \ {i} : once[j] = Views[j]
        BY DEF Views, rated
      <4> HIDE DEF once
      <4>4. Views' = [once EXCEPT ![i].status = new.status]
        BY <2>5, <4>2, <4>3 DEF Views
      <4> QED BY <4>4 DEF once
    <3>5. Workflow!Rate(i)
      BY <2>4, <3>2, <3>3, <3>4 DEF Workflow!Rate, Phases, Views, PhaseOf, ViewOf
    <3> QED BY <3>5 DEF Workflow!Next
  <2> QED BY <2>7, <2>8
<1> QED BY <1>3, <1>4

(* The commit of an extraction is the extraction: it adds items that never *)
(* were, archives live ones and drops live ones nobody has decided on.     *)
LEMMA CommitExtractionIsWorkflow ==
  ASSUME AuditInv, HistoryInv, NEW x \in Extractors, CommitExtraction(x)
  PROVE  Workflow!Next
<1>0. TypeOK /\ Deletions /\ ArchivesOnce
  BY DEF AuditInv, HistoryInv
<1>a. PICK superseded \in SUBSET Items : superseded = {i \in Items : \E e \in staged[x] : e.item = i}
  OBVIOUS
<1>b. PICK dropped \in SUBSET Items : dropped = deleting[x]
  BY <1>0 DEF TypeOK
<1>1. PICK new \in SUBSET {i \in Items \ stored : row[i] # Gone} :
        /\ stored' = (stored \ deleting[x]) \cup new
        /\ row' = [i \in Items |->
             IF i \in new THEN NewItem(extractions + 1)
             ELSE IF i \in deleting[x] THEN Gone
             ELSE IF \E e \in staged[x] : e.item = i THEN Archived(snapshot[x][i])
             ELSE row[i]]
  BY DEF CommitExtraction
<1>2. new \in SUBSET Items /\ superseded \in SUBSET Items /\ dropped \in SUBSET Items
  BY <1>0, <1>1 DEF TypeOK
<1>3. /\ \A e \in staged[x] : /\ e.item \in stored /\ e.item \notin deleting[x]
                              /\ row[e.item] = snapshot[x][e.item]
                              /\ ~snapshot[x][e.item].archived
  BY <1>0 DEF AuditInv, ForeignKey, ArchivesCurrent, ArchivesOnce, ArchivesOf, Actors
<1>4. \A i \in dropped : i \in stored /\ ~row[i].archived /\ row[i].review_status = "NEW"
  BY <1>0, <1>b DEF Deletions
<1>5. ASSUME NEW i \in Items
      PROVE  /\ i \in new => /\ Phases[i] = "absent" /\ Phases'[i] = "live"
                             /\ Views'[i] = Workflow!Fresh
             /\ i \in dropped => /\ Phases[i] = "live" /\ Phases'[i] = "deleted"
                                 /\ Views[i].review_status = "NEW" /\ Views'[i] = Workflow!Fresh
             /\ i \in superseded => /\ Phases[i] = "live" /\ Phases'[i] = "archived"
                                    /\ Views'[i] = Views[i] /\ i \notin dropped /\ i \notin new
             /\ i \notin new \cup dropped \cup superseded
                  => Phases'[i] = Phases[i] /\ Views'[i] = Views[i]
  <2>1. ASSUME i \in new
        PROVE  /\ Phases[i] = "absent" /\ Phases'[i] = "live" /\ Views'[i] = Workflow!Fresh
    <3>1. i \notin stored /\ row[i] # Gone /\ i \in stored' /\ row'[i] = NewItem(extractions + 1)
      BY <1>1, <2>1
    <3>2. ~row'[i].archived /\ ViewOf(i)' = Workflow!Fresh
      BY <3>1 DEF NewItem, ViewOf, Workflow!Fresh
    <3> QED BY <3>1, <3>2 DEF Phases, PhaseOf, Views
  <2>2. ASSUME i \in dropped
        PROVE  /\ Phases[i] = "live" /\ Phases'[i] = "deleted"
               /\ Views[i].review_status = "NEW" /\ Views'[i] = Workflow!Fresh
    <3>1. i \in stored /\ ~row[i].archived /\ row[i].review_status = "NEW"
      BY <1>4, <2>2
    <3>2. i \notin stored' /\ row'[i] = Gone
      BY <1>1, <1>b, <2>2, <3>1
    <3>3. ViewOf(i)' = Workflow!Fresh
      BY <3>2 DEF Gone, NewItem, ViewOf, Workflow!Fresh
    <3> QED BY <3>1, <3>2, <3>3 DEF Phases, PhaseOf, Views, ViewOf
  <2>3. ASSUME i \in superseded
        PROVE  /\ Phases[i] = "live" /\ Phases'[i] = "archived"
               /\ Views'[i] = Views[i] /\ i \notin dropped /\ i \notin new
    <3>1. i \in stored /\ i \notin dropped /\ ~row[i].archived /\ row[i] = snapshot[x][i]
      BY <1>3, <1>a, <1>b, <2>3
    <3>2. i \in stored' /\ row'[i] = Archived(row[i])
      BY <1>1, <1>a, <1>b, <2>3, <3>1
    <3>3. row'[i].archived = TRUE /\ ViewOf(i)' = ViewOf(i)
      BY <3>2 DEF Archived, ViewOf
    <3> QED BY <1>1, <3>1, <3>2, <3>3 DEF Phases, PhaseOf, Views
  <2>4. ASSUME i \notin new \cup dropped \cup superseded
        PROVE  Phases'[i] = Phases[i] /\ Views'[i] = Views[i]
    <3>1. row'[i] = row[i] /\ (i \in stored' <=> i \in stored)
      BY <1>1, <1>a, <1>b, <2>4
    <3> QED BY <3>1 DEF Phases, PhaseOf, Views, ViewOf
  <2> QED BY <2>1, <2>2, <2>3, <2>4
<1>6. /\ \A i \in new : Phases[i] = "absent"
      /\ \A i \in superseded : Phases[i] = "live"
      /\ \A i \in dropped : Phases[i] = "live" /\ Views[i].review_status = "NEW"
      /\ superseded \cap dropped = {}
  BY <1>2, <1>5
<1>7. Phases' = [i \in Items |-> CASE i \in new -> "live"
                                   [] i \in superseded -> "archived"
                                   [] i \in dropped -> "deleted"
                                   [] OTHER -> Phases[i]]
  <2>1. \A i \in Items : ~(i \in new /\ i \in dropped)
    BY <1>5
  <2> QED BY <1>5, <2>1 DEF Phases
<1>8. Views' = [i \in Items |-> IF i \in new \cup dropped THEN Workflow!Fresh ELSE Views[i]]
  BY <1>5 DEF Views
<1>9. Workflow!Extract(new, superseded, dropped)
  BY <1>6, <1>7, <1>8 DEF Workflow!Extract, Phases, Views, PhaseOf, ViewOf
<1>10. \E a, b, c \in SUBSET Items : Workflow!Extract(a, b, c)
  BY <1>2, <1>9
<1> QED BY <1>10 DEF Workflow!Next

(* Requests and extractions of any number, interleaved await by await,     *)
(* change the items of a document one workflow step at a time.             *)
THEOREM ReviewIsWorkflow == Spec => ImplementsWorkflow
<1>1. Init => Workflow!Init
  BY DEF Init, Workflow!Init, Workflow!Fresh, NewItem, Gone
<1>2. AuditInv /\ HistoryInv /\ [Next]_vars => [Workflow!Next]_(Workflow!vars)
  <2> SUFFICES ASSUME AuditInv, HistoryInv, [Next]_vars PROVE [Workflow!Next]_(Workflow!vars)
    OBVIOUS
  <2>1. CASE \E r \in Reviewers : CommitReview(r)
    BY <2>1, CommitReviewIsWorkflow
  <2>2. CASE \E x \in Extractors : CommitExtraction(x)
    BY <2>2, CommitExtractionIsWorkflow
  <2>3. CASE ~(\E r \in Reviewers : CommitReview(r)) /\ ~(\E x \in Extractors : CommitExtraction(x))
    <3>1. stored' = stored /\ row' = row
      BY <2>3 DEF Next, ReviewStep, ExtractionStep, LoadItem, RefuseRequest, FlushUpdate, LoseRace,
                  FlushEvent, LoseItem, CommitNothing, BeginExtraction, RefuseExtraction,
                  GenerationFails, SelectReviewed, SelectUnreviewed, ArchiveItem, LoseArchiveRace,
                  DeleteItem, Crash, RollbackReview, RollbackExtraction, vars, tables
    <3> QED BY <3>1, RowsStay
  <2> QED BY <2>1, <2>2, <2>3
<1> QED BY <1>1, <1>2, AuditInvariant, HistoryInvariant, PTL
        DEF Spec, ImplementsWorkflow, Workflow!Spec

-----------------------------------------------------------------------------
(***************************************************************************)
(* The export.  Rows selected together look as the history did when it was *)
(* cut at a number s: everything telling that was committed is below it,   *)
(* everything telling that commits later comes at or above it.             *)
(***************************************************************************)

SeqPositive ==
  next_seq \in Nat \ {0} /\ \A a \in Actors : \A e \in staged[a] : e.seq >= 1

Before(i, s) == {e \in EventsOn(i) : e.seq < s}

CutAt(i, seen, s) ==
  /\ s \in 1..next_seq
  /\ LooksLike(seen, Before(i, s))
  /\ \A a \in Actors : \A e \in staged[a] : e.item = i /\ Telling(e) => e.seq >= s

ExportInv ==
  /\ SeqPositive
  /\ \A i \in DOMAIN exported :
       /\ i \in Items
       /\ i \in stored => \E s : CutAt(i, exported[i], s)
       /\ i \notin stored => row[i] = Gone

TellingOf(es) == {e \in es : Telling(e)}

(* How a row looks is what the telling events say.                         *)
LEMMA LookIsTold ==
  ASSUME NEW old, NEW es, NEW fs, TellingOf(es) = TellingOf(fs), LooksLike(old, es)
  PROVE  LooksLike(old, fs)
<1>1. \A e \in es : Telling(e) => e \in fs
  BY DEF TellingOf
<1>2. \A e \in fs : Telling(e) => e \in es
  BY DEF TellingOf
<1>3. {e \in fs : e.previous_status # e.next_status} = {e \in es : e.previous_status # e.next_status}
  BY <1>1, <1>2 DEF Telling
<1>4. RiskChanges(fs) = RiskChanges(es) /\ StatusChanges(fs) = StatusChanges(es)
  BY <1>1, <1>2 DEF Telling, RiskChanges, StatusChanges
<1>5. {e \in fs : e.action = "EXTRACTION_ARCHIVED"} = {e \in es : e.action = "EXTRACTION_ARCHIVED"}
  BY <1>1, <1>2 DEF Telling
<1>6. RatingsFollow(es, old) => RatingsFollow(fs, old)
  BY <1>4 DEF RatingsFollow
<1> QED BY <1>3, <1>5, <1>6 DEF LooksLike

(* A committed row looks as its committed events say.                      *)
LEMMA RowsAreExplained ==
  ASSUME AuditInv, HistoryInv, NEW i \in stored
  PROVE  LooksLike(row[i], EventsOn(i))
<1>1. Replays({e \in EventsOn(i) : e.previous_status # e.next_status}, row[i].review_status)
  BY DEF AuditInv, AuditTrailReplays, Decisions
<1>2. RatingsFollow(EventsOn(i), row[i])
  BY DEF HistoryInv, CommittedInv, RatingsReplay
<1>3. /\ row[i].archived => Cardinality(ArchiveEvents(EventsOn(i))) = 1
      /\ ~row[i].archived => Cardinality(ArchiveEvents(EventsOn(i))) = 0
  BY FS_Singleton, FS_EmptySet DEF HistoryInv, CommittedInv, ArchivingExplained, ArchivedIn
<1> QED BY <1>1, <1>2, <1>3 DEF LooksLike, ArchiveEvents

(* Where the history is cut when rows are selected: at the first number an *)
(* uncommitted event of the item has taken, or at the next one.            *)
LEMMA CutExists ==
  ASSUME AuditInv, HistoryInv, SeqPositive, NEW i \in stored
  PROVE  \E s : CutAt(i, row[i], s)
<1> DEFINE Later == {e.seq : e \in {f \in UNION {staged[a] : a \in Actors} : f.item = i /\ Telling(f)}}
           Cuts == Later \cup {next_seq}
<1>0. TypeOK /\ SeqBound /\ TellingLast
  BY DEF AuditInv, HistoryInv
<1>1. \A a \in Actors : \A e \in staged[a] : e.seq \in Nat /\ e.seq >= 1 /\ e.seq < next_seq
  BY <1>0 DEF SeqPositive, SeqBound, TypeOK, EvidenceReviewEvent
<1>2. \A n \in Cuts : n \in 1..next_seq
  BY <1>1 DEF SeqPositive
<1>3. PICK s \in Cuts : \A n \in Cuts : s <= n
  <2>1. Cuts \in SUBSET Nat /\ Cuts # {}
    BY <1>2
  <2> HIDE DEF Cuts
  <2> QED BY <2>1, SmallestExists
<1>4. ASSUME NEW a \in Actors, NEW e \in staged[a], e.item = i, Telling(e) PROVE e.seq >= s
  <2>1. e.seq \in Later
    BY <1>4
  <2> QED BY <1>2, <1>3, <2>1
<1>5. ASSUME NEW f \in EventsOn(i), Telling(f) PROVE f.seq < s
  <2>1. CASE s = next_seq
    BY <1>0, <2>1 DEF SeqBound, EventsOn
  <2>2. CASE s \in Later
    <3>1. PICK e \in UNION {staged[a] : a \in Actors} : e.item = i /\ Telling(e) /\ s = e.seq
      BY <2>2
    <3>2. PICK a \in Actors : e \in staged[a]
      OBVIOUS
    <3> QED BY <1>0, <1>5, <3>1, <3>2 DEF TellingLast
  <2> QED BY <2>1, <2>2
<1>6. TellingOf(EventsOn(i)) = TellingOf(Before(i, s))
  BY <1>5 DEF TellingOf, Before
<1>7. LooksLike(row[i], Before(i, s))
  BY <1>6, RowsAreExplained, LookIsTold
<1>8. CutAt(i, row[i], s)
  BY <1>2, <1>4, <1>7 DEF CutAt
<1> QED BY <1>8

(* What any step may do to events and ids: events are numbered onwards,    *)
(* only staged ones are committed, they go with their item alone, and an   *)
(* id that is gone stays so.                                               *)
EventsGoOn ==
  /\ next_seq' \in Nat /\ next_seq' >= next_seq
  /\ \A a \in Actors : \A e \in staged'[a] : e \in staged[a] \/ e.seq >= next_seq
  /\ \A e \in events' : e \in events \/ \E a \in Actors : e \in staged[a]
  /\ \A e \in events : e.item \in stored' => e \in events'
  /\ \A i \in Items : i \notin stored /\ row[i] = Gone => i \notin stored' /\ row'[i] = Gone
  /\ \A i \in stored : i \notin stored' => row'[i] = Gone

LEMMA StepsGoOn ==
  ASSUME AuditInv, HistoryInv, TypeOK', [Next]_vars
  PROVE  EventsGoOn
<1> USE ActorsAssumption DEF Actors, EventsGoOn
<1>0. TypeOK /\ next_seq \in Nat /\ next_seq' \in Nat
  BY DEF AuditInv, TypeOK
<1>1. ASSUME UNCHANGED tables, \A a \in Actors : staged'[a] \subseteq staged[a] PROVE EventsGoOn
  BY <1>0, <1>1 DEF tables, TypeOK
<1>2. ASSUME NEW r \in Reviewers, LoadItem(r) \/ RefuseRequest(r) PROVE EventsGoOn
  BY <1>1, <1>2 DEF LoadItem, RefuseRequest
<1>3. ASSUME NEW a \in Actors, NEW result, End(a, result), UNCHANGED tables PROVE EventsGoOn
  BY <1>0, <1>1, <1>3 DEF End, TypeOK
<1>4. ASSUME NEW r \in Reviewers, FlushUpdate(r) \/ FlushEvent(r) PROVE EventsGoOn
  <2>1. /\ staged' = [staged EXCEPT ![r] = EventsOf(next_seq, target[r], loaded[r], body[r])]
        /\ stored' = stored /\ row' = row /\ events' = events /\ pc[r] = "loaded"
    BY <1>4 DEF FlushUpdate, FlushEvent
  <2>2. next_seq' >= next_seq
    <3>1. UpdatesSent(loaded[r], body[r]) \in Nat
      BY UpdatesType
    <3> QED BY <1>0, <1>4, <3>1 DEF FlushUpdate, FlushEvent
  <2>3. target[r] \in Items /\ loaded[r] \in EvidenceItem /\ body[r] \in AnyBody
    BY <1>0, <2>1 DEF TypeOK, AuditInv, ReadsVersioned, AnyBody
  <2>4. \A e \in EventsOf(next_seq, target[r], loaded[r], body[r]) : e.seq >= next_seq
    BY <1>0, <2>3, EventsShape DEF EventsFollow
  <2> QED BY <1>0, <2>1, <2>2, <2>4 DEF TypeOK
<1>5. ASSUME NEW r \in Reviewers, CommitReview(r) PROVE EventsGoOn
  <2>1. /\ stored' = stored /\ events' = events \cup staged[r] /\ next_seq' = next_seq
        /\ staged' = [staged EXCEPT ![r] = {}]
    BY <1>5 DEF CommitReview, End
  <2>2. ASSUME NEW i \in Items, i \notin stored PROVE row'[i] = row[i]
    BY <1>0, <1>5, <2>2 DEF CommitReview, AuditInv, NoLostUpdate, TypeOK
  <2> QED BY <1>0, <2>1, <2>2 DEF TypeOK
<1>6. ASSUME NEW x \in Extractors, BeginExtraction(x) \/ RefuseExtraction(x)
                                    \/ SelectReviewed(x) \/ SelectUnreviewed(x)
                                    \/ \E i \in Items : DeleteItem(x, i)
      PROVE  EventsGoOn
  BY <1>1, <1>6 DEF BeginExtraction, RefuseExtraction, SelectReviewed, SelectUnreviewed,
                    DeleteItem
<1>7. ASSUME NEW x \in Extractors, NEW i \in Items, ArchiveItem(x, i) PROVE EventsGoOn
  <2> DEFINE d == Event(next_seq, i, "EXTRACTION_ARCHIVED", snapshot[x][i], snapshot[x][i],
                        NoExtra)
  <2>1. d.seq = next_seq
    BY DEF Event
  <2> HIDE DEF d
  <2>2. /\ staged' = [staged EXCEPT ![x] = @ \cup {d}] /\ next_seq' = next_seq + 1
        /\ stored' = stored /\ row' = row /\ events' = events
    BY <1>7 DEF ArchiveItem, d
  <2> QED BY <1>0, <2>1, <2>2 DEF TypeOK
<1>8. ASSUME NEW x \in Extractors, CommitExtraction(x) PROVE EventsGoOn
  <2>1. PICK new \in SUBSET {i \in Items \ stored : row[i] # Gone} :
          /\ stored' = (stored \ deleting[x]) \cup new
          /\ row' = [i \in Items |->
               IF i \in new THEN NewItem(extractions + 1)
               ELSE IF i \in deleting[x] THEN Gone
               ELSE IF \E e \in staged[x] : e.item = i THEN Archived(snapshot[x][i])
               ELSE row[i]]
    BY <1>8 DEF CommitExtraction
  <2>2. /\ events' = {e \in events : e.item \notin deleting[x]} \cup staged[x]
        /\ next_seq' = next_seq /\ staged' = [staged EXCEPT ![x] = {}]
    BY <1>8 DEF CommitExtraction, End
  <2>3. /\ \A e \in staged[x] : e.item \in stored
        /\ \A i \in deleting[x] : i \in stored
    BY DEF AuditInv, ForeignKey, HistoryInv, Deletions
  <2>4. ASSUME NEW i \in Items, i \notin stored, row[i] = Gone
        PROVE  i \notin stored' /\ row'[i] = Gone
    BY <2>1, <2>3, <2>4
  <2>5. ASSUME NEW i \in stored, i \notin stored' PROVE row'[i] = Gone
    BY <1>0, <2>1, <2>5 DEF TypeOK
  <2>6. ASSUME NEW e \in events, e.item \in stored' PROVE e \in events'
    <3>1. e.item \in stored
      BY DEF AuditInv, ForeignKey
    <3>2. e.item \notin deleting[x]
      BY <1>0, <2>1, <2>6, <3>1
    <3> QED BY <2>2, <3>2
  <2> QED BY <1>0, <2>2, <2>4, <2>5, <2>6 DEF TypeOK
<1>9. CASE UNCHANGED vars
  BY <1>1, <1>9 DEF vars
<1> HIDE DEF EventsGoOn, Actors
<1> QED BY <1>2, <1>3, <1>4, <1>5, <1>6, <1>7, <1>8, <1>9
        DEF Next, ReviewStep, ExtractionStep, LoseRace, LoseItem, CommitNothing, GenerationFails,
            LoseArchiveRace, Crash, RollbackReview, RollbackExtraction, Actors

(* A cut stays one: what commits at or above it changes nothing below.     *)
LEMMA CutStays ==
  ASSUME TypeOK, TypeOK', SeqPositive, EventsGoOn, NEW i \in stored', NEW seen, NEW s,
         CutAt(i, seen, s)
  PROVE  CutAt(i, seen, s)'
<1>0. s \in Nat /\ s \in 1..next_seq' /\ next_seq \in Nat /\ s <= next_seq
  BY DEF CutAt, SeqPositive, EventsGoOn
<1>1. \A a \in Actors : \A e \in staged'[a] : e.item = i /\ Telling(e) => e.seq >= s
  <2> SUFFICES ASSUME NEW a \in Actors, NEW e \in staged'[a], e.item = i, Telling(e)
               PROVE  e.seq >= s
    OBVIOUS
  <2>1. CASE e \in staged[a]
    BY <2>1 DEF CutAt
  <2>2. CASE e.seq >= next_seq
    <3>1. e.seq \in Nat
      BY DEF TypeOK, EvidenceReviewEvent
    <3> QED BY <1>0, <2>2, <3>1
  <2> QED BY <2>1, <2>2 DEF EventsGoOn
<1>2. ASSUME NEW e, Telling(e) PROVE e \in Before(i, s)' <=> e \in Before(i, s)
  <2>1. ASSUME e \in Before(i, s)' PROVE e \in Before(i, s)
    <3>1. e \in events' /\ e.item = i /\ e.seq < s
      BY <2>1 DEF Before, EventsOn
    <3>2. CASE e \in events
      BY <3>1, <3>2 DEF Before, EventsOn
    <3>3. CASE \E a \in Actors : e \in staged[a]
      <4>1. e.seq >= s
        BY <1>2, <3>1, <3>3 DEF CutAt
      <4>2. e.seq \in Nat
        BY <3>1 DEF TypeOK, EvidenceReviewEvent
      <4> QED BY <1>0, <3>1, <4>1, <4>2
    <3> QED BY <3>1, <3>2, <3>3 DEF EventsGoOn
  <2>2. ASSUME e \in Before(i, s) PROVE e \in Before(i, s)'
    BY <2>2 DEF Before, EventsOn, EventsGoOn
  <2> QED BY <2>1, <2>2
<1>3. TellingOf(Before(i, s)) = TellingOf(Before(i, s)')
  BY <1>2 DEF TellingOf
<1>4. LooksLike(seen, Before(i, s)')
  BY <1>3, LookIsTold DEF CutAt
<1> QED BY <1>0, <1>1, <1>4 DEF CutAt

(* An export's steps are steps of the requests, or read only.              *)
LEMMA ExportsOnlyRead == ExportSpec => Spec
<1>1. ExportInit => Init
  BY DEF ExportInit
<1>2. [ExportNext]_export_vars => [Next]_vars
  BY DEF ExportNext, export, detail, Select, Respond, export_vars
<1> QED BY <1>1, <1>2, PTL DEF ExportSpec, Spec

(* Sequence numbers start at one and are drawn upwards.                    *)
LEMMA SeqStaysPositive ==
  ASSUME TypeOK', SeqPositive, EventsGoOn
  PROVE  SeqPositive'
<1>1. next_seq' \in Nat \ {0}
  BY DEF SeqPositive, EventsGoOn
<1>2. ASSUME NEW a \in Actors, NEW e \in staged'[a] PROVE e.seq >= 1
  <2>1. e.seq \in Nat
    BY <1>2 DEF TypeOK, EvidenceReviewEvent
  <2> QED BY <2>1 DEF SeqPositive, EventsGoOn
<1> QED BY <1>1, <1>2 DEF SeqPositive

(* The rows of an export under way look as the history cut somewhere.      *)
THEOREM ExportInvariant == ExportSpec => []ExportInv
<1>1. ExportInit => ExportInv
  BY DEF ExportInit, ExportInv, SeqPositive, NoRows, Init
<1>2. AuditInv /\ AuditInv' /\ HistoryInv /\ ExportInv /\ [ExportNext]_export_vars => ExportInv'
  <2> SUFFICES ASSUME AuditInv, AuditInv', HistoryInv, ExportInv, [ExportNext]_export_vars
               PROVE  ExportInv'
    OBVIOUS
  <2>0. TypeOK /\ TypeOK' /\ SeqPositive
    BY DEF AuditInv, ExportInv
  <2>1. CASE [Next]_vars /\ UNCHANGED exported
    <3>1. EventsGoOn
      BY <2>0, <2>1, StepsGoOn
    <3>2. SeqPositive'
      BY <2>0, <3>1, SeqStaysPositive
    <3>3. ASSUME NEW i \in DOMAIN exported
          PROVE  /\ i \in Items
                 /\ i \in stored' => \E s : CutAt(i, exported[i], s)'
                 /\ i \notin stored' => row'[i] = Gone
      <4>1. i \in Items
        BY DEF ExportInv
      <4>2. ASSUME i \in stored' PROVE \E s : CutAt(i, exported[i], s)'
        <5>1. i \in stored
          BY <3>1, <4>1, <4>2 DEF ExportInv, EventsGoOn
        <5>2. PICK s, seen : seen = exported[i] /\ CutAt(i, seen, s)
          BY <5>1 DEF ExportInv
        <5>3. CutAt(i, seen, s)'
          BY <2>0, <3>1, <4>2, <5>2, CutStays
        <5>4. exported'[i] = seen
          BY <2>1, <5>2
        <5>5. CutAt(i, exported[i], s)'
          BY <5>3, <5>4 DEF CutAt
        <5> QED BY <5>5
      <4>3. ASSUME i \notin stored' PROVE row'[i] = Gone
        BY <3>1, <4>1, <4>3 DEF ExportInv, EventsGoOn
      <4> QED BY <4>1, <4>2, <4>3
    <3> QED BY <2>1, <3>2, <3>3 DEF ExportInv
  <2>2. ASSUME NEW chosen, Select(chosen), chosen \subseteq stored PROVE ExportInv'
    <3>1. SeqPositive' /\ stored' = stored /\ row' = row
      BY <2>0, <2>2 DEF Select, vars, tables, SeqPositive
    <3>2. ASSUME NEW i \in chosen PROVE i \in Items /\ \E s : CutAt(i, exported[i], s)'
      <4>1. i \in stored /\ i \in Items /\ exported'[i] = row[i]
        BY <2>0, <2>2, <3>2 DEF Select, TypeOK
      <4>2. PICK s, seen : seen = row[i] /\ CutAt(i, seen, s)
        BY <2>0, <4>1, CutExists
      <4>3. CutAt(i, exported[i], s)'
        BY <2>2, <4>1, <4>2 DEF Select, CutAt, Before, EventsOn, vars, tables
      <4> QED BY <4>1, <4>3
    <3>3. DOMAIN exported' = chosen
      BY <2>2 DEF Select
    <3> QED BY <2>2, <3>1, <3>2, <3>3 DEF ExportInv
  <2>3. CASE Respond
    BY <2>0, <2>3 DEF Respond, ExportInv, NoRows, vars, tables, SeqPositive
  <2> QED BY <2>1, <2>2, <2>3 DEF ExportNext, export, detail, export_vars
<1> QED BY <1>1, <1>2, ExportsOnlyRead, AuditInvariant, HistoryInvariant, PTL DEF ExportSpec

(* Whatever commits between the two statements of an export, the history   *)
(* it returns explains every item it returns and that is still there.      *)
THEOREM ExportsExplained == ExportSpec => ExportIsExplained
<1>1. ExportInv /\ [ExportNext]_export_vars
        => [Respond => \A i \in DOMAIN exported \cap stored :
              \E s \in 1..next_seq : LooksLike(exported[i], {e \in History(i) : e.seq < s})]_export_vars
  BY DEF ExportInv, CutAt, Before, History
<1> QED BY <1>1, ExportInvariant, PTL DEF ExportSpec, ExportIsExplained

=============================================================================
