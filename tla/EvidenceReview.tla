---------------------------- MODULE EvidenceReview ----------------------------
(***************************************************************************)
(* The evidence items of one document: the review endpoint, the inline     *)
(* PATCH endpoint and (re-)extraction, as handlers of concurrent requests  *)
(* over one PostgreSQL database at READ COMMITTED.                         *)
(*                                                                         *)
(* A handler is a transaction.  It is cut where it awaits the database and *)
(* another request can run: the SELECT that loads the item, the flush that *)
(* sends the versioned UPDATE and the event INSERT (and takes the row      *)
(* lock), and the COMMIT.  What a transaction wrote is invisible to the    *)
(* others until it commits.                                                *)
(*                                                                         *)
(* PostgreSQL itself is external: an UPDATE or DELETE waits for the lock   *)
(* of an uncommitted writer of the row, an INSERT of an event holds a key- *)
(* share lock on its item (the foreign key), which only a DELETE conflicts *)
(* with, and a DELETE that had to wait re-evaluates its row condition on   *)
(* the committed row but not the NOT EXISTS over the events table.         *)
(***************************************************************************)
EXTENDS Naturals, FiniteSets

CONSTANTS
  Items,           (* identifiers evidence items can get                    *)
  Reviewers,       (* concurrent review / PATCH requests                    *)
  Extractors,      (* concurrent extraction requests of the document        *)
  Risks,           (* risk ratings, "UNRATED" among them                    *)
  Statuses,        (* compliance statuses, "OPEN" among them                *)
  Submitted,       (* request bodies clients submit                         *)
  MaxSeq,          (* bound: nobody starts to write past this event number  *)
  MaxExtractions,  (* bound: extractions that commit                        *)
  NoActor,         (* nobody holds the lock                                 *)
  NotGiven         (* an absent optional field of a request body            *)

ASSUME ActorsAssumption ==
  /\ Reviewers \cap Extractors = {}
  /\ NoActor \notin Reviewers \cup Extractors

ASSUME FieldsAssumption ==
  /\ "UNRATED" \in Risks /\ NotGiven \notin Risks
  /\ "OPEN" \in Statuses /\ NotGiven \notin Statuses
  /\ NotGiven \notin Items

ASSUME BoundsAssumption == MaxSeq \in Nat /\ MaxExtractions \in Nat

Actors == Reviewers \cup Extractors

ReviewStatus == {"NEW", "IN_REVIEW", "APPROVED", "REJECTED", "NEEDS_REVISION"}

SubmittableAction ==
  {"START_REVIEW", "APPROVE", "REJECT", "REQUEST_REVISION", "COMMENT", "SET_RISK"}

ReviewAction == SubmittableAction \cup {"SET_STATUS", "EXTRACTION_ARCHIVED"}

(* A row of evidence_items; batch numbers the extraction that inserted it. *)
EvidenceItem ==
  [review_status: ReviewStatus, risk: Risks, status: Statuses,
   version: Nat, archived: BOOLEAN, batch: Nat]

(* A row of evidence_review_events; seq is the identity column the history *)
(* endpoint orders by, extra the metadata column of a SET_STATUS event.    *)
EvidenceReviewEvent ==
  [seq: Nat, item: Items, action: ReviewAction,
   previous_status: ReviewStatus, next_status: ReviewStatus,
   previous_risk: Risks, next_risk: Risks,
   extra: [previous: Statuses \cup {NotGiven}, next: Statuses \cup {NotGiven}]]

(* The body of a request: a review action, or a PATCH of status and risk.  *)
ReviewRequest ==
  {q \in [action: SubmittableAction, risk: Risks \cup {NotGiven}, status: {NotGiven}] :
     (q.action = "SET_RISK") <=> (q.risk # NotGiven)}

EvidenceItemUpdate ==
  {q \in [action: {"PATCH"}, risk: Risks \cup {NotGiven}, status: Statuses \cup {NotGiven}] :
     q.risk # NotGiven \/ q.status # NotGiven}

Body == ReviewRequest \cup EvidenceItemUpdate

ASSUME SubmittedAssumption == Submitted \subseteq Body

VARIABLES
  stored,        (* ids with a row in evidence_items                        *)
  row,           (* the committed rows                                      *)
  events,        (* the committed rows of evidence_review_events            *)
  next_seq,      (* the identity sequence, never rolled back                *)
  extractions,   (* history: extractions committed so far                   *)
  advisory_lock, (* holder of the document's advisory transaction lock      *)
  pc,            (* where each request is                                   *)
  outcome,       (* last request: answered, or which exception escaped it   *)
  staged,        (* events a transaction has flushed and not committed      *)
  target,        (* review: the item addressed                              *)
  body,          (* review: what was asked                                  *)
  loaded,        (* review: the row as the handler read it                  *)
  selected,      (* extraction: reviewed items still to archive             *)
  snapshot,      (* extraction: the rows as it read them                    *)
  doomed,        (* extraction: rows the DELETE has still to visit          *)
  deleting       (* extraction: rows deleted and not committed              *)

tables == <<stored, row, events, next_seq, extractions>>
review_vars == <<target, body, loaded>>
extract_vars == <<selected, snapshot, doomed, deleting>>
vars == <<tables, advisory_lock, pc, outcome, staged, review_vars, extract_vars>>

NewItem(n) ==
  [review_status |-> "NEW", risk |-> "UNRATED", status |-> "OPEN",
   version |-> 1, archived |-> FALSE, batch |-> n]

(* What stands for the row of an id that is used up.                       *)
Gone == [NewItem(0) EXCEPT !.version = 0]

NoBody == [action |-> "COMMENT", risk |-> NotGiven, status |-> NotGiven]

EventsOn(i) == {e \in events : e.item = i}

-----------------------------------------------------------------------------
(* The review state machine, and what a request does to the row it loaded. *)

Decision ==
  [APPROVE |-> "APPROVED", REJECT |-> "REJECTED", REQUEST_REVISION |-> "NEEDS_REVISION"]

Allowed(status, action) ==
  /\ action = "START_REVIEW" => status # "IN_REVIEW"
  /\ action \in DOMAIN Decision => status = "IN_REVIEW"

next_review_status(status, action) ==
  CASE action = "START_REVIEW" -> "IN_REVIEW"
    [] action \in DOMAIN Decision -> Decision[action]
    [] OTHER -> status

SetsStatus(old, q) == q.status # NotGiven /\ q.status # old.status
(* Fault: an absent risk taken for a value.                                *)
SetsRiskUnguarded(old, q) == q.risk # old.risk
SetsRisk(old, q) == q.risk # NotGiven /\ q.risk # old.risk
Moves(old, q) == next_review_status(old.review_status, q.action) # old.review_status

(* The session sends an UPDATE only for a column that really changes; a    *)
(* PATCH flushes once per changed field, so it can send two.               *)
UpdatesSent(old, q) ==
  (IF SetsStatus(old, q) THEN 1 ELSE 0)
    + (IF SetsRisk(old, q) \/ Moves(old, q) THEN 1 ELSE 0)

Edited(old, q) ==
  [review_status |-> next_review_status(old.review_status, q.action),
   risk |-> IF SetsRisk(old, q) THEN q.risk ELSE old.risk,
   status |-> IF SetsStatus(old, q) THEN q.status ELSE old.status,
   version |-> old.version + UpdatesSent(old, q),
   archived |-> old.archived, batch |-> old.batch]

(* Fault: the previous status read after the new one is assigned.          *)
EventAfterAssignment(s, i, action, old, new, extra) ==
  [seq |-> s, item |-> i, action |-> action,
   previous_status |-> new.review_status, next_status |-> new.review_status,
   previous_risk |-> old.risk, next_risk |-> new.risk, extra |-> extra]

Event(s, i, action, old, new, extra) ==
  [seq |-> s, item |-> i, action |-> action,
   previous_status |-> old.review_status, next_status |-> new.review_status,
   previous_risk |-> old.risk, next_risk |-> new.risk, extra |-> extra]

NoExtra == [previous |-> NotGiven, next |-> NotGiven]

StatusEvents(s, i, old, q) ==
  IF SetsStatus(old, q)
  THEN {Event(s, i, "SET_STATUS", old, old, [previous |-> old.status, next |-> q.status])}
  ELSE {}

(* Fault: the second field of a PATCH is written but not audited.          *)
RiskEventsUnlessStatus(s, i, old, q) ==
  IF SetsRisk(old, q) /\ ~SetsStatus(old, q)
  THEN {Event(s, i, "SET_RISK", old, Edited(old, q), NoExtra)}
  ELSE {}

RiskEvents(s, i, old, q) ==
  IF SetsRisk(old, q) THEN {Event(s, i, "SET_RISK", old, Edited(old, q), NoExtra)} ELSE {}

(* The events of one request, numbered from s in the order of the flushes. *)
EventsOf(s, i, old, q) ==
  IF q.action = "PATCH"
  THEN StatusEvents(s, i, old, q)
         \cup RiskEvents(IF SetsStatus(old, q) THEN s + 1 ELSE s, i, old, q)
  ELSE {Event(s, i, q.action, old, Edited(old, q), NoExtra)}

Archived(old) ==
  [review_status |-> old.review_status, risk |-> old.risk, status |-> old.status,
   version |-> old.version + 1, archived |-> TRUE, batch |-> old.batch]

-----------------------------------------------------------------------------
(* Locks of uncommitted writes.                                            *)

WritesRow(a, i) ==
  \/ /\ a \in Reviewers
     /\ pc[a] = "flushed" /\ target[a] = i /\ UpdatesSent(loaded[a], body[a]) > 0
  \/ /\ a \in Extractors
     /\ i \in deleting[a] \/ \E e \in staged[a] : e.item = i

RowFree(i) == \A a \in Actors : ~WritesRow(a, i)

(* What a DELETE needs: no writer, and no uncommitted event of the row.    *)
DeleteFree(i) == RowFree(i) /\ \A a \in Actors : \A e \in staged[a] : e.item # i

Init ==
  /\ stored = {} /\ events = {} /\ next_seq = 1 /\ extractions = 0
  /\ row = [i \in Items |-> NewItem(0)]
  /\ advisory_lock = NoActor
  /\ pc = [a \in Actors |-> "idle"]
  /\ outcome = [a \in Actors |-> "answered"]
  /\ staged = [a \in Actors |-> {}]
  /\ target = [r \in Reviewers |-> NotGiven]
  /\ body = [r \in Reviewers |-> NoBody]
  /\ loaded = [r \in Reviewers |-> NewItem(0)]
  /\ selected = [x \in Extractors |-> {}]
  /\ snapshot = [x \in Extractors |-> [i \in Items |-> NewItem(0)]]
  /\ doomed = [x \in Extractors |-> {}]
  /\ deleting = [x \in Extractors |-> {}]

-----------------------------------------------------------------------------
(* Ending a transaction: its locks are released, its process forgets what  *)
(* it read.  Every typed error (4xx, 502) is an answer; an exception that  *)
(* no handler of errors.py translates (500) is kept by name.               *)

(* Fault: a session-level advisory lock, which outlives the transaction.   *)
EndKeepingLock(a, result) ==
  /\ pc' = [pc EXCEPT ![a] = "idle"]
  /\ outcome' = [outcome EXCEPT ![a] = result]
  /\ staged' = [staged EXCEPT ![a] = {}]
  /\ UNCHANGED advisory_lock

End(a, result) ==
  /\ pc' = [pc EXCEPT ![a] = "idle"]
  /\ outcome' = [outcome EXCEPT ![a] = result]
  /\ staged' = [staged EXCEPT ![a] = {}]
  /\ advisory_lock' = IF advisory_lock = a THEN NoActor ELSE advisory_lock

ForgetRequest(r) ==
  /\ target' = [target EXCEPT ![r] = NotGiven]
  /\ body' = [body EXCEPT ![r] = NoBody]
  /\ loaded' = [loaded EXCEPT ![r] = NewItem(0)]
  /\ UNCHANGED extract_vars

ForgetExtraction(x) ==
  /\ selected' = [selected EXCEPT ![x] = {}]
  /\ snapshot' = [snapshot EXCEPT ![x] = [i \in Items |-> NewItem(0)]]
  /\ doomed' = [doomed EXCEPT ![x] = {}]
  /\ deleting' = [deleting EXCEPT ![x] = {}]
  /\ UNCHANGED review_vars

(* Everything uncommitted is gone; sequence numbers drawn stay drawn.      *)
RollbackReview(r, result) ==
  /\ End(r, result) /\ ForgetRequest(r) /\ UNCHANGED tables

RollbackExtraction(x, result) ==
  /\ End(x, result) /\ ForgetExtraction(x) /\ UNCHANGED tables

-----------------------------------------------------------------------------
(* POST /evidence/{id}/review and PATCH /evidence/{id}.                    *)

(* Fault: the review endpoint, too, forgets archived_at.                   *)
AcceptsArchived(i, q, expected_version) ==
  /\ i \in stored
  /\ q.action # "PATCH" => Allowed(row[i].review_status, q.action)
  /\ expected_version \in {NotGiven, row[i].version}

(* The checks both handlers make on the row they have just read: only the  *)
(* review endpoint looks at archived_at and at the state machine.          *)
Accepts(i, q, expected_version) ==
  /\ i \in stored
  /\ q.action # "PATCH" => ~row[i].archived /\ Allowed(row[i].review_status, q.action)
  /\ expected_version \in {NotGiven, row[i].version}

Versions == {NotGiven} \cup 1..(MaxSeq + 1)

LoadItem(r) ==
  /\ pc[r] = "idle"
  /\ \E i \in Items, q \in Submitted :
       /\ \E expected_version \in Versions : Accepts(i, q, expected_version)
       /\ target' = [target EXCEPT ![r] = i]
       /\ body' = [body EXCEPT ![r] = q]
       /\ loaded' = [loaded EXCEPT ![r] = row[i]]
  /\ pc' = [pc EXCEPT ![r] = "loaded"]
  /\ outcome' = [outcome EXCEPT ![r] = "answered"]
  /\ UNCHANGED <<tables, advisory_lock, staged, extract_vars>>

(* 404 or 409: nothing is written.                                         *)
RefuseRequest(r) ==
  /\ pc[r] = "idle"
  /\ {v \in Items \X Submitted \X Versions : ~Accepts(v[1], v[2], v[3])} # {}
  /\ outcome' = [outcome EXCEPT ![r] = "answered"]
  /\ UNCHANGED <<tables, advisory_lock, pc, staged, review_vars, extract_vars>>

(* Fault: no version_id_col, so the UPDATE matches by id alone.            *)
FlushUpdateUnversioned(r) ==
  LET i == target[r]  q == body[r]  old == loaded[r]
      fresh == EventsOf(next_seq, i, old, q)
  IN /\ pc[r] = "loaded" /\ UpdatesSent(old, q) > 0
     /\ RowFree(i) /\ i \in stored /\ next_seq <= MaxSeq
     /\ staged' = [staged EXCEPT ![r] = fresh]
     /\ next_seq' = next_seq + UpdatesSent(old, q)
     /\ pc' = [pc EXCEPT ![r] = "flushed"]
     /\ UNCHANGED <<stored, row, events, extractions, advisory_lock, outcome,
                    review_vars, extract_vars>>

(* The flush: UPDATE ... WHERE version = <loaded>, then the event INSERT.  *)
(* It waits for an uncommitted writer of the row.                          *)
FlushUpdate(r) ==
  LET i == target[r]  q == body[r]  old == loaded[r]
      fresh == EventsOf(next_seq, i, old, q)
  IN /\ pc[r] = "loaded" /\ UpdatesSent(old, q) > 0
     /\ RowFree(i)
     /\ i \in stored /\ row[i].version = old.version
     /\ next_seq <= MaxSeq
     /\ staged' = [staged EXCEPT ![r] = fresh]
     /\ next_seq' = next_seq + UpdatesSent(old, q)
     /\ pc' = [pc EXCEPT ![r] = "flushed"]
     /\ UNCHANGED <<stored, row, events, extractions, advisory_lock, outcome,
                    review_vars, extract_vars>>

(* No row matched: StaleDataError, raised by the flush inside add_event    *)
(* and so outside _commit_versioned, leaves the handler as it is.          *)
LoseRace(r) ==
  /\ pc[r] = "loaded" /\ UpdatesSent(loaded[r], body[r]) > 0
  /\ RowFree(target[r])
  /\ target[r] \notin stored \/ row[target[r]].version # loaded[r].version
  /\ RollbackReview(r, "stale_error")

(* COMMENT, or SET_RISK to the rating it has: no UPDATE, so no version     *)
(* check; the foreign key only waits for an uncommitted DELETE.            *)
FlushEvent(r) ==
  /\ pc[r] = "loaded" /\ UpdatesSent(loaded[r], body[r]) = 0 /\ body[r].action # "PATCH"
  /\ \A x \in Extractors : target[r] \notin deleting[x]
  /\ target[r] \in stored
  /\ next_seq <= MaxSeq
  /\ staged' = [staged EXCEPT ![r] = EventsOf(next_seq, target[r], loaded[r], body[r])]
  /\ next_seq' = next_seq + 1
  /\ pc' = [pc EXCEPT ![r] = "flushed"]
  /\ UNCHANGED <<stored, row, events, extractions, advisory_lock, outcome,
                 review_vars, extract_vars>>

(* The item went while the request was between its read and its flush.     *)
LoseItem(r) ==
  /\ pc[r] = "loaded" /\ UpdatesSent(loaded[r], body[r]) = 0 /\ body[r].action # "PATCH"
  /\ target[r] \notin stored
  /\ RollbackReview(r, "integrity_error")

(* A PATCH that changes nothing commits an empty transaction.              *)
CommitNothing(r) ==
  /\ pc[r] = "loaded" /\ UpdatesSent(loaded[r], body[r]) = 0 /\ body[r].action = "PATCH"
  /\ RollbackReview(r, "answered")

CommitReview(r) ==
  /\ pc[r] = "flushed"
  /\ row' = [row EXCEPT ![target[r]] =
               IF UpdatesSent(loaded[r], body[r]) > 0 THEN Edited(loaded[r], body[r]) ELSE @]
  /\ events' = events \cup staged[r]
  /\ End(r, "answered") /\ ForgetRequest(r)
  /\ UNCHANGED <<stored, next_seq, extractions>>

-----------------------------------------------------------------------------
(* POST /documents/{id}/evidence/extract.                                  *)

(* Fault: no advisory lock.                                                *)
BeginExtractionUnlocked(x) ==
  /\ pc[x] = "idle" /\ extractions < MaxExtractions /\ next_seq <= MaxSeq
  /\ pc' = [pc EXCEPT ![x] = "generating"]
  /\ UNCHANGED <<tables, advisory_lock, outcome, staged, review_vars, extract_vars>>

(* The document is READY, a client is configured, the try-lock succeeds.   *)
BeginExtraction(x) ==
  /\ pc[x] = "idle" /\ extractions < MaxExtractions /\ next_seq <= MaxSeq
  /\ advisory_lock = NoActor
  /\ advisory_lock' = x
  /\ pc' = [pc EXCEPT ![x] = "generating"]
  /\ outcome' = [outcome EXCEPT ![x] = "answered"]
  /\ UNCHANGED <<tables, staged, review_vars, extract_vars>>

(* 503 without a client, 404, 409 when not READY or already running.       *)
RefuseExtraction(x) ==
  /\ pc[x] = "idle"
  /\ outcome' = [outcome EXCEPT ![x] = "answered"]
  /\ UNCHANGED <<tables, advisory_lock, pc, staged, review_vars, extract_vars>>

(* The model calls over the chunks; nothing is read or written meanwhile.  *)
GenerationFails(x) ==
  /\ pc[x] = "generating"
  /\ RollbackExtraction(x, "answered")

Reviewed(i) == ~row[i].archived /\ (row[i].review_status # "NEW" \/ EventsOn(i) # {})

SelectReviewed(x) ==
  /\ pc[x] = "generating"
  /\ selected' = [selected EXCEPT ![x] = {i \in stored : Reviewed(i)}]
  /\ snapshot' = [snapshot EXCEPT ![x] = row]
  /\ pc' = [pc EXCEPT ![x] = "archiving"]
  /\ UNCHANGED <<tables, advisory_lock, outcome, staged, review_vars, doomed, deleting>>

(* One item: the versioned UPDATE of archived_at and its system event.     *)
ArchiveItem(x, i) ==
  /\ pc[x] = "archiving" /\ i \in selected[x]
  /\ RowFree(i) /\ i \in stored /\ row[i].version = snapshot[x][i].version
  /\ staged' = [staged EXCEPT ![x] = @ \cup
       {Event(next_seq, i, "EXTRACTION_ARCHIVED", snapshot[x][i], snapshot[x][i], NoExtra)}]
  /\ next_seq' = next_seq + 1
  /\ selected' = [selected EXCEPT ![x] = @ \ {i}]
  /\ UNCHANGED <<stored, row, events, extractions, advisory_lock, pc, outcome, review_vars,
                 snapshot, doomed, deleting>>

(* The item was edited after the read: StaleDataError fails the request.   *)
LoseArchiveRace(x, i) ==
  /\ pc[x] = "archiving" /\ i \in selected[x]
  /\ RowFree(i) /\ (i \notin stored \/ row[i].version # snapshot[x][i].version)
  /\ RollbackExtraction(x, "stale_error")

(* DELETE ... WHERE review_status = 'NEW' AND NOT EXISTS (events): the     *)
(* statement's snapshot fixes the rows it will visit.                      *)
SelectUnreviewed(x) ==
  /\ pc[x] = "archiving" /\ selected[x] = {}
  /\ doomed' = [doomed EXCEPT ![x] =
       {i \in stored : row[i].review_status = "NEW" /\ EventsOn(i) = {}
                         /\ \A e \in staged[x] : e.item # i}]
  /\ pc' = [pc EXCEPT ![x] = "deleting"]
  /\ UNCHANGED <<tables, advisory_lock, outcome, staged, review_vars, selected, snapshot,
                 deleting>>

(* A visited row: when its lock is free, the row condition is evaluated    *)
(* again on what is committed by now; the events table is not read again.  *)
DeleteItem(x, i) ==
  /\ pc[x] = "deleting" /\ i \in doomed[x] /\ DeleteFree(i)
  /\ doomed' = [doomed EXCEPT ![x] = @ \ {i}]
  /\ deleting' = [deleting EXCEPT ![x] =
       IF row[i].review_status = "NEW" THEN @ \cup {i} ELSE @]
  /\ UNCHANGED <<tables, advisory_lock, pc, outcome, staged, review_vars, selected, snapshot>>

(* The new items are inserted and everything commits at once; events of    *)
(* deleted items go with them (ON DELETE CASCADE).                         *)
CommitExtraction(x) ==
  /\ pc[x] = "deleting" /\ doomed[x] = {}
  /\ \E new \in SUBSET {i \in Items \ stored : row[i] # Gone} :
       /\ stored' = (stored \ deleting[x]) \cup new
       /\ row' = [i \in Items |->
            IF i \in new THEN NewItem(extractions + 1)
            ELSE IF i \in deleting[x] THEN Gone
            ELSE IF \E e \in staged[x] : e.item = i THEN Archived(snapshot[x][i])
            ELSE row[i]]
  /\ events' = {e \in events : e.item \notin deleting[x]} \cup staged[x]
  /\ extractions' = extractions + 1
  /\ End(x, "answered") /\ ForgetExtraction(x)
  /\ UNCHANGED next_seq

(* The process or its connection dies: PostgreSQL rolls the work back.     *)
Crash(a) ==
  /\ pc[a] # "idle"
  /\ \/ a \in Reviewers /\ RollbackReview(a, "answered")
     \/ a \in Extractors /\ RollbackExtraction(a, "answered")

-----------------------------------------------------------------------------
ReviewStep(r) ==
  \/ FlushUpdate(r) \/ LoseRace(r) \/ FlushEvent(r) \/ LoseItem(r)
  \/ CommitNothing(r) \/ CommitReview(r)

ExtractionStep(x) ==
  \/ GenerationFails(x) \/ SelectReviewed(x) \/ SelectUnreviewed(x) \/ CommitExtraction(x)
  \/ \E i \in Items : ArchiveItem(x, i) \/ LoseArchiveRace(x, i) \/ DeleteItem(x, i)

Next ==
  \/ \E r \in Reviewers : LoadItem(r) \/ RefuseRequest(r) \/ ReviewStep(r)
  \/ \E x \in Extractors : BeginExtraction(x) \/ RefuseExtraction(x) \/ ExtractionStep(x)
  \/ \E a \in Actors : Crash(a)

Spec == Init /\ [][Next]_vars

(* A handler that has read goes on to its end: awaits return, PostgreSQL   *)
(* grants a lock once its holder has ended.  Starting and crashing is not  *)
(* owed to anybody.                                                        *)
Fairness ==
  /\ \A r \in Reviewers : WF_vars(ReviewStep(r))
  /\ \A x \in Extractors : WF_vars(ExtractionStep(x))

FairSpec == Spec /\ Fairness

-----------------------------------------------------------------------------
(* Properties.                                                             *)

Outcomes == {"answered", "stale_error", "integrity_error"}

(* Every variable has the shape of the tables and locals it stands for.    *)
TypeOK ==
  /\ stored \subseteq Items
  /\ row \in [Items -> EvidenceItem]
  /\ events \subseteq EvidenceReviewEvent
  /\ next_seq \in Nat /\ extractions \in Nat
  /\ advisory_lock \in Extractors \cup {NoActor}
  /\ pc \in [Actors -> {"idle", "loaded", "flushed", "generating", "archiving", "deleting"}]
  /\ outcome \in [Actors -> Outcomes]
  /\ staged \in [Actors -> SUBSET EvidenceReviewEvent]
  /\ target \in [Reviewers -> Items \cup {NotGiven}]
  /\ body \in [Reviewers -> Body \cup {NoBody}]
  /\ loaded \in [Reviewers -> EvidenceItem]
  /\ selected \in [Extractors -> SUBSET Items]
  /\ snapshot \in [Extractors -> [Items -> EvidenceItem]]
  /\ doomed \in [Extractors -> SUBSET Items]
  /\ deleting \in [Extractors -> SUBSET Items]

Decisions(i) == {e \in EventsOn(i) : e.previous_status # e.next_status}

(* In seq order, the events of ds are a path from NEW to status.           *)
Replays(ds, status) ==
  /\ ds = {} => status = "NEW"
  /\ \A e \in ds :
       /\ (\A f \in ds : f.seq <= e.seq) => status = e.next_status
       /\ (\A f \in ds : f.seq >= e.seq) => e.previous_status = "NEW"
       /\ \A f \in ds :
            (f.seq < e.seq /\ ~\E g \in ds : f.seq < g.seq /\ g.seq < e.seq)
              => e.previous_status = f.next_status

(* The events that changed the review status of an item, in seq order, are *)
(* a path from NEW to the status the row shows: no committed decision is   *)
(* missing from the trail and none in it was overwritten, whatever         *)
(* requests interleaved between their reads and their commits.             *)
AuditTrailReplays == \A i \in stored : Replays(Decisions(i), row[i].review_status)

(* The last of the events es in seq order, none if there are none.         *)
Latest(es) == {e \in es : \A f \in es : f.seq <= e.seq}

RiskChanges(es) == {e \in es : e.previous_risk # e.next_risk}
StatusChanges(es) == {e \in es : e.action = "SET_STATUS"}

RatingsFollow(es, shown) ==
  /\ RiskChanges(es) = {} => shown.risk = "UNRATED"
  /\ \A e \in Latest(RiskChanges(es)) : shown.risk = e.next_risk
  /\ StatusChanges(es) = {} => shown.status = "OPEN"
  /\ \A e \in Latest(StatusChanges(es)) : shown.status = e.extra.next

(* The same of the two ratings, which PATCH, review and re-extraction all  *)
(* write around each other: the last event that changed one names it.      *)
RatingsReplay == \A i \in stored : RatingsFollow(EventsOn(i), row[i])

(* A request that has flushed its UPDATE commits onto exactly the row it   *)
(* read: optimistic version check and row lock leave no lost update.       *)
NoLostUpdate ==
  \A r \in Reviewers :
    (pc[r] = "flushed" /\ UpdatesSent(loaded[r], body[r]) > 0)
      => target[r] \in stored /\ row[target[r]] = loaded[r]

(* Items nobody has touched all come from the latest extraction: a         *)
(* re-extraction leaves no stale item behind and two of them never mix.    *)
Untouched(i) == row[i].review_status = "NEW" /\ EventsOn(i) = {}

UntouchedItemsAreCurrent ==
  \A i \in stored : Untouched(i) => row[i].batch = extractions

(* The advisory lock belongs to a transaction, so it is always given back: *)
(* no extraction leaves its document locked against the next one.          *)
ExtractionLockReleased ==
  \A x \in Extractors : advisory_lock = x ~> advisory_lock # x

(* The atomic workflow this implements.                                    *)
Workflow ==
  INSTANCE ReviewWorkflow WITH
    phase <- [i \in Items |-> IF i \notin stored
                              THEN IF row[i] = Gone THEN "deleted" ELSE "absent"
                              ELSE IF row[i].archived THEN "archived" ELSE "live"],
    view <- [i \in Items |-> [review_status |-> row[i].review_status,
                              risk |-> row[i].risk, status |-> row[i].status]]

(* Requests and extractions that interleave await by await change the      *)
(* items as if each were one step of the workflow.                         *)
ImplementsWorkflow == Workflow!Spec

-----------------------------------------------------------------------------
(* What the repository says of the code and the code does not do.          *)

(* docs/02_ROADMAP.md:80: concurrent edits of one item produce 409.        *)
LostRaceIsConflict == \A r \in Reviewers : outcome[r] # "stale_error"

(* docs/02_ROADMAP.md:63: re-extraction never destroys reviewed evidence,  *)
(* where reviewed means a history (services/evidence.py:275).              *)
HistoryIsKept ==
  [][\A i \in stored : EventsOn(i) # {} => i \in stored']_vars

=============================================================================
