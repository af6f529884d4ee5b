-------------------------- MODULE ReviewClientProofs --------------------------
(* What the web client shows, for any number of writes under way.          *)
EXTENDS ReviewClient, TLAPS

(* What a query can have loaded.                                           *)
Listing == [phase: {"live", "archived"}, version: Nat, events: Nat]

(* A query e of q that has been told of the number n will show it: what it *)
(* shows does, or what is coming in, or it is about to read the row r,     *)
(* which does.  Only a query that is mounted and loaded is told.           *)
Covers(q, mounted, e, r, n) ==
  /\ n \in Nat /\ n <= Number(q, r)
  /\ ~(mounted /\ e.loaded) => n = 0
  /\ e.fetch = "answered" => e.answer = Absent \/ n <= Number(q, e.answer)
  /\ e.fetch = "idle" /\ ~e.error => e.data = Absent \/ n <= Number(q, e.data)

(* A query of the drawer: what it shows, what comes in and the row follow  *)
(* each other.                                                             *)
Forward(q, e, r) ==
  /\ e.loaded => e.data \in Listing /\ Number(q, e.data) <= Number(q, r)
  /\ e.fetch = "answered" => e.answer \in Listing /\ Number(q, e.answer) <= Number(q, r)
  /\ e.loaded /\ e.fetch = "answered" => Number(q, e.data) <= Number(q, e.answer)

(* What a client is told of the item has been there.                       *)
Happened(wr, r) ==
  wr.at \in {"answered", "refused"} \/ (wr.at = "committed" /\ wr.kind = "extract") =>
     /\ wr.result \in Row
     /\ wr.result.version <= r.version /\ wr.result.events <= r.events
     /\ wr.at = "answered" /\ wr.kind # "extract" => wr.result.phase # "deleted"

CoversAll ==
  \A q \in Queries : /\ Covers(q, Mounted(q), cache[q], row, own[q])
                     /\ Covers(q, Mounted(q), cache[q], row, won[q])

ForwardAll == \A q \in DrawerQueries : Forward(q, cache[q], row)

HappenedAll == \A w \in Writes : Happened(write[w], row)

UnfollowedEmpty == \A q \in Queries : q \notin followed => cache[q] = Empty

(* The inductive invariant.                                                *)
IInv == TypeOK /\ HappenedAll /\ UnfollowedEmpty /\ CoversAll /\ ForwardAll

-----------------------------------------------------------------------------
(* Facts about single queries.                                             *)

(* Numbers are natural, and grow with the row.                             *)
LEMMA NumberIsNat == \A q \in Queries, r \in Row \cup Listing : Number(q, r) \in Nat
BY DEF Number, Row, Listing

LEMMA NumberGrows ==
  ASSUME NEW q \in Queries, NEW r \in Row, NEW r2 \in Row,
         r.version <= r2.version, r.events <= r2.events
  PROVE  Number(q, r) <= Number(q, r2)
BY DEF Number, Row

LEMMA AskedIsQuery == \A e \in Query : Asked(e) \in Query
BY DEF Asked, Query, Shown

LEMMA EmptyIsQuery == Empty \in Query
BY DEF Empty, Query, Shown

(* A query that no number was told to covers it.                           *)
LEMMA NothingToCover ==
  ASSUME NEW q \in Queries, NEW e \in Query, NEW r \in Row, NEW mounted \in BOOLEAN
  PROVE  Covers(q, mounted, e, r, 0)
<1>1. Number(q, r) \in Nat
  BY NumberIsNat
<1>2. e.answer = Absent \/ 0 <= Number(q, e.answer)
  BY NumberIsNat DEF Query, Shown, Listing
<1>3. e.data = Absent \/ 0 <= Number(q, e.data)
  BY NumberIsNat DEF Query, Shown, Listing
<1> QED
  BY <1>1, <1>2, <1>3 DEF Covers

(* What is covered stays so when the row grows,                            *)
LEMMA CoversLater ==
  ASSUME NEW q \in Queries, NEW e \in Query, NEW r \in Row, NEW r2 \in Row,
         NEW mounted \in BOOLEAN, NEW n,
         r.version <= r2.version, r.events <= r2.events,
         Covers(q, mounted, e, r, n)
  PROVE  Covers(q, mounted, e, r2, n)
<1>1. Number(q, r) <= Number(q, r2) /\ Number(q, r) \in Nat /\ Number(q, r2) \in Nat
  BY NumberGrows, NumberIsNat
<1>2. n \in Nat /\ n <= Number(q, r)
  BY DEF Covers
<1>3. n <= Number(q, r2)
  BY <1>1, <1>2
<1> QED
  BY <1>2, <1>3 DEF Covers

(* and a fetch that starts now covers all there is.                        *)
LEMMA CoversAsked ==
  ASSUME NEW q \in Queries, NEW e \in Query, NEW r \in Row,
         NEW mounted \in BOOLEAN, NEW n \in Nat,
         n <= Number(q, r), ~(mounted /\ e.loaded) => n = 0
  PROVE  Covers(q, mounted, Asked(e), r, n)
BY DEF Covers, Asked, Query

-----------------------------------------------------------------------------
(* Facts about steps.                                                      *)

(* What the server makes of a row is a row, and no older.                  *)
LEMMA RowChanges ==
  ASSUME NEW r \in Row,
         NEW r2 \in {Edited(r), Commented(r), Superseded(r), [r EXCEPT !.phase = "deleted"]}
  PROVE  r2 \in Row /\ r.version <= r2.version /\ r.events <= r2.events
<1>1. Edited(r) \in Row /\ r.version <= Edited(r).version /\ r.events <= Edited(r).events
  <2> DEFINE r1 == [r EXCEPT !.version = @ + 1]
  <2>1. r1 \in Row /\ r.version <= r1.version /\ r1.events = r.events /\ r.events \in Nat
    BY DEF Row
  <2>2. Edited(r) = [r1 EXCEPT !.events = @ + 1]
    BY DEF Edited
  <2> HIDE DEF r1
  <2> QED
    BY <2>1, <2>2 DEF Row
<1>2. Superseded(r) \in {r, [r EXCEPT !.phase = "deleted"], [Edited(r) EXCEPT !.phase = "archived"]}
  BY DEF Superseded
<1> QED
  BY <1>1, <1>2 DEF Commented, Row

(* The steps that leave everything the client knows alone.                 *)
Quiet == UNCHANGED <<cache, followed, drawer, own, won>>

(* Every step is quiet, or of one of these.                                *)
LEMMA Steps ==
  ASSUME [Next]_vars,
         NEW ACTION P,
         Quiet => P,
         OpenDrawer => P, CloseDrawer => P, ChangeFilters => P, Reconnect => P,
         \A w \in Writes : ReviewSucceeds(w) \/ UpdateSucceeds(w) \/ ExtractSucceeds(w)
                               \/ Conflict(w) => P,
         \A q \in Queries : AnswerQuery(q) \/ Receive(q) \/ FailQuery(q) \/ Collect(q) => P
  PROVE  P
<1>1. CASE UserStep
  BY <1>1 DEF UserStep, Extract, Update, Review, Quiet, view_vars, history_vars
<1>2. CASE Others
  BY <1>2 DEF Others, Quiet, view_vars, history_vars
<1>3. CASE \E w \in Writes : ServerStep(w)
  BY <1>3 DEF ServerStep, Commit, Refresh, RefuseStale, Quiet, view_vars, history_vars
<1>4. CASE \E w \in Writes : ClientStep(w)
  BY <1>4 DEF ClientStep, Fails, Done, Quiet
<1>5. CASE \E q \in Queries : QueryStep(q)
  BY <1>5 DEF QueryStep
<1>6. CASE UNCHANGED vars
  BY <1>6 DEF vars, Quiet, view_vars, history_vars
<1> QED
  BY <1>1, <1>2, <1>3, <1>4, <1>5, <1>6 DEF Next

(* The row never gets older.                                               *)
LEMMA RowGrows ==
  ASSUME row \in Row, [Next]_vars
  PROVE  row' \in Row /\ row.version <= row'.version /\ row.events <= row'.events
<1>1. CASE Others
  BY <1>1, RowChanges DEF Others
<1>2. ASSUME NEW w \in Writes, Commit(w)
      PROVE  row' \in Row /\ row.version <= row'.version /\ row.events <= row'.events
  BY <1>2, RowChanges DEF Commit, Stored
<1>3. CASE row' = row
  BY <1>3 DEF Row
<1>4. ASSUME NEW w \in Writes, ServerStep(w), ~Commit(w)
      PROVE  row' = row
  BY <1>4 DEF ServerStep, Refresh, RefuseStale
<1>5. ASSUME NEW w \in Writes, ClientStep(w)
      PROVE  row' = row
  BY <1>5 DEF ClientStep, ReviewSucceeds, UpdateSucceeds, ExtractSucceeds, Conflict, Fails, Done
<1>6. ASSUME NEW q \in Queries, QueryStep(q)
      PROVE  row' = row
  BY <1>6 DEF QueryStep, AnswerQuery, Receive, FailQuery, Collect
<1>7. ASSUME UserStep \/ Reconnect \/ UNCHANGED vars
      PROVE  row' = row
  BY <1>7 DEF UserStep, OpenDrawer, CloseDrawer, ChangeFilters, Extract, Update, Review,
       Reconnect, vars
<1> QED
  BY <1>1, <1>2, <1>3, <1>4, <1>5, <1>6, <1>7 DEF Next

(* What has happened has happened.                                         *)
LEMMA HappenedLater ==
  ASSUME NEW wr, NEW r \in Row, NEW r2 \in Row, Happened(wr, r),
         r.version <= r2.version, r.events <= r2.events
  PROVE  Happened(wr, r2)
BY DEF Happened, Row

LEMMA HappenedKept ==
  ASSUME IInv, [Next]_vars
  PROVE  HappenedAll'
<1> SUFFICES ASSUME NEW w \in Writes
             PROVE  Happened(write[w], row)'
  BY DEF HappenedAll
<1>1. row \in Row /\ row' \in Row /\ row.version <= row'.version /\ row.events <= row'.events
  BY RowGrows DEF IInv, TypeOK
<1>2. Happened(write[w], row) /\ write \in [Writes -> Write]
  BY DEF IInv, HappenedAll, TypeOK
<1>3. CASE write'[w] = write[w]
  BY <1>1, <1>2, <1>3, HappenedLater
<1>4. CASE write'[w].at \in {"unused", "sent"}
  BY <1>4 DEF Happened
<1>5. CASE Commit(w)
  BY <1>1, <1>2, <1>5 DEF Commit, Happened, Write, Row
<1>6. CASE Refresh(w)
  BY <1>1, <1>2, <1>6 DEF Refresh, Happened, Write, Row
<1>7. CASE RefuseStale(w)
  BY <1>1, <1>2, <1>7 DEF RefuseStale, Happened, Write, Row
<1>8. ASSUME NEW v \in Writes, v # w, ServerStep(v)
      PROVE  write'[w] = write[w]
  BY <1>2, <1>8 DEF ServerStep, Commit, Refresh, RefuseStale
<1>9. ASSUME NEW v \in Writes, ClientStep(v)
      PROVE  write'[w] = write[w] \/ write'[w].at = "unused"
  BY <1>2, <1>9 DEF ClientStep, ReviewSucceeds, UpdateSucceeds, ExtractSucceeds, Conflict,
       Fails, Done, Unused
<1>10. ASSUME NEW v \in Writes, NEW kind, NEW version, Send(v, kind, version)
       PROVE  write'[w] = write[w] \/ write'[w].at = "sent"
  BY <1>2, <1>10 DEF Send, Unused
<1>11. CASE UserStep
  BY <1>3, <1>4, <1>10, <1>11 DEF UserStep, OpenDrawer, CloseDrawer, ChangeFilters,
       Extract, Update, Review
<1>12. CASE Others \/ Reconnect \/ UNCHANGED vars \/ \E q \in Queries : QueryStep(q)
  BY <1>3, <1>12 DEF Others, Reconnect, vars, QueryStep, AnswerQuery, Receive, FailQuery, Collect
<1> QED
  BY <1>3, <1>4, <1>5, <1>6, <1>7, <1>8, <1>9, <1>11, <1>12 DEF Next, ServerStep

(* A reload leaves a query alone or asks it again; always, if it is loaded. *)
LEMMA Reloads ==
  ASSUME NEW q \in Queries
  PROVE  /\ Invalidated(q) \in {cache[q], Asked(cache[q])}
         /\ Mounted(q) /\ cache[q].loaded => Invalidated(q) = Asked(cache[q])
         /\ ~Mounted(q) => Invalidated(q) = cache[q]
BY DEF Invalidated, Mount

LEMMA InvalidateReloads ==
  ASSUME NEW qs, Invalidate(qs), NEW q \in Queries
  PROVE  cache'[q] = IF q \in qs THEN Invalidated(q) ELSE cache[q]
BY DEF Invalidate

LEMMA UnfollowedKept ==
  ASSUME IInv, [Next]_vars
  PROVE  UnfollowedEmpty'
<1> SUFFICES ASSUME NEW q \in Queries, q \notin followed'
             PROVE  cache'[q] = Empty
  BY DEF UnfollowedEmpty
<1> USE DEF Quiet
<1>1. cache \in [Queries -> Query]
  BY DEF IInv, TypeOK
<1>2. q \notin followed => cache[q] = Empty /\ ~Mounted(q)
  BY DEF IInv, UnfollowedEmpty, Mounted
<1>3. CASE Quiet
  BY <1>2, <1>3
<1>4. CASE OpenDrawer
  BY <1>2, <1>4 DEF OpenDrawer
<1>5. CASE CloseDrawer
  BY <1>2, <1>5 DEF CloseDrawer
<1>6. CASE ChangeFilters
  BY <1>1, <1>2, <1>6 DEF ChangeFilters
<1>7. CASE Reconnect
  BY <1>2, <1>7 DEF Reconnect, view_vars
<1>8. ASSUME NEW w \in Writes,
             ReviewSucceeds(w) \/ UpdateSucceeds(w) \/ ExtractSucceeds(w) \/ Conflict(w)
      PROVE  cache'[q] = Empty
  <2>1. q \notin followed
    BY <1>8 DEF ReviewSucceeds, UpdateSucceeds, ExtractSucceeds, Conflict, Done
  <2>2. cache'[q] \in {cache[q], Invalidated(q), Put(cache[q], write[w].result)}
    BY <1>8 DEF ReviewSucceeds, UpdateSucceeds, ExtractSucceeds, Conflict, Invalidate
  <2>3. Put(cache[q], write[w].result) = cache[q]
    BY <1>2, <2>1 DEF Put, Empty
  <2> QED
    BY <1>2, <2>1, <2>2, <2>3, Reloads
<1>9. ASSUME NEW p \in Queries, AnswerQuery(p) \/ Receive(p) \/ FailQuery(p) \/ Collect(p)
      PROVE  cache'[q] = Empty
  <2>1. q \notin followed /\ cache[q] = Empty
    BY <1>2, <1>9 DEF AnswerQuery, Receive, FailQuery, Collect, view_vars
  <2>2. CASE p # q
    BY <1>1, <1>9, <2>1, <2>2 DEF AnswerQuery, Receive, FailQuery, Collect
  <2>3. CASE p = q
    BY <1>9, <2>1, <2>3 DEF AnswerQuery, Receive, FailQuery, Collect, Empty
  <2> QED
    BY <2>2, <2>3
<1> QED
  BY <1>3, <1>4, <1>5, <1>6, <1>7, <1>8, <1>9, Steps

-----------------------------------------------------------------------------
(* Preservation, query by query.                                           *)

(* A query of the drawer goes on when the row grows,                       *)
LEMMA ForwardLater ==
  ASSUME NEW q \in Queries, NEW e \in Query, NEW r \in Row, NEW r2 \in Row,
         r.version <= r2.version, r.events <= r2.events, Forward(q, e, r)
  PROVE  Forward(q, e, r2)
<1>1. Number(q, r) <= Number(q, r2) /\ Number(q, r) \in Nat /\ Number(q, r2) \in Nat
  BY NumberGrows, NumberIsNat
<1>2. e.loaded => e.data \in Listing /\ Number(q, e.data) \in Nat /\ Number(q, e.data) <= Number(q, r)
  BY NumberIsNat DEF Forward
<1>3. e.fetch = "answered" => e.answer \in Listing /\ Number(q, e.answer) \in Nat
                                 /\ Number(q, e.answer) <= Number(q, r)
  BY NumberIsNat DEF Forward
<1>4. /\ e.loaded => Number(q, e.data) <= Number(q, r2)
      /\ e.fetch = "answered" => Number(q, e.answer) <= Number(q, r2)
  BY <1>1, <1>2, <1>3
<1> QED
  BY <1>2, <1>3, <1>4 DEF Forward

(* and when it is asked again.                                             *)
LEMMA ForwardAsked ==
  ASSUME NEW q \in Queries, NEW e \in Query, NEW r \in Row, Forward(q, e, r)
  PROVE  Forward(q, Asked(e), r)
BY DEF Forward, Asked, Query

(* What the server reads speaks of the row as it is.                       *)
LEMMA ReadsRow ==
  ASSUME NEW q \in Queries, row \in Row, q \in DrawerQueries => row.phase # "deleted"
  PROVE  /\ Read(q) \in Shown
         /\ Read(q) = Absent \/ Number(q, Read(q)) = Number(q, row)
         /\ q \in DrawerQueries => Read(q) \in Listing /\ Number(q, Read(q)) = Number(q, row)
BY DEF Read, Listed, Shown, Listing, Row, Number, Queries, DrawerQueries

LEMMA ForwardKept ==
  ASSUME IInv, [Next]_vars
  PROVE  ForwardAll'
<1> SUFFICES ASSUME NEW q \in DrawerQueries
             PROVE  Forward(q, cache'[q], row')
  BY DEF ForwardAll
<1>1. q \in Queries /\ q # "evidence" /\ q # "queue"
  BY DEF DrawerQueries, Queries
<1>2. cache \in [Queries -> Query] /\ cache[q] \in Query /\ Forward(q, cache[q], row)
  BY <1>1 DEF IInv, TypeOK, ForwardAll
<1>3. row \in Row /\ row' \in Row /\ row.version <= row'.version /\ row.events <= row'.events
  BY RowGrows DEF IInv, TypeOK
<1>4. CASE cache'[q] = cache[q]
  BY <1>1, <1>2, <1>3, <1>4, ForwardLater
<1>5. CASE cache'[q] = Asked(cache[q])
  BY <1>1, <1>2, <1>3, <1>5, ForwardLater, ForwardAsked, AskedIsQuery
<1>6. CASE Quiet
  BY <1>4, <1>6 DEF Quiet
<1>7. CASE OpenDrawer \/ CloseDrawer \/ ChangeFilters \/ Reconnect
  BY <1>1, <1>2, <1>4, <1>5, <1>7 DEF OpenDrawer, CloseDrawer, ChangeFilters, Reconnect, Mount
<1>8. ASSUME NEW w \in Writes,
             ReviewSucceeds(w) \/ UpdateSucceeds(w) \/ ExtractSucceeds(w) \/ Conflict(w)
      PROVE  cache'[q] \in {cache[q], Asked(cache[q])}
  BY <1>1, <1>8, Reloads DEF ReviewSucceeds, UpdateSucceeds, ExtractSucceeds, Conflict, Invalidate
<1>9. ASSUME NEW p \in Queries, AnswerQuery(p) \/ Receive(p) \/ FailQuery(p) \/ Collect(p)
      PROVE  Forward(q, cache'[q], row')
  <2>1. CASE p # q
    BY <1>1, <1>2, <1>4, <1>9, <2>1 DEF AnswerQuery, Receive, FailQuery, Collect
  <2>2. CASE AnswerQuery(q)
    <3>1. cache'[q] = [cache[q] EXCEPT !.fetch = "answered", !.answer = Read(q)] /\ row' = row
      BY <1>1, <1>2, <2>2 DEF AnswerQuery
    <3>2. Read(q) \in Listing /\ Number(q, Read(q)) = Number(q, row) /\ Number(q, row) \in Nat
      BY <1>1, <1>3, <2>2, ReadsRow, NumberIsNat DEF AnswerQuery
    <3> QED
      BY <1>2, <3>1, <3>2 DEF Forward, Query
  <2>3. CASE Receive(q)
    BY <1>1, <1>2, <2>3 DEF Receive, Forward, Query, Empty
  <2>4. CASE FailQuery(q) \/ Collect(q)
    BY <1>1, <1>2, <2>4 DEF FailQuery, Collect, Forward, Query, Empty
  <2> QED
    BY <1>9, <2>1, <2>2, <2>3, <2>4
<1> QED
  BY <1>4, <1>5, <1>6, <1>7, <1>8, <1>9, Steps

(* What the client is told by an answer is covered, if it reloads.         *)
LEMMA ToldIsCovered ==
  ASSUME NEW q \in Queries, cache[q] \in Query, row \in Row, NEW known \in [Queries -> Nat],
         Covers(q, Mounted(q), cache[q], row, known[q]),
         NEW qs, NEW r \in Row, r.version <= row.version, r.events <= row.events,
         NEW e \in {cache[q], Asked(cache[q])},
         q \in qs /\ Mounted(q) /\ cache[q].loaded => e = Asked(cache[q])
  PROVE  Covers(q, Mounted(q), e, row, Told(known, qs, r)[q])
<1>1. Mounted(q) \in BOOLEAN
  BY DEF Mounted
<1>2. Number(q, r) \in Nat /\ Number(q, r) <= Number(q, row)
  BY NumberIsNat, NumberGrows
<1>3. /\ known[q] \in Nat /\ known[q] <= Number(q, row)
      /\ ~(Mounted(q) /\ cache[q].loaded) => known[q] = 0
  BY DEF Covers
<1>4. CASE q \in qs /\ Mounted(q) /\ cache[q].loaded /\ known[q] < Number(q, r)
  <2>1. Told(known, qs, r)[q] = Number(q, r) /\ e = Asked(cache[q])
    BY <1>4 DEF Told
  <2> QED
    BY <1>1, <1>2, <1>4, <2>1, CoversAsked
<1>5. CASE ~(q \in qs /\ Mounted(q) /\ cache[q].loaded /\ known[q] < Number(q, r))
  <2>1. Told(known, qs, r)[q] = known[q]
    BY <1>5 DEF Told
  <2>2. Covers(q, Mounted(q), Asked(cache[q]), row, known[q])
    BY <1>1, <1>3, CoversAsked
  <2> QED
    BY <2>1, <2>2
<1> QED
  BY <1>4, <1>5

(* What is covered stays so over every step of the cache alone.            *)
LEMMA CoversQueryStep ==
  ASSUME NEW q \in Queries, cache \in [Queries -> Query], row \in Row, NEW n,
         Covers(q, Mounted(q), cache[q], row, n),
         NEW p \in Queries, AnswerQuery(p) \/ Receive(p) \/ FailQuery(p) \/ Collect(p)
  PROVE  Covers(q, Mounted(q), cache'[q], row, n)
<1>1. cache[q] \in Query /\ Mounted(q) \in BOOLEAN
  BY DEF Mounted
<1>2. CASE p # q
  <2>1. cache'[q] = cache[q]
    BY <1>2 DEF AnswerQuery, Receive, FailQuery, Collect
  <2> QED
    BY <2>1
<1>3. CASE AnswerQuery(q)
  <2>1. cache'[q] = [cache[q] EXCEPT !.fetch = "answered", !.answer = Read(q)]
    BY <1>3 DEF AnswerQuery
  <2>2. Read(q) = Absent \/ Number(q, Read(q)) = Number(q, row)
    BY <1>3, ReadsRow DEF AnswerQuery
  <2> QED
    BY <1>1, <2>1, <2>2 DEF Covers, Query
<1>4. CASE Receive(q)
  <2>1. /\ cache[q].fetch = "answered"
        /\ cache'[q] = [Empty EXCEPT !.loaded = TRUE, !.data = cache[q].answer]
    BY <1>4 DEF Receive
  <2> QED
    BY <1>1, <2>1 DEF Covers, Query, Empty
<1>5. CASE FailQuery(q)
  <2>1. cache'[q] = [cache[q] EXCEPT !.fetch = "idle", !.answer = Absent, !.error = TRUE]
    BY <1>5 DEF FailQuery
  <2> QED
    BY <1>1, <2>1 DEF Covers, Query
<1>6. CASE Collect(q)
  <2>1. cache'[q] = Empty /\ n = 0
    BY <1>6 DEF Collect, Covers
  <2> QED
    BY <1>1, <2>1, NothingToCover, EmptyIsQuery
<1> QED
  BY <1>2, <1>3, <1>4, <1>5, <1>6

LEMMA CoversKept ==
  ASSUME IInv, [Next]_vars, TypeOK'
  PROVE  CoversAll'
<1> SUFFICES ASSUME NEW q \in Queries
             PROVE  /\ Covers(q, Mounted(q)', cache'[q], row', own'[q])
                    /\ Covers(q, Mounted(q)', cache'[q], row', won'[q])
  BY DEF CoversAll
<1> DEFINE Goal == /\ Covers(q, Mounted(q)', cache'[q], row', own'[q])
                   /\ Covers(q, Mounted(q)', cache'[q], row', won'[q])
<1>1. /\ cache \in [Queries -> Query] /\ cache[q] \in Query /\ cache'[q] \in Query
      /\ row \in Row /\ row' \in Row
      /\ own \in [Queries -> Nat] /\ won \in [Queries -> Nat]
  BY DEF IInv, TypeOK
<1>2. Mounted(q) \in BOOLEAN /\ Mounted(q)' \in BOOLEAN
  BY DEF Mounted
<1>3. /\ Covers(q, Mounted(q), cache[q], row, own[q])
      /\ Covers(q, Mounted(q), cache[q], row, won[q])
  BY DEF IInv, CoversAll
<1>4. ASSUME row' = row, cache'[q] \in {cache[q], Asked(cache[q])}, Mounted(q)' = Mounted(q),
             own'[q] = own[q], won'[q] = won[q]
      PROVE  Goal
  <2>1. ASSUME NEW n, Covers(q, Mounted(q), cache[q], row, n)
        PROVE  Covers(q, Mounted(q), Asked(cache[q]), row, n)
    <3>1. n \in Nat /\ n <= Number(q, row) /\ (~(Mounted(q) /\ cache[q].loaded) => n = 0)
      BY <2>1 DEF Covers
    <3> QED
      BY <1>1, <1>2, <3>1, CoversAsked
  <2> QED
    BY <1>3, <1>4, <2>1
<1>5. CASE own'[q] = 0 /\ won'[q] = 0
  BY <1>1, <1>2, <1>5, NothingToCover
<1>6. CASE Quiet
  <2>1. row.version <= row'.version /\ row.events <= row'.events
    BY <1>1, RowGrows
  <2>2. Mounted(q)' = Mounted(q) /\ cache' = cache /\ own' = own /\ won' = won
    BY <1>6 DEF Quiet, Mounted
  <2> QED
    BY <1>1, <1>2, <1>3, <2>1, <2>2, CoversLater
<1>7. CASE OpenDrawer
  <2>1. row' = row /\ own' = own /\ won' = won /\ cache'[q] \in {cache[q], Asked(cache[q])}
    BY <1>7 DEF OpenDrawer, Mount, history_vars
  <2>2. Mounted(q)' = Mounted(q) \/ ~Mounted(q)
    BY <1>2, <1>7 DEF OpenDrawer, Mounted
  <2>3. ~Mounted(q) => own[q] = 0 /\ won[q] = 0
    BY <1>3 DEF Covers
  <2> QED
    BY <1>4, <1>5, <2>1, <2>2, <2>3
<1>8. CASE CloseDrawer
  <2>1. CASE q \in DrawerQueries
    BY <1>1, <1>5, <1>8, <2>1 DEF CloseDrawer, DrawerQueries
  <2>2. CASE q \notin DrawerQueries
    BY <1>1, <1>4, <1>8, <2>2 DEF CloseDrawer, DrawerQueries, Queries, Lists, Mounted
  <2> QED
    BY <2>1, <2>2
<1>9. CASE ChangeFilters
  <2>1. CASE q = "queue"
    BY <1>1, <1>5, <1>9, <2>1 DEF ChangeFilters
  <2>2. CASE q # "queue"
    BY <1>1, <1>4, <1>9, <2>2 DEF ChangeFilters, Mounted
  <2> QED
    BY <2>1, <2>2
<1>10. CASE Reconnect
  BY <1>4, <1>10 DEF Reconnect, Mount, Mounted, view_vars, history_vars
<1>11. ASSUME NEW w \in Writes,
              ReviewSucceeds(w) \/ UpdateSucceeds(w) \/ ExtractSucceeds(w) \/ Conflict(w)
       PROVE  Goal
  <2> DEFINE r == write[w].result
  <2>1. row' = row /\ Mounted(q)' = Mounted(q)
    BY <1>11 DEF ReviewSucceeds, UpdateSucceeds, ExtractSucceeds, Conflict, Done, Mounted
  <2>2. r \in Row /\ r.version <= row.version /\ r.events <= row.events
    BY <1>11 DEF ReviewSucceeds, UpdateSucceeds, ExtractSucceeds, Conflict, Answered,
         IInv, HappenedAll, Happened
  <2> HIDE DEF r
  <2>3. CASE UpdateSucceeds(w) /\ q = "evidence"
    BY <1>1, <1>5, <2>3 DEF UpdateSucceeds, Told
  <2>4. ASSUME NEW qs, NEW known \in [Queries -> Nat],
               Covers(q, Mounted(q), cache[q], row, known[q]),
               cache'[q] = IF q \in qs THEN Invalidated(q) ELSE cache[q]
        PROVE  /\ \A told \in SUBSET qs :
                     Covers(q, Mounted(q), cache'[q], row, Told(known, told, r)[q])
               /\ Covers(q, Mounted(q), cache'[q], row, known[q])
    <3>1. /\ cache'[q] \in {cache[q], Asked(cache[q])}
          /\ q \in qs /\ Mounted(q) /\ cache[q].loaded => cache'[q] = Asked(cache[q])
      BY <2>4, Reloads
    <3>2. \A told \in SUBSET qs :
            Covers(q, Mounted(q), cache'[q], row, Told(known, told, r)[q])
      BY <1>1, <2>2, <2>4, <3>1, ToldIsCovered
    <3>3. Told(known, {}, r)[q] = known[q]
      BY DEF Told
    <3> QED
      BY <3>2, <3>3
  <2>5. CASE ReviewSucceeds(w)
    <3>1. /\ cache'[q] = IF q \in Queries THEN Invalidated(q) ELSE cache[q]
          /\ own' = Told(own, Queries, r) /\ won' = won
      BY <2>5 DEF ReviewSucceeds, Invalidate, r
    <3> QED
      BY <1>1, <1>3, <2>1, <2>4, <3>1
  <2>6. CASE UpdateSucceeds(w) /\ q # "evidence"
    <3> DEFINE qs == Queries \ {"evidence"}
    <3>1. cache'[q] = IF q \in qs THEN Invalidated(q) ELSE cache[q]
      BY <2>6 DEF UpdateSucceeds
    <3>2. own'[q] = Told(own, qs, r)[q] /\ won'[q] = won[q]
      BY <1>1, <2>6 DEF UpdateSucceeds, r, Told
    <3> QED
      BY <1>1, <1>3, <2>1, <2>4, <3>1, <3>2
  <2>7. CASE ExtractSucceeds(w)
    <3>1. /\ cache'[q] = IF q \in Lists THEN Invalidated(q) ELSE cache[q]
          /\ own' = Told(own, Lists, r) /\ won' = won
      BY <2>7 DEF ExtractSucceeds, Invalidate, r
    <3> QED
      BY <1>1, <1>3, <2>1, <2>4, <3>1
  <2>8. CASE Conflict(w)
    <3> DEFINE kind == write[w].kind
    <3>1. /\ cache'[q] = IF q \in Reloaded(kind) THEN Invalidated(q) ELSE cache[q]
          /\ won' = Told(won, Refused(kind), r) /\ own' = own
      BY <2>8 DEF Conflict, Invalidate, r
    <3>2. Refused(kind) \in SUBSET Reloaded(kind)
      BY DEF Refused, Reloaded
    <3> QED
      BY <1>1, <1>3, <2>1, <2>4, <3>1, <3>2
  <2> QED
    BY <1>11, <2>3, <2>5, <2>6, <2>7, <2>8
<1>12. ASSUME NEW p \in Queries, AnswerQuery(p) \/ Receive(p) \/ FailQuery(p) \/ Collect(p)
       PROVE  Goal
  <2>1. row' = row /\ own' = own /\ won' = won /\ Mounted(q)' = Mounted(q)
    BY <1>12 DEF AnswerQuery, Receive, FailQuery, Collect, view_vars, history_vars, Mounted
  <2> QED
    BY <1>1, <1>3, <1>12, <2>1, CoversQueryStep
<1> QED
  BY <1>6, <1>7, <1>8, <1>9, <1>10, <1>11, <1>12, Steps

(* Every step keeps the shapes.                                            *)
LEMMA TypeKept ==
  ASSUME IInv, [Next]_vars
  PROVE  TypeOK'
<1>1. /\ cache \in [Queries -> Query] /\ row \in Row
      /\ drawer \in BOOLEAN /\ include_archived \in BOOLEAN
      /\ busy \in Writes \cup {NoWrite} /\ write \in [Writes -> Write]
      /\ own \in [Queries -> Nat] /\ won \in [Queries -> Nat]
  BY DEF IInv, TypeOK
<1>2. row' \in Row
  BY <1>1, RowGrows
<1>3. cache' \in [Queries -> Query]
  <2>1. \A q \in Queries : Mount(cache[q]) \in Query /\ Asked(cache[q]) \in Query
                              /\ Invalidated(q) \in Query
    BY <1>1, AskedIsQuery, Reloads DEF Mount
  <2>2. CASE Quiet
    BY <1>1, <2>2 DEF Quiet
  <2>3. CASE OpenDrawer \/ CloseDrawer \/ Reconnect
    BY <1>1, <2>1, <2>3 DEF OpenDrawer, CloseDrawer, Reconnect
  <2>4. CASE ChangeFilters
    <3>1. [Empty EXCEPT !.data = cache["queue"].data] \in Query
      <4>1. cache["queue"].data \in Shown /\ Absent \in Shown
        BY <1>1 DEF Query, Queries, Shown
      <4> QED
        BY <4>1 DEF Empty, Query
    <3>2. Asked([Empty EXCEPT !.data = cache["queue"].data]) \in Query
      BY <3>1, AskedIsQuery
    <3> QED
      BY <1>1, <2>4, <3>2 DEF ChangeFilters
  <2>5. ASSUME NEW w \in Writes, ReviewSucceeds(w) \/ ExtractSucceeds(w) \/ Conflict(w)
        PROVE  cache' \in [Queries -> Query]
    BY <1>1, <2>1, <2>5 DEF ReviewSucceeds, ExtractSucceeds, Conflict, Invalidate
  <2>6. ASSUME NEW w \in Writes, UpdateSucceeds(w)
        PROVE  cache' \in [Queries -> Query]
    <3>1. write[w].result \in Row /\ write[w].result.phase # "deleted"
      BY <2>6 DEF UpdateSucceeds, Answered, IInv, HappenedAll, Happened
    <3>2. [write[w].result EXCEPT !.events = 0] \in Shown
      BY <3>1 DEF Row, Shown
    <3>3. \A e \in Query : Put(e, write[w].result) \in Query
      BY <3>2 DEF Put, Query, Shown
    <3> QED
      BY <1>1, <2>1, <2>6, <3>3 DEF UpdateSucceeds
  <2>7. ASSUME NEW p \in Queries, AnswerQuery(p) \/ Receive(p) \/ FailQuery(p) \/ Collect(p)
        PROVE  cache' \in [Queries -> Query]
    <3>1. CASE AnswerQuery(p)
      <4>1. Read(p) \in Shown
        BY <1>1, <3>1, ReadsRow DEF AnswerQuery
      <4>2. [cache[p] EXCEPT !.fetch = "answered", !.answer = Read(p)] \in Query
        BY <1>1, <4>1 DEF Query
      <4> QED
        BY <1>1, <3>1, <4>2 DEF AnswerQuery
    <3>2. CASE Receive(p)
      <4>1. [Empty EXCEPT !.loaded = TRUE, !.data = cache[p].answer] \in Query
        <5>1. cache[p].answer \in Shown /\ Absent \in Shown
          BY <1>1 DEF Query, Shown
        <5> QED
          BY <5>1 DEF Empty, Query
      <4> QED
        BY <1>1, <3>2, <4>1 DEF Receive
    <3>3. CASE FailQuery(p)
      <4>1. [cache[p] EXCEPT !.fetch = "idle", !.answer = Absent, !.error = TRUE] \in Query
        BY <1>1 DEF Query, Shown
      <4> QED
        BY <1>1, <3>3, <4>1 DEF FailQuery
    <3>4. CASE Collect(p)
      BY <1>1, <3>4, EmptyIsQuery DEF Collect
    <3> QED
      BY <2>7, <3>1, <3>2, <3>3, <3>4
  <2> QED
    BY <2>2, <2>3, <2>4, <2>5, <2>6, <2>7, Steps
<1>4. write' \in [Writes -> Write]
  <2>1. Unused \in Write
    BY DEF Unused, Write, Kinds
  <2>2. ASSUME NEW w \in Writes, NEW kind \in Kinds, NEW version \in Nat, Send(w, kind, version)
        PROVE  write' \in [Writes -> Write]
    <3>1. [Unused EXCEPT !.at = "sent", !.kind = kind, !.on = version] \in Write
      BY <2>1, <2>2 DEF Unused, Write
    <3> QED
      BY <1>1, <2>2, <3>1 DEF Send
  <2>3. CASE UserStep
    <3>1. ASSUME NEW w \in Writes, NEW version \in 1..row.version,
                 Update(w, version) \/ Review(w, "decide", version) \/ Review(w, "comment", version)
          PROVE  write' \in [Writes -> Write]
      BY <2>2, <3>1 DEF Update, Review, Kinds
    <3>2. ASSUME NEW w \in Writes, Extract(w)
          PROVE  write' \in [Writes -> Write]
      BY <2>2, <3>2 DEF Extract, Kinds
    <3>3. CASE OpenDrawer \/ CloseDrawer \/ ChangeFilters
      BY <1>1, <3>3 DEF OpenDrawer, CloseDrawer, ChangeFilters
    <3> QED
      BY <2>3, <3>1, <3>2, <3>3 DEF UserStep
  <2>4. ASSUME NEW w \in Writes, ServerStep(w)
        PROVE  write' \in [Writes -> Write]
    <3>1. write[w] \in Write
      BY <1>1
    <3>2. CASE Commit(w)
      <4>1. write' = [write EXCEPT ![w] = [write[w] EXCEPT !.at = "committed",
                        !.result = IF write[w].kind = "extract" THEN row' ELSE Absent]]
        BY <3>2 DEF Commit
      <4>2. write'[w] \in Write
        BY <1>1, <1>2, <3>1, <4>1 DEF Write
      <4> QED
        BY <1>1, <4>1, <4>2
    <3>3. CASE Refresh(w)
      <4>1. write' = [write EXCEPT ![w] = [write[w] EXCEPT !.at = "answered",
                        !.result = IF write[w].kind = "extract" THEN @ ELSE row]]
        BY <3>3 DEF Refresh
      <4>2. write'[w] \in Write
        BY <1>1, <3>1, <4>1 DEF Write
      <4> QED
        BY <1>1, <4>1, <4>2
    <3>4. CASE RefuseStale(w)
      <4>1. write' = [write EXCEPT ![w] = [write[w] EXCEPT !.at = "refused", !.result = row]]
        BY <3>4 DEF RefuseStale
      <4>2. write'[w] \in Write
        BY <1>1, <3>1, <4>1 DEF Write
      <4> QED
        BY <1>1, <4>1, <4>2
    <3> QED
      BY <2>4, <3>2, <3>3, <3>4 DEF ServerStep
  <2>5. ASSUME NEW w \in Writes, ClientStep(w)
        PROVE  write' \in [Writes -> Write]
    BY <1>1, <2>1, <2>5 DEF ClientStep, ReviewSucceeds, UpdateSucceeds, ExtractSucceeds,
         Conflict, Fails, Done
  <2>6. CASE Others \/ Reconnect \/ UNCHANGED vars \/ \E q \in Queries : QueryStep(q)
    BY <1>1, <2>6 DEF Others, Reconnect, vars, QueryStep, AnswerQuery, Receive, FailQuery, Collect
  <2> QED
    BY <2>3, <2>4, <2>5, <2>6 DEF Next
<1>5. own' \in [Queries -> Nat] /\ won' \in [Queries -> Nat]
  <2>1. ASSUME NEW known \in [Queries -> Nat], NEW qs, NEW r \in Row
        PROVE  Told(known, qs, r) \in [Queries -> Nat]
    BY NumberIsNat DEF Told
  <2>2. CASE Quiet
    BY <1>1, <2>2 DEF Quiet
  <2>3. CASE OpenDrawer \/ CloseDrawer \/ ChangeFilters \/ Reconnect
    BY <1>1, <2>3 DEF OpenDrawer, CloseDrawer, ChangeFilters, Reconnect, history_vars
  <2>4. ASSUME NEW w \in Writes,
               ReviewSucceeds(w) \/ UpdateSucceeds(w) \/ ExtractSucceeds(w) \/ Conflict(w)
        PROVE  own' \in [Queries -> Nat] /\ won' \in [Queries -> Nat]
    <3>1. write[w].result \in Row
      BY <2>4 DEF ReviewSucceeds, UpdateSucceeds, ExtractSucceeds, Conflict, Answered,
           IInv, HappenedAll, Happened
    <3> QED
      BY <1>1, <2>1, <2>4, <3>1 DEF ReviewSucceeds, UpdateSucceeds, ExtractSucceeds, Conflict
  <2>5. ASSUME NEW p \in Queries, AnswerQuery(p) \/ Receive(p) \/ FailQuery(p) \/ Collect(p)
        PROVE  own' = own /\ won' = won
    BY <2>5 DEF AnswerQuery, Receive, FailQuery, Collect, history_vars
  <2> QED
    BY <1>1, <2>2, <2>3, <2>4, <2>5, Steps
<1>6. /\ drawer' \in BOOLEAN /\ include_archived' \in BOOLEAN
      /\ busy' \in Writes \cup {NoWrite}
  <2>1. CASE UserStep
    BY <1>1, <2>1 DEF UserStep, OpenDrawer, CloseDrawer, ChangeFilters, Extract, Update, Review,
         view_vars
  <2>2. ASSUME NEW w \in Writes, ServerStep(w)
        PROVE  UNCHANGED <<drawer, include_archived, busy>>
    BY <2>2 DEF ServerStep, Commit, Refresh, RefuseStale, view_vars
  <2>3. ASSUME NEW w \in Writes, ClientStep(w)
        PROVE  UNCHANGED <<drawer, include_archived>> /\ busy' \in {busy, NoWrite}
    BY <2>3 DEF ClientStep, ReviewSucceeds, UpdateSucceeds, ExtractSucceeds, Conflict, Fails, Done
  <2>4. CASE Others \/ Reconnect \/ UNCHANGED vars \/ \E q \in Queries : QueryStep(q)
    BY <1>1, <2>4 DEF Others, Reconnect, vars, QueryStep, AnswerQuery, Receive, FailQuery, Collect,
         view_vars
  <2> QED
    BY <1>1, <2>1, <2>2, <2>3, <2>4 DEF Next
<1> QED
  BY <1>2, <1>3, <1>4, <1>5, <1>6 DEF TypeOK

-----------------------------------------------------------------------------
(* Theorems.                                                               *)

LEMMA Initially == Init => IInv
<1> SUFFICES ASSUME Init
             PROVE  IInv
  OBVIOUS
<1>1. row \in Row
  BY DEF Init, Row
<1>2. \A q \in Queries : cache[q] \in Query /\ ~cache[q].loaded /\ cache[q].fetch # "answered"
  BY EmptyIsQuery, AskedIsQuery DEF Init, Empty, Asked
<1>3. TypeOK
  <2>1. cache \in [Queries -> Query]
    BY EmptyIsQuery, AskedIsQuery DEF Init
  <2>2. Unused \in Write
    BY DEF Unused, Write, Kinds
  <2> QED
    BY <1>1, <2>1, <2>2 DEF Init, TypeOK
<1>4. HappenedAll
  BY DEF Init, HappenedAll, Happened, Unused
<1>5. UnfollowedEmpty
  BY DEF Init, UnfollowedEmpty
<1>6. CoversAll
  <2>1. \A q \in Queries : Mounted(q) \in BOOLEAN /\ own[q] = 0 /\ won[q] = 0
    BY DEF Init, Mounted
  <2> QED
    BY <1>1, <1>2, <2>1, NothingToCover DEF CoversAll
<1>7. ForwardAll
  BY <1>2 DEF ForwardAll, Forward, DrawerQueries, Queries
<1> QED
  BY <1>3, <1>4, <1>5, <1>6, <1>7 DEF IInv

(* The invariant holds of every behaviour, with any number of writes,      *)
(* versions and events, and whichever queries are followed together.       *)
THEOREM ReviewClientInvariant == Spec => []IInv
<1>1. IInv /\ [Next]_vars => IInv'
  BY TypeKept, HappenedKept, UnfollowedKept, CoversKept, ForwardKept DEF IInv
<1> QED
  BY <1>1, Initially, PTL DEF Spec

(* Every variable keeps its shape: no answer of the server reaches a panel *)
(* with a deleted row.                                                     *)
THEOREM ReviewClientTypes == Spec => []TypeOK
<1>1. IInv => TypeOK
  BY DEF IInv
<1> QED
  BY <1>1, ReviewClientInvariant, PTL

(* After a stale_version refusal the panel that was refused shows at least *)
(* the version that won, once it is loaded again.                          *)
THEOREM RefusalsReload == Spec => []ShowsWhatWon
<1>1. IInv => ShowsWhatWon
  BY DEF IInv, CoversAll, Covers, ShowsWhatWon, AtRest, AtLeast
<1> QED
  BY <1>1, ReviewClientInvariant, PTL

(* No panel goes on showing the state before a write that the client was   *)
(* told succeeded.                                                         *)
THEOREM SuccessesReload == Spec => []ReadsItsWrites
<1>1. IInv => ReadsItsWrites
  BY DEF IInv, CoversAll, Covers, ReadsItsWrites, AtRest, AtLeast
<1> QED
  BY <1>1, ReviewClientInvariant, PTL

(* An open drawer never goes back to an older version or a shorter         *)
(* history, in whatever order its answers come in.                         *)
THEOREM DrawerGoesForward == Spec => DrawerNeverGoesBack
<1> DEFINE Back(q) ==
      drawer /\ drawer' /\ cache[q].loaded =>
        Number(q, cache[q].data) <= Number(q, cache'[q].data)
<1>1. ASSUME IInv, [Next]_vars, NEW q \in DrawerQueries
      PROVE  Back(q)
  <2> SUFFICES ASSUME drawer, drawer', cache[q].loaded
               PROVE  Number(q, cache[q].data) <= Number(q, cache'[q].data)
    OBVIOUS
  <2>1. q \in Queries /\ q # "evidence" /\ q # "queue" /\ cache \in [Queries -> Query]
    BY <1>1 DEF DrawerQueries, Queries, IInv, TypeOK
  <2>2. Forward(q, cache[q], row) /\ Number(q, cache[q].data) \in Nat
    BY <1>1, <2>1, NumberIsNat DEF IInv, ForwardAll, Forward
  <2>3. Mounted(q)
    <3>1. cache[q] # Empty
      BY DEF Empty
    <3> QED
      BY <1>1, <2>1, <3>1 DEF IInv, UnfollowedEmpty, Mounted
  <2>4. CASE cache'[q].data = cache[q].data
    BY <2>2, <2>4
  <2>5. Asked(cache[q]).data = cache[q].data
    BY <2>1 DEF Asked, Query
  <2>6. CASE Quiet
    BY <2>4, <2>6 DEF Quiet
  <2>7. CASE OpenDrawer \/ CloseDrawer \/ ChangeFilters \/ Reconnect
    BY <2>1, <2>4, <2>5, <2>7 DEF OpenDrawer, CloseDrawer, ChangeFilters, Reconnect, Mount
  <2>8. ASSUME NEW w \in Writes,
               ReviewSucceeds(w) \/ UpdateSucceeds(w) \/ ExtractSucceeds(w) \/ Conflict(w)
        PROVE  cache'[q] \in {cache[q], Asked(cache[q])}
    BY <2>1, <2>8, Reloads DEF ReviewSucceeds, UpdateSucceeds, ExtractSucceeds, Conflict, Invalidate
  <2>9. ASSUME NEW p \in Queries, AnswerQuery(p) \/ Receive(p) \/ FailQuery(p) \/ Collect(p)
        PROVE  Number(q, cache[q].data) <= Number(q, cache'[q].data)
    <3>1. CASE p # q
      BY <2>1, <2>4, <2>9, <3>1 DEF AnswerQuery, Receive, FailQuery, Collect
    <3>2. CASE AnswerQuery(q) \/ FailQuery(q)
      BY <2>1, <2>4, <3>2 DEF AnswerQuery, FailQuery, Query
    <3>3. CASE Receive(q)
      BY <2>1, <2>2, <3>3 DEF Receive, Forward, Empty
    <3>4. CASE Collect(q)
      BY <2>3, <3>4 DEF Collect
    <3> QED
      BY <2>9, <3>1, <3>2, <3>3, <3>4
  <2> QED
    BY <1>1, <2>4, <2>5, <2>6, <2>7, <2>8, <2>9, Steps
<1>2. IInv /\ [Next]_vars => [\A q \in DrawerQueries : Back(q)]_vars
  BY <1>1
<1> QED
  BY <1>2, ReviewClientInvariant, PTL DEF Spec, DrawerNeverGoesBack

=============================================================================
