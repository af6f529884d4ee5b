# Verification of ATIP

TLA+ specifications, model-checking runs and machine-checked proofs for the
Automotive Technical Intelligence Platform: a FastAPI service over PostgreSQL,
Qdrant, Redis and a file store, with a worker process (arq) and a Next.js
client. Paths below are relative to the repository; `api/` abbreviates
`apps/api/src/atip_api/` and `web/` abbreviates `apps/web/src/`.

## 1. Inventory

| Part | State it keeps | Operations | Talks to |
|---|---|---|---|
| Evidence review and extraction (`api/services/evidence.py`, `repositories/evidence.py`) | `evidence_items` (versioned), `evidence_review_events` (append-only trail), one advisory lock per document | `extract`, `review`, `update_item`; read-only list, queue, history, export | PostgreSQL, the language model, chunk rows |
| Ingestion (`api/processing/pipeline.py`, `worker.py`, `queue.py`, `services/documents.py`, `cli.py`) | `documents.status`, `processing_jobs`, `chunks`, arq jobs in Redis, files | `upload`, `process_document`, `mark_job_failed`, `reconcile_stale_job`, `backfill_chunks` | PostgreSQL, Redis, Qdrant, embeddings |
| Chunk index (`api/processing/pipeline.py` `_index_chunks`, `vectorstore.py`) | chunk rows with `embedded_at`, points in Qdrant | replace, embed, upsert, delete | Qdrant is not part of the database transaction |
| Retrieval (`api/services/retrieval.py`, `ai/rerank.py`) | none | hybrid search, fusion, rerank | PostgreSQL, Qdrant, reranker |
| Answers (`api/services/rag.py`, `verification.py`) | per request: text held back, markers, citations | `ask`, `stream_events`, `verify_answer` | retrieval, language model, the client by server-sent events |
| Chunking (`api/processing/chunking.py`) | none | `chunk_pages` | pure |
| Rate limiting (`api/ratelimit.py`) | hits per key, in the process | `check` | every expensive router |
| Principal and tenancy (`api/auth.py`) | users, organizations | first-request bootstrap, workspace authorization; there is no log-in | PostgreSQL |
| Workspaces (`api/services/workspaces.py`) | `workspaces` | create, rename, delete (cascades) | PostgreSQL only: files and vectors stay |
| Web client: data and review (`web/lib`, `web/components`) | one open answer stream, jobs watched, query cache | ask, watch job, review | the API |
| Web client: pages (`command-palette.tsx`, `grounded-typewriter.tsx`, `dashboard-view.tsx`, `workspace-detail.tsx`, `workspace-dialogs.tsx`, `evidence-viewer-panel.tsx`, `pdf-viewer.tsx`) | location, tabs, typed questions, open dialogs, the citation on display | search, ask from anywhere, create, rename and delete workspaces, open a citation | the query cache, the router, the PDF library |
| Health, observability, deployment | none that others read | probes, metrics, scripts | everything |

What is hard in this system is not any single handler. It is that

* handlers are transactions at READ COMMITTED that read, wait and then write,
  with other requests in between (evidence review, extraction, reconciliation);
* work is handed to a queue that may deliver it not at all, twice, or again
  after a crash, while a polling client declares it dead (ingestion);
* PostgreSQL, Qdrant and the file store are written one after the other, and
  only the first one rolls back (chunk index);
* a decision about a text is made while the text is still being streamed
  (answers);
* a client shows what it fetched before a write, an announcement or a refusal
  came in, and several of its requests create the account they all need
  (web client, principal);
* a question travels from the palette, the ask bar or a link to a page that is
  not there yet, while lists change and pages fail (navigation).

What makes each part correct:

* **Evidence**: the trail explains the row; nobody overwrites what he has not
  read; a reviewed item is archived, never destroyed; extractions of one
  document do not mix; the document is never locked for good; an item
  rests on quotes of the document and is there once; an export does not show
  what its own history does not explain.
* **Ingestion**: a document offered to search is completely indexed; job and
  document settle together; every upload reaches READY or FAILED from the
  point of view of the client.
* **Chunk index**: a READY document's vectors are those of its rows, or a later
  run repairs it.
* **Answers**: nothing of a refused answer reaches the reader; every marker
  left in a verified answer has a citation whose quote is in the source.
* **Rate limiting**: no key passes more than its limit in a window, and no key
  is refused for ever.
* **Principal**: however the first requests overlap, all that get through run
  as the one admin of the one organization.
* **Web client**: what it shows at rest is not older than what it has been told;
  the table and the watchers of uploads come to rest with the server; a question
  that was sent to a page arrives there as it was typed; a citation shows its
  page, and its quote is marked wherever enough of it stands on a line.

## 2. Modules

| Module | Models | Written as |
|---|---|---|
| `EvidenceReview` | the three writing endpoints of the evidence of one document | transactions cut at each wait, locks explicit |
| `ReviewWorkflow` | what those endpoints promise: each request one atomic step | abstract specification |
| `EvidenceReviewProofs` | theorems about `EvidenceReview` | TLAPS |
| `MCEvidenceReview` | finite instances | MC module |
| `EvidenceExport` (extends `EvidenceReview`), `MCEvidenceExport` | exports and the detail of an item, which read rows and events one after the other | reads beside the writers |
| `Extraction` | what an extraction keeps of the model's replies (`verify_batch`, the batches, the final save) | operators and one extraction |
| `Ingestion` | one document from upload to READY or FAILED | runs of `process_document` cut at each commit |
| `OrderlyIngestion` (extends `Ingestion`) | the same with a record of whether deliveries were orderly | history variable and what it promises |
| `IngestionProofs` | theorems about `Ingestion` and `OrderlyIngestion` | TLAPS |
| `MCIngestion`, `MCIngestionOrderly` | finite instances of the two | MC modules |
| `Chunking` | `chunk_pages`, turn by turn of its loop | operators |
| `ChunkIndex` (extends `Chunking`) | chunk rows and vectors of one document, over runs, releases and roll-backs | `_index_chunks` cut at each wait |
| `ChunkIndexProofs` | theorems about `Chunking` and `ChunkIndex` | TLAPS |
| `MCChunkIndex` | finite instances | MC module |
| `RateLimiter`, `Retrieval`, `Verification` | the pure parts of a question: `check`; fusion, gate and rerank; `parse_llm_output` and `verify_answer` | operators |
| `Listings` | lists without some elements, sets in an order: what `Retrieval` and `Verification` share | operators |
| `Answers` (extends those three) | one question from the chat panel to its verified answer | request, events and panel |
| `AnswersProofs` | theorems about `Answers` and `Extraction` | TLAPS |
| `MCAnswers` | finite instances of `Answers` and of `Extraction`, in a behaviour either one or the other | MC module |
| `Accounts` | the principal of a request, and the first requests that create it | one transaction per request |
| `AccountsProofs` | theorems about `Accounts` and `DocumentsClient` | TLAPS |
| `DocumentsClient` (extends `Accounts`) | the documents of a workspace in the web client: table, upload, job watchers | server, cache and pages |
| `MCDocumentsClient` | a finite instance | MC module |
| `ReviewClient` | the Evidence Map, the Review Queue, the review drawer and the query cache they read | cache, user, server and answers |
| `ReviewClientProofs` | theorems about `ReviewClient` | TLAPS |
| `Workspaces` | the list of workspaces and one workspace's page in the query cache, with the dialogs and the endpoints behind them | cache, user, server and answers |
| `Navigation` | command palette, ask bar, links, and the tabs and question of a workspace's page | pages and router |
| `QuoteHighlight` | how a quote is found in the text layer of a page | operators and their reference |
| `EvidenceViewer` (extends `QuoteHighlight`) | the viewer of citations | panel, file and page |
| `WebClientProofs` | theorems about `Workspaces`, `Navigation` and `EvidenceViewer` | TLAPS |
| `MCWebClient` | finite instances of `ReviewClient`, `Workspaces`, `Navigation` and `EvidenceViewer`, in a behaviour one of them | MC module |
| `NaturalFacts` | what the proofs share about numbers: a smallest one exists, what is closed under the next is all, a fold along them exists | TLAPS |

Operators and actions marked "Fault" are deviations a bug could bring in; no
specification uses them. They name, property by property, the mistake that the
property would find.

### EvidenceReview

A review request (`review` or `update_item`) is `LoadItem` (the SELECT and the
checks made on the row), one of `FlushUpdate` / `FlushEvent` (the flush inside
`add_event`, which sends the versioned UPDATE and the event INSERT and takes
the row lock), and `CommitReview`. `LoseRace` is the UPDATE that matches no
row, `LoseItem` the foreign key that fails, `CommitNothing` a PATCH that
changes nothing, `RefuseRequest` every 404 and 409. The session writes whole
rows on the model's side, but an UPDATE only changes what the handler assigned:
`Edited` starts from the loaded row, and the version check makes that the row
in the table (this is what `NoLostUpdate` states).

An extraction is `BeginExtraction` (READY document, try-lock), the model calls
(`GenerationFails` when they do), `SelectReviewed` (the read of
`list_reviewed_live_by_document`), one `ArchiveItem` per selected item,
`SelectUnreviewed` (the snapshot of the DELETE statement), one `DeleteItem` per
row that statement visits, and `CommitExtraction` with the inserts.

PostgreSQL is external and modelled by the three rules the code relies on: an
UPDATE or DELETE waits for the uncommitted writer of its row; an uncommitted
event holds a key-share lock on its item; a DELETE that waited re-evaluates its
condition on the row, not its sub-select. A transaction that ends, for whatever
reason, gives its locks back (`End`), including the advisory transaction lock.

The two flushes of a PATCH that changes both ratings are one step: after the
first the request holds the row lock, so no other writer of the item can come
between them, and a crash between them rolls both back.

### EvidenceExport and Extraction

`export` and `detail` are the endpoints that return items with their history.
Each selects rows, then events, in two statements of a transaction that is READ
COMMITTED and takes no lock, so any of `EvidenceReview`'s steps may come in
between; `Respond` is the second statement with the response. The other lists
return rows of one statement and are not followed.

`Extraction` is what happens before `EvidenceReview`'s extraction has something
to save. Chunks go to the model in batches of `_BATCH_SIZE`, sources are
numbered anew in each (`Holds`), and `found` carries items and keys seen from
one batch to the next, as the code's variables do. A requirement is its text
with a key (`KeyOf`: white space collapsed, case folded), a quote is supported
by a chunk or not. A reply that cannot be read is passed over, a failing model
ends the extraction. The two modules are separate because an extraction's
replies and the locks of its transaction do not know of each other: nothing is
written before the last reply, and `EvidenceReview` takes any number of new
items.

### Ingestion

One document, because ingestion of different documents shares nothing but the
queue. A run of `process_document` moves from commit to commit: load document,
load job, commit PROCESSING, extract and commit the stage, list chunks, flush
chunks, commit READY. What a run loaded it keeps (`expire_on_commit=False`), so
`seen_document` and `seen_job` decide which columns a commit sends. Faults are
a constant, so a run of TLC can say which of them it allows: a crash of the
process, arq's `job_timeout`, a failing commit, deletion of the workspace, and
a stall past `job_stale_after_seconds`. How a run fails inside its `try` depends
on where it is: before the text is extracted no transaction is open and the
objects survive the rollback (`ExtractionFails`); the commit of the stage, which
only a file that parses reaches (`StageFails`), and the statements of
`_index_chunks` after it (`IndexingFails`) leave them expired.

The queue is modelled from how `queue.py` and `worker.py` use arq: a job whose
task raises `Retry` is queued again, one whose worker dies is run again until
`max_tries`, one that raises anything else or times out is finished.

### Chunking and ChunkIndex

`Chunking` reads a text line by line as `chunk_pages` does: a heading may close
the open chunk (`ReadHeading`), a line that does not fit may (`MakeRoom`), the
line joins the open chunk or opens one (`Open`, `Add`), and a chunk that has
grown enough is closed. Of a line the model keeps its page, its size and the
clause it starts; of the text of a chunk, the interval of lines it joins.

`ChunkIndex` runs that loop inside `_index_chunks`. Rows are written in a
transaction (`pending`, visible at `Finish`), vectors at once (`points`), and
the release that is deployed decides which limits a new run uses. The order of
the steps is the code's: rows are flushed (`ReplaceChunks`), vectors of removed
rows deleted (`DeleteVectors`), missing vectors upserted (`Embed`, or
`EmbedNothing` when there is nothing to do or the service fails), the mark
flushed (`MarkEmbedded`), and all of it committed. A run may fail or die
anywhere. `orphaned` is a history variable: ids whose vector a run deleted and
then did not commit, or that another run had just upserted and was about to
mark (`Unmarked`).

### Answers

`Submit` to `ReceiveFinal` is one exchange of the chat panel, or one call of
`/ask` in the mode of that name, which has neither tokens nor sources before
its response. The limiter's deque is kept as ages (`hits`), so time can pass
without a clock that grows. Retrieval is cut where the code waits: keyword
search, vector search, fetch of the candidates. Completions arrive in deltas of
any length (`ReadDelta`); `raw`, `emitted` and `answer_done` are the code's
variables. `wire` holds the events sent and not yet delivered.

A sort is written as what it returns: the elements each behind those that
precede it (`InOrder`), with the sort's key as the relation (`Better` by fused
score and id, `RerankOrder` by the reply's rank and the order there was). Scores
are fractions, so equal ones are equal. A leg names a chunk once, because its
rows and points are.

A completion is a sequence of symbols; the sentinel is a sequence of several of
them, so that a delta can end inside it and a text before it can end like it
begins. Markers are one symbol each. A claims block arrives well formed or not
at all, and of a citation only its source and whether its quote is found there
matter.

The panel shows one exchange at a time and refuses a second question while it
streams (`chat-panel.tsx:131`); settled exchanges above it do not change, which
is what `SettledIsFinal` says of the last of them. A request nobody listens to
is forgotten by the model at once: it has no effect but the hit it was counted
for.

What the reader sees of a result is part of the model too: the badge, the
text as cut by `AnswerText` into prose and links, and the cards
(`CitationCard`) the links open. A marker without a citation would stay prose,
which is what `AnswersAreSupported` rules out.

### Accounts and DocumentsClient

Every request begins in `ensure_default_admin`: it selects the default admin
(`FindUser`), and if there is none the organization (`FindOrganization`),
inserts what is missing (`AddOrganization`, `AddUser`) and commits both
together. PostgreSQL is external: an INSERT waits for an uncommitted row of the
same unique name and fails once that has committed, which rolls the request
back and answers 500 (`request` is `"refused"`). The migration, or the
`create-user` command, may have left an organization before the first request.

`DocumentsClient` is the page behind these requests. A query of the cache is
idle, asked or answered; asking it is a request of `Accounts`, and only a
request that is authorized reads the server. A query that fails is asked once
more (`providers.tsx:13`). Of a document and its job the client treats PENDING
and PROCESSING alike, and READY and FAILED, so they are one status, `active` or
`settled`; `Ingestion` has the difference. A watcher polls its job until it
settles, says so and invalidates the documents of *the page it is on*
(`Announce`). What is watched belongs to the client, not to a workspace, so any
workspace's page watches all of it; the dashboard watches nothing, and a
reload forgets it. `Reconcile`
is a poll of the job that finds it stale and settles it. `announced` is a
history variable.

### ReviewClient

One item, seen through four queries: the map's page (`evidence`), the queue's
(`queue`), and the item and its history in the drawer. Equal versions are equal
rows (part of the invariant `EvidenceReviewProofs` proves), so the row is a
phase, a version and a number of events, and other clients, extractions and the
deletion of the workspace are one action (`Others`) that changes it within what
the endpoints allow. A fetch is asked, answered and received, a write sent,
committed or refused, answered and received, each in a step of its own.

TanStack Query is external and modelled by what the panels rely on: a query
that mounts is fetched; `invalidateQueries` fetches the mounted ones again,
giving up a fetch under way if there is data to show, and joining it if there
is none; a failed fetch leaves the data; `setQueryData` leaves a fetch alone; a
reconnection fetches what is mounted. The map and the queue stay mounted
(`workspace-detail.tsx:144`), the drawer's queries are while it is open, and
the drawer leaves the panels behind it in reach of the keyboard, so all of them
can write.

The selects of the map (`Update`) have no busy state, the drawer's buttons
(`Review`) are disabled by the write it waits for; a drawer that is closed and
opened again knows nothing of it. `own` and `won` are history variables: what
the client was told of its own writes, and of the writes it lost to.

### Workspaces

One workspace, from its creation by anybody to its deletion, in two queries of
the cache: `["workspaces"]`, which the dashboard's grid and the open palette
observe, and `["workspaces", id]` of its page. Both are invalidated by the
prefix they share, whatever page is on display when a mutation is answered
(`InvalidateWorkspaces`). The cache is external and modelled as for
`ReviewClient`. A dialog belongs to a card or to the header of the dashboard;
when its component unmounts, the mutation goes on and is answered all the same
(`KeepComponents`, `mounted`), but closes nothing.

A mutation is sent, committed and answered in three steps, and any of the
three may be lost (`Fail` after `CommitRequest` is an answer that did not
arrive). `Submit` only sends names the form lets through. Several clients at
once are `OtherClients`. `owed` is a history variable: the queries that must
show the server's state since the client said "created", "renamed" or
"deleted". It leaves out two cases in which the client does not keep its word:
a first load that is under way is joined, not fetched again, and so is a fetch
that was under way when the page of its query was left (section 5).

### Navigation

A navigation is pushed (`Push`) and shown later (`ShowRoute`); the one pushed
last counts. The palette's rows (`Items`) are computed from the query and the
list as they are, so they change under an open palette; `active` is the row
that is highlighted. A workspace's page takes tab and question from its
location when it mounts and keeps its own afterwards, which is what
`ShowPage` says, and loses them with its panels when its query fails
(`WorkspaceFails`). `carried` is a history variable: a question on its way to
another page, until it is asked or changed there. Text is abstracted to which
questions there are and which names match them.

### QuoteHighlight and EvidenceViewer

The target of the viewer is global to the client, the panel that shows it
belongs to a workspace's page, and the viewer in the panel to one document,
page and quote (its React key, `SameViewer`). `onLoadSuccess` comes at any time
after it was mounted, and page numbers beyond the file are cut at that moment.

`QuoteHighlight` is `normalize`, `edgeOverlap`, `itemMatchesQuote` and
`highlightQuote` over sequences of characters in lower case. The reference it
is checked against knows what the code does not: where in the page the quote is
(`PlaceOf`), and so how much of it each line holds (`Evident`, `Shares`).
`MinOverlap` and `MinItem` are the code's 12 and 4. White space is one character
(`Space`), and what reads a text or a page character by character or line by
line is a recursive function.

## 3. Runs

Sizes are on small instances; why each is enough is said with it.

| Run | Shows |
|---|---|
| `EvidenceReview_reviews` | two concurrent requests, every kind of request and two extractions on one item: `AuditTrailReplays`, `RatingsReplay`, `NoLostUpdate`; and an export between them: `ExportIsExplained` |
| `EvidenceReview_extraction` | two items, two competing extractions and a reviewer: `UntouchedItemsAreCurrent`, `ImplementsWorkflow`, `ExtractionLockReleased` |
| `EvidenceReview_stale_race` | counterexample to `LostRaceIsConflict` |
| `EvidenceReview_history_lost` | counterexample to `HistoryIsKept` |
| `Ingestion_overlap` | two runs and two jobs under every fault: `ReadyIsIndexed` |
| `Ingestion_liveness` | with a polling client every upload settles (`JobsSettle`); and while the only job is delivered once and not stale, job and document agree between any two commits (`JobMirrorsDocument`) |
| `Ingestion_hanging` | counterexample to `NeverLeftHanging`: a statement of `_index_chunks` fails, and no other fault is needed |
| `ChunkIndex_releases` | every text of three lines, two runs around deployments and roll-backs, all failures: `ChunksCoverText`, `ChunksAreWellFormed`, `RowsAreOneChunking`, `EmbeddedHasPoint`, `OutagesAreRepaired` |
| `ChunkIndex_rollback` | counterexample to `VectorsOutliveRollback` |
| `Answers` | the limiter (`LimitIsHonest`), the sources (`RankingRespectsLegs`), the draft (`ClaimsNeverShown`, `DraftIsPrefix`), the answer (`AnswersAreSupported`, `EvidenceIsBest`, `VerifiedMeansAll`) and the panel (`SettledIsFinal`, `AnswersSettle`); what an extraction keeps (`ItemsAreQuoted`) and saves (`SavesEachOnce`) |
| `DocumentsClient` | who the first requests run as (`OnePrincipal`), that they show no error (`FirstPageLoads`), what is on display after an announcement (`AnnouncedIsShown`), and that table and watchers come to rest (`TableSettles`, `WatchersFinish`) |
| `WebClient` | what the review panels show after a refusal (`ShowsWhatWon`) and after a success (`ReadsItsWrites`), and that the drawer only goes forward (`DrawerNeverGoesBack`); what the dashboard, the palette and the page show after a workspace was created, renamed or deleted (`SaidIsShown`); that questions reach the page they were sent to (`QuestionsArrive`) and Enter asks what was typed (`EnterAsksWhatWasTyped`); that the viewer has the page of its citation (`ViewerShowsEvidence`) and marks its quote (`QuoteIsMarked`) |

Bounds. `MaxSeq` bounds how many events may be written, `MaxExtractions` how
many extractions commit: three events and two extractions let an item be
reviewed, archived and edited after that, and let a second extraction meet what
the first left. The trail of an item depends on that item's row and events
only, so one item and two requests show every interleaving of two transactions
on one row; the order between items matters only to extraction, which has two
items in its own run. `Submitted` restricts the bodies clients send: the review
run keeps one way through the state machine and back and each kind of edit, the
extraction run keeps what makes an item reviewed (decision, remark, inline
edit). The other bodies take the same branches of the handlers with another
constant. An export begins while at most one
event is written (`MaxExportSeq` = 2) and the others go on to `MaxSeq`: it can
begin before, between and after the writes of two requests and an extraction.
One export at a time is enough, because it writes nothing.
`MaxTries` is the code's own value (3) where retries are the
question, 2 where the overlap of runs is. Two runs are enough for overlap: a
run interferes with another only through the rows and the flushed chunk ids,
and a third finds the same states. The counterexamples of the runs that expect
one are up to eighteen steps long.

Texts of three lines of one or four tokens meet limits of 2, 3 and 4 tokens
(then 1, 2 and 3) from every side: a line that alone exceeds the maximum, a
chunk just below the minimum, one exactly at it, a short last chunk; clauses
are absent, parent and child. Two runs and `MaxRuns` = 2 let a run of each
release overlap, and the rows the document starts with stand for the runs that
came before. There are two releases because `RowsAreOneChunking` is a promise
about two: with three, overlapping runs can leave a mixture (section 5), and
the theorem says exactly which overlap it excludes. In `Answers` three chunks of two documents, `TopK` = 2 and a pool
of three give rankings with chunks of one leg, of both and of a document that
leaves READY; texts of up to two symbols before a sentinel of three put every
prefix of the sentinel next to it, and deltas cut the completion everywhere.
Claims blocks have up to two claims on two sources, which is what the order of
evidence needs. The window is three ticks, a second two of them, so that a hit
can be half a second old; the limit is two. An extraction has three chunks in
batches of two, so that the same source number is another chunk in the second
batch, and replies of up to two requirements: one key in two spellings or a
blank one, with quotes that hold in both batches, in one or in none, twice, or
of a source there is not.

`DocumentsClient` has one upload, since watchers and documents do not wait for
each other, the two queries it needs and one request more (`Others`) that races
them for the account; nobody uploads before that other request is over (once
the account is known, requests of others no longer matter to an upload). Two
attempts of a run let a document begin again after it was settled; one lost
request or answer (`MaxFaults`) meets every request.

In `WebClient`, `ReviewClient` is run once for each of the four queries (`Followings`): a query
reads the row and what happens to writes, and no other query, so its behaviours
are all there when it is followed alone; of the queries that are not followed
any earlier version may be on display, which allows more writes than the client
can send. Two writes overlap in every order, with each other and with `Others`;
versions up to 3 and two events let an answer be two versions old, and an item
be reviewed and archived after that. The proofs need no such bound.

The four parts of `WebClient` share no state their properties are about, so a
behaviour of the run moves one of them (`part`) and leaves the others where
they begin; what they do share, the list of workspaces, is any sequence at any
time in `Navigation`. `Workspaces` has one mutation of this client at a time:
a second one does to the queries what the mutations of others and a second
fetch do, and `WebClientProofs` has any number. Two names let a rename be told
from none. In `Navigation` two workspaces and `MaxShown` = 1 give lists that
are empty, of one (the ask bar asks) and longer than what is shown; one
question matches nothing and one matches workspaces and a command, so rows
appear above and vanish under the highlight. The viewer's targets are on pages
the file has, does not have, and on none; files of two and three pages differ
in what is beyond them. For quotes the thresholds are scaled to 3 and 2, and
pages are every two of nine lines of up to four characters, with blanks inside,
at either end and alone: shorter than, equal to and longer than both thresholds.
Quotes are every stretch of such a page from two characters on, so they begin
and end inside lines, at their ends and at blanks, and run over a break.

Deadlock checking is off: a finished document, an idle client and a used-up
bound are states in which nothing has to happen.

Fairness. A handler that has started goes on (awaits return, PostgreSQL hands
over a lock when its holder ends), so the steps of a request are weakly fair;
starting a request is never owed, and neither is a crash. In `Ingestion` the
client's poll and the passing of time are fair, and a worker's run comes to an
end because `job_timeout` is enforced by arq; that a worker ever takes a job is
not assumed, nor that a background task of the API makes progress. In
`DocumentsClient` a request under way ends and a query that is owed a poll makes
it; the poll of a stale job is strongly fair, because polls go on for ever and
a job that stays active is old enough at some of them; a watcher that knows of
the end says so. Nothing is owed by users, and nothing by workers. In
`Answers` the server's steps are fair, because every call it waits for has a
time-out and a completion is finite, and so is the delivery of events that have
arrived; nothing else is owed, and in particular the connection may be lost at
any time. `ChunkIndex` states no liveness: that a run is started again is
`Ingestion`'s business; neither do the modules of `WebClient`, whose user may do
nothing and whose requests may fail for ever.

## 4. Proofs

`EvidenceReviewProofs` proves for any set of items, requests, ratings and
statuses, and any bounds:

* `TypeCorrect`: `Spec => []TypeOK`;
* `AuditInvariant`: the inductive invariant holds;
* `AuditTrailCorrect`: `Spec => []AuditTrailReplays`;
* `UpdatesNotLost`: `Spec => []NoLostUpdate`;
* `HistoryInvariant`: a second inductive invariant, on top of the first;
* `RatingsReplayed`: `Spec => []RatingsReplay`;
* `NoStaleItems`: `Spec => []UntouchedItemsAreCurrent`;
* `ReviewIsWorkflow`: `Spec => ImplementsWorkflow`, the refinement;
* `ExportInvariant`, `ExportsExplained`: `ExportSpec => ExportIsExplained`.

The trail is not inductive alone: that the event a commit adds extends the
path needs that its previous status is still the row's (version check plus row
lock), that its number is higher than every number already committed *for a
deciding event of that item* (numbers are drawn at the flush and become visible
in another order), that an archived event changes nothing, and that an id's
events go when its row goes. The named parts of the invariant say exactly that:
who may hold a lock on an item, that loaded and snapshot rows are at most as
recent as the table, that an equal version means an equal row, that staged
events are of the item the request locked and numbered below `next_seq`, and
that events belong to stored items. The assumptions used are the ones the
module states: reviewers and extractors are different requests, the bounds are
numbers, submitted bodies are bodies.

`HistoryInvariant` is about ratings and extractions. A rating is explained by
the latest event that changes it (`Latest`), so what has to be known of a
staged event is that its number is above those of all committed events of its
item that tell something (`TellingLast`) and that its "previous" is the row's;
archiving happens once (`ArchivesOnce`); and between the snapshots of an
extraction (`SelectReviewed`, then the DELETE's own) an untouched item is in
the second (`Deletions`), so one that is left over afterwards was touched.
That the advisory lock lets one extraction in at a time (`OneExtraction`) is
needed, because two would each keep the other's items.

The refinement maps an extraction that has not committed, and a request whose
UPDATE is not committed, to nothing; `CommitReview` and `CommitExtraction` are
the abstract operations, every other step is a stutter. What makes a commit an
abstract step is `UpdatesNotLost`: the row it overwrites is the row it read.

An export is explained by a cut: there is a number s such that what it selected
is what the events below s tell, and everything telling that commits later is
at or above s (`CutAt`). The cut is the next number at the moment of the SELECT
unless an uncommitted event holds a lower one; then it is that event's.

`ChunkIndexProofs` proves, for any texts, limits, releases and runs:

* `ChunksCover`: `Spec => []ChunksCoverText`;
* `ChunksFollowRules`: `Spec => []ChunksAreWellFormed`;
* `IndexInvariant`: the inductive invariant of the transactions;
* `MarksMeanVectors`: `Spec => []EmbeddedHasPoint`;
* `RepairsComplete`: `Spec => OutagesAreRepaired`;
* `RowsStayWhole`: `FewOverlap` gives `Spec => []RowsAreOneChunking`.

`ChunksCoverText` is nearly inductive: what it needs beside it is the type of
the loop's variables, and of these the one that takes an argument is that the
parent chosen for a clause exists (`ParentType`: of finitely many printed
ancestors one is the longest). The proof goes along the loop, one lemma per
step of it. `ChunksAreWellFormed` speaks of sums over lines, and the chunking a
run ends with of the recursive `chunk_pages`. That such a function satisfies
its own equation at every number is shown by the smallest number at which it
does not (`SmallestExists` in `NaturalFacts`); after that the invariant
(`Reads`) says of the loop at a line what its chunks so far add up to and which
clause is in force.

The index needs what a transaction has written to be a function of what the run
listed and drafted (`TransactionsFollow`), that no two hold an id or an index
together (`HeldApart`), and of points that they are there from the upsert until
the mark (`UpsertedIsThere`) and after the commit (`MarkedIsThere`), but for
those in `orphaned`. `FewOverlap` is: at most two releases, or one execution at
a time. It is needed (section 5): a run locks the rows it changes and not those
it keeps. With two releases a run either keeps all rows or replaces rows whose
deletion and insertion it holds, so a commit in between makes its flush fail;
this is `ReplacesWhatIsThere`.

`AnswersProofs` proves, for any sentinel, alphabet, set of completions and of
claims blocks, ranking, window, limit and unit of Retry-After:

* `StreamInvariant`: the inductive invariant of the text held back;
* `ClaimsStayHidden`: `Spec => []ClaimsNeverShown`;
* `SettledStays`: `Spec => SettledIsFinal`;
* `AnswerInvariant`: the inductive invariant of what is on its way;
* `DraftsArePrefixes`: `Spec => []DraftIsPrefix`;
* `AnswersSupported`: `Spec => []AnswersAreSupported`;
* `EvidenceIsTheBest`: `Spec => []EvidenceIsBest`;
* `VerifiedIsAll`: `Spec => []VerifiedMeansAll`;
* `LimiterInvariant`: the inductive invariant of the limiter;
* `LimitsAreHonest`: `Spec => []LimitIsHonest`;
* `SearchInvariant`: the inductive invariant of the retrieval;
* `RankingsRespectLegs`: `Spec => []RankingRespectsLegs`;

and, for any document, size of a batch, key and set of replies:

* `ExtractionInvariant`: the inductive invariant of an extraction;
* `ItemsHaveQuotes`: `ExtractionSpec => []ItemsAreQuoted`;
* `EachIsSavedOnce`: `ExtractionSpec => SavesEachOnce`.

That nothing sent reaches into a sentinel is not inductive, because the next
delta may complete a sentinel that begins anywhere. It is with two facts more:
as long as none was seen the text has none, and a tail one symbol shorter than
a sentinel was held back. A sentinel the delta completes ends in the delta, so
it begins in that tail; after the first one was seen nothing more is sent, and
a later one lies behind it. The assumption used is that the sentinel and the
completions are sequences over one alphabet and the sentinel is not empty. That
a settled exchange stays needs that the panel listens to a streaming exchange
only.

What the panel has is a matter of what is on its way to it. The second
invariant says that nothing is sent before the sources are ranked
(`QuietAtFirst`), that the event with the sources comes first (`SourcesFirst`),
that draft and tokens under way are the text sent (`DraftSoFar`), and that a
final event, sent or shown, carries `verify_answer` of this text on these
sources, or the answer that there are none (`AnswersExplained`). The rest is
about that function: `Backed` says what it promises for any text and any block,
however they contradict each other, and the three properties of the answer
follow with what the panel makes of a result (`ShownIs`). The loop over all
claims is followed citation by citation (`BestOf`): what is known of a source
after k of them is nothing, that it is cited, or the first of the k that holds.
The assumption on a block is that its claims are lists of citations with a
number each.

Of the limiter's ages, oldest first, the loop pops a prefix and leaves live ones
(`Expired`). Popping earlier makes no difference to what is live later
(`LiveLater`), so the deque and the log of admitted requests agree at every
later moment although requests are refused, and pop, in between. A wait rounded
up to whole seconds ends when the oldest live hit has left the window, one
second less does not (`RoundedUp`).

Of the candidates the invariant says that each is better than those behind it
(`Sorted`) in the order of the two legs they were fetched for. Four facts about
the operators carry it. Fractions compared by cross products are ordered
transitively, and ids decide between equal ones, so `Better` is total
(`BetterOrders`). In a finite set that a relation orders, as many elements
precede an element as its place says, no two elements have the same place, and
so each place is taken (`InOrderIs`). Cutting the list or dropping what is not
READY keeps what is left in its order (`WithoutOrder`). And a sum of two
fractions is greater if one is and the other is no less (`SumExceeds`), which is
what a better rank in one leg means. Assumed is that ids are numbers, legs are
of chunks, replies are of numbers, and `RRF_K` and `top_k` are not zero.

Of an extraction the invariant says that the keys seen are those of the items
found, one item each, every item with its quotes (`Collected`), and that a
requirement proposed with evidence has its item (`HasItem`); that it holds
through a reply is shown requirement by requirement (`AcceptCollects`), that of
a requirement one citation is kept when one holds by the first that does. The
assumption on a reply is its schema (`evidence.py:110`): a number and a text.

These loops are recursive functions in the models. For each the proofs show
that one with values of the right type exists (`FoldExists` in `NaturalFacts`)
and that it is the one the model names (`ClosedIsAll`).

`ReviewClientProofs` proves, for any number of writes, versions and events and
whichever queries are followed together:

* `ReviewClientTypes`: `Spec => []TypeOK`;
* `RefusalsReload`: `Spec => []ShowsWhatWon`;
* `SuccessesReload`: `Spec => []ReadsItsWrites`;
* `DrawerGoesForward`: `Spec => DrawerNeverGoesBack`.

What a panel shows when it has loaded is a matter of what it is loading. The
inductive invariant says of a query that was told a number (`Covers`) that
either it shows that number, or an answer at least as new is on its way, or it
is still to be read by the server, where the row is at least as new; and that
only a mounted query with data is told anything. Reloading is what makes this
true again when a number is told: it gives up an answer that may be older. Of
the drawer's queries (`Forward`) it says that data, answer and row follow each
other, which needs that no inline edit writes into these queries. Nothing is
assumed of the constants.

`AccountsProofs` proves, for any set of requests, documents and faults:

* `ClientKeepsToAccounts`: `Spec => AccountSpec`, every step of the page is a
  step of the account protocol or leaves it alone;
* `PrincipalIsOne`: `Spec => []OnePrincipal`;
* `RefusalMeansKnown`: `Spec => []RefusedOnce`, a refused request leaves the
  admin behind for its next attempt, which therefore cannot be refused again;
* `ClientInvariant`: the inductive invariant of the page's queries and polls;
* `OneRetryIsEnough`: `Spec => []FirstPageLoads`;
* `AnnouncementsAreShown`: `Spec => []AnnouncedIsShown`.

The invariant says where a request is by what it holds: an uncommitted row of
a name belongs to one request, and that is inside the step that follows the
insert (`Pending`, `Inside`); organization and admin are committed together,
but for an organization that was there before (`Together`). What makes it
inductive is that an insert succeeds only where nobody holds or has committed
the name. Assumed is that requests have names of their own (`NamesAssumption`)
and that a query and another client's request are different
(`RequestsAssumption`).

On this the page's own invariant rests. Of a query (`Sound`) it says that it
asks exactly as long as its request is under way, that it was answered or has
loaded only when the admin is there to be found, and that, if no answer was
lost, a query which has loaded or was refused once cannot be refused again. So
the only error left over is of a fetch whose page went away, and mounting
clears it. Of an announcement (`AnnouncedInv`) it says that the document is
settled until a reprocessing begins again, and that the table shows it, holds an
answer that shows it, is asking for one, or shows an error.

`WebClientProofs` proves, for any names, mutations, workspaces, questions, files,
pages of text, thresholds and bounds:

* `WorkspacesAreTyped`: `WorkspacesSpec => []WorkspacesTypes`;
* `ClientKeepsItsWord`: `WorkspacesSpec => []SaidIsShown`;
* `NavigationInvariant`: the inductive invariant of `Navigation` holds;
* `QuestionsAreCarried`: `NavigationSpec => []QuestionsArrive`;
* `EnterAsks`: `NavigationSpec => EnterAsksWhatWasTyped`;
* `ViewerIsTyped`: `ViewerSpec => []ViewerTypes`;
* `ViewerIsAtEvidence`: `ViewerSpec => []ViewerShowsEvidence`;
* `QuotesAreMarked`: `ViewerSpec => []QuoteIsMarked`.

`SaidIsShown` speaks of queries at rest; the invariant (`WillShow`) adds those
that are not: an answer already on its way to a query that is owed is the
server's present state, because everything that changes that state ends what is
owed, and what was under way before was given up. `QuestionsArrive` speaks of a
page on display; the invariant (`QuestionUnderWay`) adds that the route pushed
last is the carried question's own, and that the link keeps it while the page's
panels are away. `EnterAsks` needs that a highlight nobody moved is the first
row (`HighlightUntouched`), whatever became of the rows, and that Ask AI is that
row whenever a question is typed (`RowsOfThePalette`). The viewer needs that
until the file is loaded the page may only be cut from below. Used are the
assumptions that what stands for absence is none of the values, that listings
are sequences of workspaces and that a file has a page.

`QuoteIsMarked` needs no more of the viewer's state than its types; it is about
what the comparison of two normalized texts can tell of the texts. A blank that
is dropped between two characters of a text may be kept at the end of a piece of
it, so a normalized piece is not a piece of the text; but it is one of the
normalized text, with the beginning where the beginnings agree
(`NormalizedBeginning`) and the end where the ends do (`NormalizedEnd`). The
first holds because what was collapsed is never changed by later characters
(`CollapseGrows`); the second because what comes before a text only adds before
it (`CollapseOfEnd`); and trimming, which is done once at the end, keeps both. A line
has its place in the page (`LineIsInPlace`), so a line and the quote are two
stretches of one text, and what they share is one of them or the end of one and
the beginning of the other (`SharedIsFound`): each of the four is one of the
comparisons the code makes, if what they share is long enough
(`OverlapIsMarked`). Conversely every comparison that succeeds has found
`MinItem` characters of the quote in the line (`MarkedShares`). Assumed are that
the thresholds are positive, `MinItem` the smaller, and that a layer's quote is a
stretch of its page.

`IngestionProofs` proves, for any number of runs, jobs and tries and any set of
faults:

* `ReadyHasItsChunks`: `Spec => []ReadyIsIndexed`;
* `JobFollowsDocument`: `Jobs = {j}` gives `OrderlySpec => []JobMirrorsDocument`.

For the first, chunks are inserted by `Finish` alone, in the commit that makes
the document READY, and removed by the cascade alone, so it is enough to follow
types and the two columns through every commit; that overlapping runs, or a
commit that writes back what a run read long before, cannot break it is what
the case of `BeginProcessing` and `MarkJobFailed` shows. For the second the
invariant (`OneAtATime`) says where the only job can be: waiting in one place
and run by nobody, or run by one process which the queue knows of (`Alone`); and
that what that run loaded is still in the tables unless they were deleted
(`Fresh`), so that a column left out of a commit is one that is right already.
As long as deliveries are orderly nobody polls a stale job, and the backfill
has no job row left to create. What disorder does is section 5's.

Only model-checked: liveness (`ExtractionLockReleased`, `JobsSettle`,
`AnswersSettle`, `TableSettles`, `WatchersFinish`), which is out of the
prover's reach. Every other property of a passing run is proved.

## 5. Where code and documentation part

Each of the four has a run with a counterexample.

1. A lost race answers 500, not 409. `add_event` flushes inside the handler,
   before `_commit_versioned` is entered, so its `StaleDataError` escapes the
   translation (`api/services/evidence.py:486`, `docs/02_ROADMAP.md:80`). Nothing
   is clobbered.
2. A re-extraction can delete an item that has a history: its DELETE waits for
   an inline edit, and re-evaluates only `review_status`.
3. A database error while chunks are indexed leaves job and document
   PROCESSING: the rollback expires the objects and the error message reads
   one of them (`api/processing/pipeline.py:231`, `api/worker.py:9`).
4. A rollback can leave a READY document with chunks that are marked embedded
   and have no vector: the new release's run deletes vectors before it commits,
   dies, and the old release's run finds all its rows marked
   (`docs/12_RELEASE_RUNBOOK.md:201`).

Met while modelling, and visible in the model, without a run of their own:
reconciliation reads job and document in two statements and writes both, so a
run that finishes in between is turned back to FAILED and a poll that straddles
a run can leave the document PROCESSING with its job FAILED; a job that was
reconciled while queued can still make its document READY, and a client that
has stopped polling at FAILED does not see it.

Met while proving, and found by TLC on larger instances of `ChunkIndex`, without
a run of their own:

* With three releases, rows can be a mixture, against "a retried or re-run job
  overwrites cleanly" (`api/processing/pipeline.py:199`). A run does not lock the
  rows it keeps: it lists them, another run commits a chunking that lacks one of
  them, and the first goes on with its own deletions and insertions. Lines are
  then in two chunks, or in none, of a READY document, until it is processed again.
* With three executions, a chunk can be marked as embedded without a vector and
  without a crash: one run upserts, a second deletes these points and commits, a
  third inserts the ids again unembedded, and the first marks them.
* A chunk a run listed as embedded can have been dropped and inserted again by
  others, unembedded, when it commits: it is READY and the chunk has no vector
  until the next run.

The last two are why `orphaned` and `OutagesAreRepaired` have the exceptions
they state.

Met while proving, and found by TLC with a reply that repeats a position more
often than there are candidates: "anything the reranker did not score keeps its
RRF position behind" those it did (`api/services/retrieval.py:83`) is not so of
such a reply. A chunk's rank is its place in the reply, repeats included
(`retrieval.py:152`), and one left out has the rank of the number of candidates
plus one, so a candidate named after all the repeats comes behind it.
`RankingRespectsLegs` excepts these replies and no others.

Also met: `README.md:16` promises inline citations that are shown only when
their quotes are validated, while `verify_answer` keeps markers of weak
citations in an answer it calls partial, on purpose (`verification.py:214`).
An answer whose claims block says `not_found` is shown in the model's own words,
without its markers. The gate on READY documents comes after the cut to the
candidate pool (`retrieval.py:69`), so a search can return less than it could.
In the web client: the map puts the answer to an inline edit in its cache and
gives up no fetch, so a page read before the edit, or the answer to an earlier
edit, can replace it until the next fetch (`evidence-map-panel.tsx:136`); the
next edit is then refused for its version. Only `stale_version` reloads: an
item that was archived or deleted meanwhile keeps its buttons in the drawer,
which are refused one after the other (`review-detail-drawer.tsx:179`). A
history that is loading for the first time when an action succeeds is joined,
not fetched again, and may lack the action. A comment does not change the
version, so one that is sent again after a lost answer is there twice.
PATCH writes to archived items, which the review endpoint refuses as read-only;
the trail explains these writes like any other.

Of the principal and the documents page: `auth.py:67` says that concurrent first
requests converge on the same rows. The rows do, the requests do not all: the
losers of the race get an `IntegrityError`, which is answered 500, and it is
the one retry of the web client's queries that hides it. `services/documents.py:105`
relies on polling to settle jobs no worker takes; only a job's own poll
reconciles it, and a reloaded tab has forgotten its `activeJobs` and polls the
list of documents alone, so such a document is shown as processing until
another client asks. (`TableSettles` is about documents that settle on the
server.) A watcher that reports on another workspace's page invalidates the
documents of that page, so the document's own list is fetched when its page is
opened, not before.

Of the pages:

* Where the client does not keep its word about workspaces: a workspace created
  while the list loads for the first time may be missing from it until the next
  fetch, because a first load is joined; a fetch that was under way when its page
  was left is joined when the page is opened again. A failed rename or delete
  (404) reloads nothing, so the card of a workspace somebody else deleted stays.
* The rename dialog begins with the name the card had when it mounted, so saving
  it unchanged undoes another client's rename. The success of a create closes
  and clears a dialog that was opened again meanwhile. A rename that meets a
  concurrent deletion after its SELECT fails its UPDATE and answers 500.
* `command-palette.tsx:63` says that closing also clears the query; Ctrl-K and
  Cmd-K hide the palette and keep query and highlight. The highlight is a number,
  so after the list was refreshed it can be on another row, or on none.
* Ask AI in the palette asks the first workspace, the ask bar refuses to choose
  among several. The palette's input has no length limit, the chat's has 500
  characters.
* A question sent to the workspace page that is on display already is lost: the
  page keeps its own (`QuestionsArrive` is about other pages).
* Any error of the workspace's query, also of a refetch in the background,
  replaces the page by "Workspace not found" (`workspace-detail.tsx:79`): chat,
  stream and typed question are gone, and the link's question is there again
  when it recovers, even if it was asked before. The grid hides a loaded list
  in the same way, the palette does not.
* Nothing clears the viewer's target when its page is left: the viewer is open
  again on the next workspace's page.
* The watcher of a job whose workspace was deleted polls 404 for ever, and the
  dashboard's totals stay empty as long as one workspace's documents cannot be
  read.
* In the demo transport, which calls itself fully browsable (`transport.ts:6`),
  the review queue, the item's detail and job polls are answered 403.

## 6. Not modelled, and why

* Workspace rules: authentication has been removed, every request is the
  default admin's, who may do everything. Nor that the `create-user` command
  runs at the same time as the first requests (before them it is what
  `Migration` stands for).
* Health, metrics, logging, lists and the rendering of exports: they change
  nothing.
* Text: the recognition of headings, PDF checks, prompts, the comparison of a
  quote with a chunk, snippets. In the models these are inputs (a line's clause,
  a citation's `supported`), so every outcome is checked, but not that the
  outcome is the right one. Markers that overlap (`[[9]1]`) are not modelled.
* Qdrant's and PostgreSQL's search: any ranking.
* Rendering in the web client, its dashboard totals, the form of the search panel,
  the widgets it is built of, and its demo transport, which answers from fixtures.
  Of the browser, back and forward: what they show is a page that mounts, as
  after a link, but the router may keep some of its state.
* The vectors and files of a deleted workspace: nothing removes them, and what
  search finds of them is dropped by the gate on READY documents.
* Schema migrations and scripts: they run once, by hand.
* Several replicas of the API: the limiter is one process's by design.

## 7. Plan

In the order of what is at stake:

1. Composition of `Ingestion` and `EvidenceReview`: an extraction of a document
   that is processed again meanwhile, and its evidence afterwards.
2. A character-level model of `_strip_invalid_markers` against its reference
   (no marker without a source is left).
3. Workspace rules as operators over owner, organization and role, checked
   against the promise that no organization reads another's documents.

Each run answers a question of its own; a new module joins the run of the
component it belongs to, or replaces a smaller one.
