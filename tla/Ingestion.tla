------------------------------ MODULE Ingestion ------------------------------
(***************************************************************************)
(* The ingestion of one document: upload, hand-over to the arq queue or to *)
(* a background task, process_document, the worker's retry policy, the     *)
(* reconciliation of stale jobs by a polling client, and the backfill of   *)
(* the command line.                                                       *)
(*                                                                         *)
(* A session keeps what it has loaded (expire_on_commit is off) and sends  *)
(* only the columns that differ from it, so a commit is modelled with the  *)
(* values its run loaded.  A rollback of an open transaction expires every *)
(* loaded object.  arq and Redis are external: a task that raises Retry is *)
(* queued again, one whose worker dies is run again, one that raises any-  *)
(* thing else or times out is finished.                                    *)
(***************************************************************************)
EXTENDS Naturals, FiniteSets

CONSTANTS
  Jobs,             (* rows processing_jobs can get                         *)
  Runs,             (* executions of process_document                       *)
  MaxTries,         (* job_max_tries                                        *)
  EnqueueOutcomes,  (* what enqueueing can do: "queued", "inline" (disabled *)
                    (* or unreachable) or "both" (the answer was lost)      *)
  Faults,           (* which of "crash", "timeout", "database" (a commit    *)
                    (* fails), "delete" and "stall" (a job waits past the   *)
                    (* staleness limit)                                     *)
  NoJob

ASSUME JobsAssumption == NoJob \notin Jobs
ASSUME TriesAssumption == MaxTries \in Nat \ {0}
ASSUME FaultsAssumption ==
  /\ EnqueueOutcomes \subseteq {"queued", "inline", "both"}
  /\ Faults \subseteq {"crash", "timeout", "database", "delete", "stall"}

DocumentStatus == {"PENDING", "PROCESSING", "READY", "FAILED"}
JobStatus == {"PENDING", "PROCESSING", "READY", "FAILED"}
Active == {"PENDING", "PROCESSING"}

VARIABLES
  document,     (* documents.status, or "absent" / "deleted"                *)
  chunks,       (* committed chunk rows: none, part or all of the text      *)
  parses,       (* whether the stored file passes the full validation       *)
  job,          (* processing_jobs.status, or "none"                        *)
  stale,        (* updated_at is older than job_stale_after_seconds         *)
  origin,       (* what created the job: "upload" or "backfill"             *)
  upload,       (* the upload request: its job until it is handed over      *)
  handed,       (* jobs handed to background tasks                          *)
  queue,        (* the arq job: absent, queued, running, done               *)
  tries,        (* arq's job_try of the last start                          *)
  cli,          (* backfill: idle, or it has selected the READY document    *)
  at,           (* where each run is                                        *)
  mode,         (* inline, worker or cli                                    *)
  job_of,       (* the job of each run                                      *)
  seen_document,(* the status the run's session loaded                      *)
  seen_job,
  found,        (* the chunk rows list_by_document returned                 *)
  poll,         (* the client's poll: idle, job read, document read         *)
  poll_job,     (* the job polled                                           *)
  poll_document (* the document status it read                              *)

tables == <<document, chunks, job, stale>>
upload_vars == <<parses, origin, upload>>
arq == <<queue, tries>>
run_vars == <<at, mode, job_of, seen_document, seen_job, found>>
poll_vars == <<poll, poll_job, poll_document>>
vars == <<tables, upload_vars, handed, arq, cli, run_vars, poll_vars>>

Init ==
  /\ document = "absent" /\ chunks = "none" /\ parses \in BOOLEAN
  /\ job = [j \in Jobs |-> "none"] /\ stale = [j \in Jobs |-> FALSE]
  /\ origin = [j \in Jobs |-> "upload"]
  /\ upload = NoJob /\ handed = {}
  /\ queue = [j \in Jobs |-> "absent"] /\ tries = [j \in Jobs |-> 0]
  /\ cli = "idle"
  /\ at = [r \in Runs |-> "idle"] /\ mode = [r \in Runs |-> "inline"]
  /\ job_of = [r \in Runs |-> NoJob]
  /\ seen_document = [r \in Runs |-> "absent"] /\ seen_job = [r \in Runs |-> "none"]
  /\ found = [r \in Runs |-> "none"]
  /\ poll = "idle" /\ poll_job = NoJob /\ poll_document = "absent"

Deleted == document = "deleted"

-----------------------------------------------------------------------------
(* POST /workspaces/{id}/documents.                                        *)

(* The file is stored and pre-checked; document and job commit together.   *)
Upload(j) ==
  /\ document = "absent" /\ job[j] = "none"
  /\ document' = "PENDING"
  /\ job' = [job EXCEPT ![j] = "PENDING"]
  /\ origin' = [origin EXCEPT ![j] = "upload"]
  /\ upload' = j
  /\ UNCHANGED <<chunks, stale, parses, handed, arq, cli, run_vars, poll_vars>>

(* Any exception of the enqueue means a background task, also one raised   *)
(* after Redis has taken the job.                                          *)
Enqueue ==
  LET j == upload IN
  /\ j # NoJob
  /\ \E how \in EnqueueOutcomes :
       /\ queue' = IF how # "inline" THEN [queue EXCEPT ![j] = "queued"] ELSE queue
       /\ handed' = IF how # "queued" THEN handed \cup {j} ELSE handed
  /\ upload' = NoJob
  /\ UNCHANGED <<tables, parses, origin, tries, cli, run_vars, poll_vars>>

(* The API dies between the commit and the enqueue.                        *)
LoseUpload ==
  /\ "crash" \in Faults /\ upload # NoJob
  /\ upload' = NoJob
  /\ UNCHANGED <<tables, parses, origin, handed, arq, cli, run_vars, poll_vars>>

-----------------------------------------------------------------------------
(* Who runs process_document.                                              *)

Start(r, j, how) ==
  /\ at[r] = "idle"
  /\ at' = [at EXCEPT ![r] = "starting"]
  /\ mode' = [mode EXCEPT ![r] = how]
  /\ job_of' = [job_of EXCEPT ![r] = j]
  /\ UNCHANGED <<seen_document, seen_job, found>>

StartInline(r) ==
  \E j \in handed :
    /\ Start(r, j, "inline")
    /\ handed' = handed \ {j}
    /\ UNCHANGED <<tables, upload_vars, arq, cli, poll_vars>>

StartWorker(r) ==
  \E j \in Jobs :
    /\ queue[j] = "queued" /\ tries[j] < MaxTries
    /\ Start(r, j, "worker")
    /\ queue' = [queue EXCEPT ![j] = "running"]
    /\ tries' = [tries EXCEPT ![j] = @ + 1]
    /\ UNCHANGED <<tables, upload_vars, handed, cli, poll_vars>>

(* arq's own cap: re-runs after crashes have consumed the tries.           *)
DropJob(j) ==
  /\ queue[j] = "queued" /\ tries[j] >= MaxTries
  /\ queue' = [queue EXCEPT ![j] = "done"]
  /\ UNCHANGED <<tables, upload_vars, handed, tries, cli, run_vars, poll_vars>>

(* The backfill lists the READY documents first ...                        *)
ListReady ==
  /\ cli = "idle" /\ document = "READY"
  /\ cli' = "listed"
  /\ UNCHANGED <<tables, upload_vars, handed, arq, run_vars, poll_vars>>

(* ... then gives each a job of its own and processes it, whatever has     *)
(* become of it; without its document the job row cannot be inserted.      *)
Backfill(r) ==
  /\ cli = "listed"
  /\ cli' = "idle"
  /\ \/ /\ ~Deleted
        /\ \E j \in Jobs :
             /\ job[j] = "none"
             /\ job' = [job EXCEPT ![j] = "PENDING"]
             /\ origin' = [origin EXCEPT ![j] = "backfill"]
             /\ Start(r, j, "cli")
     \/ Deleted /\ UNCHANGED <<job, origin, run_vars>>
  /\ UNCHANGED <<document, chunks, stale, parses, upload, handed, arq, poll_vars>>

-----------------------------------------------------------------------------
(* process_document.                                                       *)

(* A run is over; the arq job of a worker's run becomes what is said.      *)
End(r, arq_job) ==
  /\ at' = [at EXCEPT ![r] = "idle"]
  /\ mode' = [mode EXCEPT ![r] = "inline"]
  /\ job_of' = [job_of EXCEPT ![r] = NoJob]
  /\ seen_document' = [seen_document EXCEPT ![r] = "absent"]
  /\ seen_job' = [seen_job EXCEPT ![r] = "none"]
  /\ found' = [found EXCEPT ![r] = "none"]
  /\ queue' = IF mode[r] = "worker" THEN [queue EXCEPT ![job_of[r]] = arq_job] ELSE queue

Goto(r, place) ==
  /\ at' = [at EXCEPT ![r] = place]
  /\ UNCHANGED <<mode, job_of>>

(* A commit that sends job and document: updated_at starts anew.           *)
Settle(j, status) ==
  /\ document' = status
  /\ job' = [job EXCEPT ![j] = status]
  /\ stale' = [stale EXCEPT ![j] = FALSE]

Elsewhere == UNCHANGED <<upload_vars, handed, tries, cli, poll_vars>>

LoadDocument(r) ==
  /\ at[r] = "starting"
  /\ IF Deleted
     THEN End(r, "done")
     ELSE /\ Goto(r, "document loaded")
          /\ seen_document' = [seen_document EXCEPT ![r] = document]
          /\ UNCHANGED <<seen_job, found, queue>>
  /\ UNCHANGED tables /\ Elsewhere

LoadJob(r) ==
  /\ at[r] = "document loaded"
  /\ IF Deleted
     THEN End(r, "done")
     ELSE /\ Goto(r, "loaded")
          /\ seen_job' = [seen_job EXCEPT ![r] = job[job_of[r]]]
          /\ UNCHANGED <<seen_document, found, queue>>
  /\ UNCHANGED tables /\ Elsewhere

(* PROCESSING, attempts + 1: a status already PROCESSING when it was read  *)
(* is not sent, the attempt always is.                                     *)
BeginProcessing(r) ==
  /\ at[r] = "loaded" /\ ~Deleted
  /\ Goto(r, "extracting")
  /\ document' = IF seen_document[r] # "PROCESSING" THEN "PROCESSING" ELSE document
  /\ job' = IF seen_job[r] # "PROCESSING" THEN [job EXCEPT ![job_of[r]] = "PROCESSING"] ELSE job
  /\ stale' = [stale EXCEPT ![job_of[r]] = FALSE]
  /\ UNCHANGED <<chunks, seen_document, seen_job, found, queue>> /\ Elsewhere

(* The text is extracted and the stage committed.                          *)
Extract(r) ==
  /\ at[r] = "extracting" /\ parses /\ ~Deleted
  /\ Goto(r, "vectorizing")
  /\ stale' = [stale EXCEPT ![job_of[r]] = FALSE]
  /\ UNCHANGED <<document, chunks, job, seen_document, seen_job, found, queue>> /\ Elsewhere

(* PdfValidationError, or the file could not be read at all: no            *)
(* transaction is open yet, so the rollback leaves the session's objects.  *)
ExtractionFails(r) ==
  /\ at[r] = "extracting"
  /\ Goto(r, "unexpected error") \/ (~parses /\ Goto(r, "invalid"))
  /\ UNCHANGED <<tables, seen_document, seen_job, found, queue>> /\ Elsewhere

ListChunks(r) ==
  /\ at[r] = "vectorizing" /\ ~Deleted
  /\ Goto(r, "chunked")
  /\ found' = [found EXCEPT ![r] = chunks]
  /\ UNCHANGED <<tables, seen_document, seen_job, queue>> /\ Elsewhere

(* Somebody's uncommitted rows with the ids this run wants to insert.      *)
Inserting(s) == at[s] = "indexed" /\ found[s] # "all"

(* The flush of the missing chunks waits for an uncommitted run that has   *)
(* inserted the same ids; the embeddings follow and cannot fail the run.   *)
IndexChunks(r) ==
  /\ at[r] = "chunked" /\ ~Deleted
  /\ found[r] # "all" => chunks = found[r] /\ \A s \in Runs \ {r} : ~Inserting(s)
  /\ Goto(r, "indexed")
  /\ UNCHANGED <<tables, seen_document, seen_job, found, queue>> /\ Elsewhere

InsideTry == {"extracting", "vectorizing", "chunked"}

(* The text is extracted, but the commit of the stage fails, or finds its  *)
(* row gone: its transaction is rolled back, and every object expires.     *)
StageFails(r) ==
  /\ at[r] = "extracting" /\ parses
  /\ Deleted \/ "database" \in Faults
  /\ Goto(r, "expired")
  /\ UNCHANGED <<tables, seen_document, seen_job, found, queue>> /\ Elsewhere

(* A statement of _index_chunks fails, or the ids exist by now: the open   *)
(* transaction is rolled back, with it what was flushed, and every object  *)
(* expires.                                                                *)
IndexingFails(r) ==
  /\ at[r] \in {"vectorizing", "chunked"}
  /\ Goto(r, "expired")
  /\ UNCHANGED <<tables, seen_document, seen_job, found, queue>> /\ Elsewhere

(* Fault: the document is READY before its chunks are committed.           *)
FinishBeforeChunks(r) ==
  /\ at[r] = "chunked" /\ ~Deleted
  /\ Settle(job_of[r], "READY")
  /\ End(r, "done")
  /\ UNCHANGED chunks /\ Elsewhere

(* One commit: chunks, document and job.                                   *)
Finish(r) ==
  /\ at[r] = "indexed" /\ ~Deleted
  /\ Settle(job_of[r], "READY")
  /\ chunks' = "all"
  /\ End(r, "done") /\ Elsewhere

Terminal(r) == mode[r] # "worker"

(* Fault: what was flushed is not rolled back before the failure commits.  *)
MarkFailedWithoutRollback(r) ==
  /\ at[r] = "invalid" \/ (at[r] \in {"unexpected error", "expired"} /\ Terminal(r))
  /\ ~Deleted
  /\ Settle(job_of[r], "FAILED")
  /\ chunks' = IF at[r] = "expired" /\ found[r] = "none" THEN "some" ELSE chunks
  /\ End(r, "done") /\ Elsewhere

(* _mark_failed: assignments read nothing, so they work on expired objects.*)
MarkFailed(r) ==
  /\ at[r] = "invalid" \/ (at[r] \in {"unexpected error", "expired"} /\ Terminal(r))
  /\ ~Deleted
  /\ Settle(job_of[r], "FAILED")
  /\ End(r, "done")
  /\ UNCHANGED chunks /\ Elsewhere

(* For the worker: the attempt's message is committed, and the task raises *)
(* Retry or goes on to mark_job_failed.                                    *)
RecordAttempt(r) ==
  /\ at[r] = "unexpected error" /\ ~Terminal(r) /\ ~Deleted
  /\ stale' = [stale EXCEPT ![job_of[r]] = FALSE]
  /\ \/ tries[job_of[r]] < MaxTries /\ End(r, "queued")
     \/ /\ tries[job_of[r]] = MaxTries /\ Goto(r, "tries spent")
        /\ UNCHANGED <<seen_document, seen_job, found, queue>>
  /\ UNCHANGED <<document, chunks, job>> /\ Elsewhere

(* The message names job.attempts, and reading an expired attribute of an  *)
(* async session raises: neither Retry nor a failure mark, the task fails. *)
RecordAttemptFails(r) ==
  /\ at[r] = "expired" /\ ~Terminal(r)
  /\ End(r, "done")
  /\ UNCHANGED tables /\ Elsewhere

(* mark_job_failed, in a session of its own.                               *)
LoadFailed(r) ==
  /\ at[r] = "tries spent"
  /\ IF Deleted
     THEN End(r, "done")
     ELSE /\ Goto(r, "marking")
          /\ seen_document' = [seen_document EXCEPT ![r] = document]
          /\ seen_job' = [seen_job EXCEPT ![r] = job[job_of[r]]]
          /\ UNCHANGED <<found, queue>>
  /\ UNCHANGED tables /\ Elsewhere

(* Fault: the job is marked, its document is not.                          *)
MarkOnlyJobFailed(r) ==
  /\ at[r] = "marking" /\ ~Deleted
  /\ job' = [job EXCEPT ![job_of[r]] = "FAILED"]
  /\ stale' = [stale EXCEPT ![job_of[r]] = FALSE]
  /\ End(r, "done")
  /\ UNCHANGED <<document, chunks>> /\ Elsewhere

MarkJobFailed(r) ==
  /\ at[r] = "marking" /\ ~Deleted
  /\ document' = IF seen_document[r] # "FAILED" THEN "FAILED" ELSE document
  /\ job' = IF seen_job[r] # "FAILED" THEN [job EXCEPT ![job_of[r]] = "FAILED"] ELSE job
  /\ stale' = [stale EXCEPT ![job_of[r]] = FALSE]
  /\ End(r, "done")
  /\ UNCHANGED chunks /\ Elsewhere

(* An exception nothing in the run catches: the rows are gone, or a commit *)
(* outside the try fails.  arq does not retry it.                          *)
Escape(r) ==
  /\ at[r] \notin InsideTry \cup {"idle"}
  /\ Deleted \/ "database" \in Faults
  /\ End(r, "done")
  /\ UNCHANGED tables /\ Elsewhere

(* job_timeout cancels a worker's run; arq counts the job as finished.     *)
TimeOut(r) ==
  /\ "timeout" \in Faults /\ at[r] # "idle" /\ mode[r] = "worker"
  /\ End(r, "done")
  /\ UNCHANGED tables /\ Elsewhere

(* The process of the run dies or stops; arq runs the job again.           *)
Crash(r) ==
  /\ "crash" \in Faults /\ at[r] # "idle"
  /\ End(r, "queued")
  /\ UNCHANGED tables /\ Elsewhere

-----------------------------------------------------------------------------
(* GET /jobs/{id}, polled by the client that uploaded.                     *)

(* Nothing has changed the row for job_stale_after_seconds; a worker's run *)
(* ends before that (job_timeout is shorter).                              *)
Age(j) ==
  /\ "stall" \in Faults /\ job[j] \in Active /\ ~stale[j]
  /\ \A r \in Runs : ~(mode[r] = "worker" /\ job_of[r] = j)
  /\ stale' = [stale EXCEPT ![j] = TRUE]
  /\ UNCHANGED <<document, chunks, job, run_vars, queue>> /\ Elsewhere

(* Fault: only a job that has begun is taken for lost.                     *)
PollJobStarted(j) ==
  /\ poll = "idle" /\ origin[j] = "upload" /\ job[j] = "PROCESSING" /\ stale[j]
  /\ poll' = "job read" /\ poll_job' = j
  /\ UNCHANGED <<tables, upload_vars, handed, arq, cli, run_vars, poll_document>>

(* A poll that finds the job settled or fresh answers and changes nothing. *)
PollJob(j) ==
  /\ poll = "idle" /\ origin[j] = "upload" /\ job[j] \in Active /\ stale[j]
  /\ poll' = "job read" /\ poll_job' = j
  /\ UNCHANGED <<tables, upload_vars, handed, arq, cli, run_vars, poll_document>>

PollDocument ==
  /\ poll = "job read"
  /\ poll' = "document read" /\ poll_document' = document
  /\ UNCHANGED <<tables, upload_vars, handed, arq, cli, run_vars, poll_job>>

(* reconcile_stale_job, on the rows as they were read; 404 or an exception *)
(* when they are gone.                                                     *)
ReconcileStaleJob ==
  /\ poll = "document read"
  /\ IF Deleted
     THEN UNCHANGED <<document, job, stale>>
     ELSE /\ document' = IF poll_document \in Active THEN "FAILED" ELSE document
          /\ job' = [job EXCEPT ![poll_job] = "FAILED"]
          /\ stale' = [stale EXCEPT ![poll_job] = FALSE]
  /\ poll' = "idle" /\ poll_job' = NoJob /\ poll_document' = "absent"
  /\ UNCHANGED <<chunks, upload_vars, handed, arq, cli, run_vars>>

(* DELETE /workspaces/{id} cascades; it waits for the key-share locks of   *)
(* uncommitted chunk inserts.                                              *)
DeleteWorkspace ==
  /\ "delete" \in Faults
  /\ document \notin {"absent", "deleted"}
  /\ \A r \in Runs : ~Inserting(r)
  /\ document' = "deleted" /\ chunks' = "none"
  /\ job' = [j \in Jobs |-> "none"]
  /\ stale' = [j \in Jobs |-> FALSE]
  /\ UNCHANGED <<upload_vars, handed, arq, cli, run_vars, poll_vars>>

-----------------------------------------------------------------------------
RunStep(r) ==
  \/ LoadDocument(r) \/ LoadJob(r) \/ BeginProcessing(r)
  \/ Extract(r) \/ ExtractionFails(r) \/ StageFails(r)
  \/ ListChunks(r) \/ IndexChunks(r) \/ IndexingFails(r) \/ Finish(r)
  \/ MarkFailed(r) \/ RecordAttempt(r) \/ RecordAttemptFails(r)
  \/ LoadFailed(r) \/ MarkJobFailed(r)
  \/ Escape(r) \/ TimeOut(r) \/ Crash(r)

Poll == PollDocument \/ ReconcileStaleJob \/ \E j \in Jobs : PollJob(j)

Next ==
  \/ Enqueue \/ LoseUpload \/ ListReady \/ Poll \/ DeleteWorkspace
  \/ \E j \in Jobs : Upload(j) \/ DropJob(j) \/ Age(j)
  \/ \E r \in Runs : StartInline(r) \/ StartWorker(r) \/ Backfill(r) \/ RunStep(r)

Spec == Init /\ [][Next]_vars

(* Owed: the client goes on polling, time passes, and a worker's run comes *)
(* to an end (job_timeout).  Not owed: that a worker ever takes a job, or  *)
(* that an inline run or an upload request makes progress.                 *)
Fairness ==
  /\ WF_vars(Poll)
  /\ \A j \in Jobs : WF_vars(Age(j))
  /\ \A r \in Runs : WF_vars(RunStep(r) /\ mode[r] = "worker")

FairSpec == Spec /\ Fairness

-----------------------------------------------------------------------------
(* Properties.                                                             *)

(* A document offered to search has all its chunks, and no run ever leaves *)
(* part of them behind, however runs of it overlap, fail or are killed.    *)
ReadyIsIndexed ==
  /\ document = "READY" => chunks = "all"
  /\ chunks # "some"

(* services/documents.py:105-106: no job hangs for good from the point of  *)
(* view of a client that polls, whatever crashed, timed out or was lost,   *)
(* and whether or not a worker ever returns.                               *)
JobsSettle ==
  \A j \in Jobs :
    (job[j] \in Active /\ origin[j] = "upload") ~> job[j] \notin Active

-----------------------------------------------------------------------------
(* What the repository says of the code and the code does not do.          *)

(* worker.py:9-10: unexpected failures retry, then job and document are    *)
(* FAILED (never left hanging).                                            *)
NeverLeftHanging ==
  \A j \in Jobs : queue[j] = "done" => job[j] \notin Active

=============================================================================
