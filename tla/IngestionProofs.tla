---------------------------- MODULE IngestionProofs ----------------------------
(* The ingestion of a document, for any number of runs, jobs and tries and *)
(* any set of faults.                                                      *)
EXTENDS OrderlyIngestion, TLAPS

Places ==
  {"idle", "starting", "document loaded", "loaded", "extracting", "vectorizing", "chunked",
   "indexed", "invalid", "unexpected error", "expired", "tries spent", "marking"}

DocumentTypes ==
  /\ document \in DocumentStatus \cup {"absent", "deleted"}
  /\ chunks \in {"none", "all"}
  /\ job \in [Jobs -> JobStatus \cup {"none"}] /\ stale \in [Jobs -> BOOLEAN]
  /\ poll \in {"idle", "job read", "document read"} /\ poll_job \in Jobs \cup {NoJob}
  /\ poll_document \in DocumentStatus \cup {"absent", "deleted"}

QueueTypes ==
  /\ upload \in Jobs \cup {NoJob} /\ handed \subseteq Jobs
  /\ queue \in [Jobs -> {"absent", "queued", "running", "done"}] /\ tries \in [Jobs -> Nat]
  /\ cli \in {"idle", "listed"}

RunTypes ==
  /\ at \in [Runs -> Places] /\ mode \in [Runs -> {"inline", "worker", "cli"}]
  /\ job_of \in [Runs -> Jobs \cup {NoJob}]
  /\ \A r \in Runs : at[r] # "idle" => job_of[r] \in Jobs
  /\ seen_document \in [Runs -> DocumentStatus \cup {"absent", "deleted"}]
  /\ seen_job \in [Runs -> JobStatus \cup {"none"}] /\ found \in [Runs -> {"none", "all"}]

(* A poll that has read its job has one.                                   *)
PollTypes == poll # "idle" => poll_job \in Jobs

IngestionTypes == DocumentTypes /\ QueueTypes /\ RunTypes /\ PollTypes

(* Chunks are there before the document says so.                           *)
ReadyHasChunks == document = "READY" => chunks = "all"

IngestionInv == IngestionTypes /\ ReadyHasChunks

LEMMA Distinct ==
  /\ DocumentStatus = {"PENDING", "PROCESSING", "READY", "FAILED"}
  /\ JobStatus = {"PENDING", "PROCESSING", "READY", "FAILED"}
BY DEF DocumentStatus, JobStatus

LEMMA IngestionStarts == Init => IngestionInv
<1> SUFFICES ASSUME Init PROVE IngestionInv
  OBVIOUS
<1>1. DocumentTypes
  BY DEF Init, DocumentTypes
<1>2. QueueTypes
  BY DEF Init, QueueTypes
<1>3. RunTypes
  BY DEF Init, RunTypes, Places
<1>4. PollTypes /\ ReadyHasChunks
  BY DEF Init, PollTypes, ReadyHasChunks
<1> QED BY <1>1, <1>2, <1>3, <1>4 DEF IngestionInv, IngestionTypes

(* What the end of a run, or a step of it from one place to another, keeps.*)
LEMMA EndKeeps ==
  ASSUME IngestionInv, NEW r \in Runs, at[r] # "idle",
         NEW arq_job \in {"queued", "done"}, End(r, arq_job), Elsewhere
  PROVE  RunTypes' /\ QueueTypes'
<1>1. QueueTypes'
  BY DEF IngestionInv, IngestionTypes, QueueTypes, RunTypes, End, Elsewhere, upload_vars
<1>2. RunTypes'
  BY DEF IngestionInv, IngestionTypes, RunTypes, End, Places
<1> QED BY <1>1, <1>2

LEMMA GotoKeeps ==
  ASSUME IngestionInv, NEW r \in Runs, at[r] # "idle", NEW place \in Places, Goto(r, place),
         seen_document' \in [Runs -> DocumentStatus \cup {"absent", "deleted"}],
         seen_job' \in [Runs -> JobStatus \cup {"none"}], found' \in [Runs -> {"none", "all"}],
         UNCHANGED queue, Elsewhere
  PROVE  RunTypes' /\ QueueTypes'
<1>1. QueueTypes'
  BY DEF IngestionInv, IngestionTypes, QueueTypes, Elsewhere, upload_vars
<1>2. RunTypes'
  BY DEF IngestionInv, IngestionTypes, RunTypes, Goto
<1> QED BY <1>1, <1>2

LEMMA StartKeeps ==
  ASSUME IngestionInv, NEW r \in Runs, NEW j \in Jobs, NEW how \in {"inline", "worker", "cli"},
         Start(r, j, how)
  PROVE  RunTypes'
BY DEF IngestionInv, IngestionTypes, RunTypes, Start, Places

(* The tables when nothing of them changes, and when a run settles.        *)
LEMMA TablesKeep ==
  ASSUME IngestionInv, UNCHANGED tables, Elsewhere
  PROVE  DocumentTypes' /\ PollTypes' /\ ReadyHasChunks'
BY DEF IngestionInv, IngestionTypes, DocumentTypes, PollTypes, ReadyHasChunks, tables, Elsewhere,
   poll_vars

LEMMA SettleKeeps ==
  ASSUME IngestionInv, NEW j \in Jobs, NEW status \in {"READY", "FAILED"}, Settle(j, status),
         chunks' \in {"none", "all"}, status = "READY" => chunks' = "all", Elsewhere
  PROVE  DocumentTypes' /\ PollTypes' /\ ReadyHasChunks'
<1>1. DocumentTypes'
  BY DEF IngestionInv, IngestionTypes, DocumentTypes, Settle, Elsewhere, poll_vars, DocumentStatus, JobStatus
<1>2. PollTypes' /\ ReadyHasChunks'
  BY DEF IngestionInv, IngestionTypes, PollTypes, ReadyHasChunks, Settle, Elsewhere, poll_vars
<1> QED BY <1>1, <1>2

(* A step of a run that changes no table.                                  *)
LEMMA RunOnlyKeeps ==
  ASSUME IngestionInv, UNCHANGED tables, Elsewhere, RunTypes', QueueTypes'
  PROVE  IngestionInv'
BY TablesKeep DEF IngestionInv, IngestionTypes

LEMMA RunStepKeeps ==
  ASSUME IngestionInv, NEW r \in Runs, RunStep(r)
  PROVE  IngestionInv'
<1> USE DEF IngestionInv, IngestionTypes
<1>t. /\ seen_document \in [Runs -> DocumentStatus \cup {"absent", "deleted"}]
      /\ seen_job \in [Runs -> JobStatus \cup {"none"}] /\ found \in [Runs -> {"none", "all"}]
      /\ document \in DocumentStatus \cup {"absent", "deleted"}
      /\ job \in [Jobs -> JobStatus \cup {"none"}] /\ chunks \in {"none", "all"}
      /\ (at[r] # "idle" => job_of[r] \in Jobs)
      /\ stale \in [Jobs -> BOOLEAN]
  BY DEF RunTypes, DocumentTypes
<1>j. at[r] # "idle" => job[job_of[r]] \in JobStatus \cup {"none"}
  BY <1>t
<1>e. ASSUME NEW arq_job \in {"queued", "done"}, at[r] # "idle", End(r, arq_job), UNCHANGED tables, Elsewhere
      PROVE  IngestionInv'
  BY <1>e, EndKeeps, RunOnlyKeeps
<1>s. ASSUME NEW status \in {"READY", "FAILED"}, at[r] # "idle", End(r, "done"),
             Settle(job_of[r], status), chunks' \in {"none", "all"},
             status = "READY" => chunks' = "all", Elsewhere
      PROVE  IngestionInv'
  <2>1. RunTypes' /\ QueueTypes'
    BY <1>s, EndKeeps
  <2>2. DocumentTypes' /\ PollTypes' /\ ReadyHasChunks'
    BY <1>s, <1>t, SettleKeeps
  <2> QED BY <2>1, <2>2
<1>g. ASSUME NEW place \in Places, at[r] # "idle", Goto(r, place),
             seen_document' \in [Runs -> DocumentStatus \cup {"absent", "deleted"}],
             seen_job' \in [Runs -> JobStatus \cup {"none"}], found' \in [Runs -> {"none", "all"}],
             UNCHANGED queue, UNCHANGED tables, Elsewhere
      PROVE  IngestionInv'
  BY <1>g, GotoKeeps, RunOnlyKeeps
<1>k. ASSUME document' \in DocumentStatus, document' # "READY" \/ document' = document,
             UNCHANGED chunks, job' \in [Jobs -> JobStatus \cup {"none"}],
             stale' \in [Jobs -> BOOLEAN], Elsewhere, RunTypes', QueueTypes'
      PROVE  IngestionInv'
  BY <1>k DEF DocumentTypes, PollTypes, ReadyHasChunks, Elsewhere, poll_vars
<1>1. CASE LoadDocument(r)
  <2>1. CASE Deleted
    BY <1>1, <1>e, <2>1 DEF LoadDocument
  <2>2. CASE ~Deleted
    <3>1. seen_document' \in [Runs -> DocumentStatus \cup {"absent", "deleted"}]
      BY <1>1, <1>t, <2>2 DEF LoadDocument
    <3> QED BY <1>1, <1>g, <1>t, <2>2, <3>1 DEF LoadDocument, Places
  <2> QED BY <2>1, <2>2
<1>2. CASE LoadJob(r)
  <2>1. CASE Deleted
    BY <1>2, <1>e, <2>1 DEF LoadJob
  <2>2. CASE ~Deleted
    <3>1. seen_job' \in [Runs -> JobStatus \cup {"none"}]
      BY <1>2, <1>j, <1>t, <2>2 DEF LoadJob
    <3> QED BY <1>2, <1>g, <1>t, <2>2, <3>1 DEF LoadJob, Places
  <2> QED BY <2>1, <2>2
<1>3. CASE BeginProcessing(r)
  <2>1. RunTypes' /\ QueueTypes'
    BY <1>3, <1>t, GotoKeeps DEF BeginProcessing, Places
  <2>2. /\ document' \in DocumentStatus \cup {"absent"} /\ (document' # "READY" \/ document' = document)
        /\ job' \in [Jobs -> JobStatus \cup {"none"}] /\ stale' \in [Jobs -> BOOLEAN]
    BY <1>3, <1>t DEF BeginProcessing, Deleted, DocumentStatus, JobStatus
  <2> QED BY <1>3, <2>1, <2>2 DEF BeginProcessing, DocumentTypes, PollTypes, ReadyHasChunks, Elsewhere, poll_vars
<1>4. CASE Extract(r)
  <2>1. RunTypes' /\ QueueTypes'
    BY <1>4, <1>t, GotoKeeps DEF Extract, Places
  <2>2. stale' \in [Jobs -> BOOLEAN]
    BY <1>4, <1>t DEF Extract
  <2> QED BY <1>4, <2>1, <2>2 DEF Extract, DocumentTypes, PollTypes, ReadyHasChunks, Elsewhere, poll_vars
<1>5. CASE ExtractionFails(r)
  BY <1>5, <1>g, <1>t DEF ExtractionFails, Places
<1>6. CASE ListChunks(r)
  <2>1. found' \in [Runs -> {"none", "all"}]
    BY <1>6, <1>t DEF ListChunks
  <2> QED BY <1>6, <1>g, <1>t, <2>1 DEF ListChunks, Places
<1>7. CASE IndexChunks(r)
  BY <1>7, <1>g, <1>t DEF IndexChunks, Places
<1>8. CASE IndexingFails(r)
  BY <1>8, <1>g, <1>t DEF IndexingFails, Places
<1>9. CASE Finish(r)
  BY <1>9, <1>s DEF Finish
<1>10. CASE MarkFailed(r)
  BY <1>10, <1>s, <1>t DEF MarkFailed
<1>11. CASE RecordAttempt(r)
  <2>1. RunTypes' /\ QueueTypes'
    BY <1>11, <1>t, EndKeeps, GotoKeeps DEF RecordAttempt, Places
  <2>2. stale' \in [Jobs -> BOOLEAN]
    BY <1>11, <1>t DEF RecordAttempt
  <2> QED BY <1>11, <2>1, <2>2 DEF RecordAttempt, DocumentTypes, PollTypes, ReadyHasChunks, Elsewhere, poll_vars
<1>12. CASE RecordAttemptFails(r)
  BY <1>12, <1>e DEF RecordAttemptFails
<1>13. CASE LoadFailed(r)
  <2>1. CASE Deleted
    BY <1>13, <1>e, <2>1 DEF LoadFailed
  <2>2. CASE ~Deleted
    <3>1. /\ seen_document' \in [Runs -> DocumentStatus \cup {"absent", "deleted"}]
          /\ seen_job' \in [Runs -> JobStatus \cup {"none"}]
      BY <1>13, <1>j, <1>t, <2>2 DEF LoadFailed
    <3> QED BY <1>13, <1>g, <1>t, <2>2, <3>1 DEF LoadFailed, Places
  <2> QED BY <2>1, <2>2
<1>14. CASE MarkJobFailed(r)
  <2>1. RunTypes' /\ QueueTypes'
    BY <1>14, EndKeeps DEF MarkJobFailed
  <2>2. /\ document' \in DocumentStatus \cup {"absent"} /\ (document' # "READY" \/ document' = document)
        /\ job' \in [Jobs -> JobStatus \cup {"none"}] /\ stale' \in [Jobs -> BOOLEAN]
    BY <1>14, <1>t DEF MarkJobFailed, Deleted, DocumentStatus, JobStatus
  <2> QED BY <1>14, <2>1, <2>2 DEF MarkJobFailed, DocumentTypes, PollTypes, ReadyHasChunks, Elsewhere, poll_vars
<1>15. CASE Escape(r)
  BY <1>15, <1>e DEF Escape
<1>16. CASE TimeOut(r)
  BY <1>16, <1>e DEF TimeOut
<1>17. CASE Crash(r)
  BY <1>17, <1>e DEF Crash
<1>18. CASE StageFails(r)
  BY <1>18, <1>g, <1>t DEF StageFails, Places
<1> QED
  BY <1>1, <1>2, <1>3, <1>4, <1>5, <1>6, <1>7, <1>8, <1>9, <1>10, <1>11, <1>12, <1>13, <1>14, <1>15,
     <1>16, <1>17, <1>18 DEF RunStep

LEMMA IngestionKeeps == IngestionInv /\ [Next]_vars => IngestionInv'
<1> SUFFICES ASSUME IngestionInv, [Next]_vars PROVE IngestionInv'
  OBVIOUS
<1> USE DEF IngestionInv, IngestionTypes
<1>r. ASSUME UNCHANGED run_vars PROVE RunTypes'
  BY <1>r DEF RunTypes, run_vars
<1>t. ASSUME UNCHANGED <<tables, poll_vars>> PROVE DocumentTypes' /\ PollTypes' /\ ReadyHasChunks'
  BY <1>t DEF DocumentTypes, PollTypes, ReadyHasChunks, tables, poll_vars
<1>q. ASSUME UNCHANGED <<upload, handed, arq, cli>> PROVE QueueTypes'
  BY <1>q DEF QueueTypes, arq
<1>1. CASE Enqueue
  <2>1. QueueTypes'
    BY <1>1 DEF Enqueue, QueueTypes, arq
  <2> QED BY <1>1, <1>r, <1>t, <2>1 DEF Enqueue
<1>2. CASE LoseUpload
  <2>1. QueueTypes'
    BY <1>2 DEF LoseUpload, QueueTypes, arq
  <2> QED BY <1>2, <1>r, <1>t, <2>1 DEF LoseUpload
<1>3. CASE ListReady
  <2>1. QueueTypes'
    BY <1>3 DEF ListReady, QueueTypes, arq, upload_vars
  <2> QED BY <1>3, <1>r, <1>t, <2>1 DEF ListReady
<1>4. ASSUME NEW j \in Jobs, PollJob(j) PROVE IngestionInv'
  <2>1. DocumentTypes' /\ PollTypes' /\ ReadyHasChunks'
    BY <1>4 DEF PollJob, DocumentTypes, PollTypes, ReadyHasChunks, tables
  <2> QED BY <1>4, <1>q, <1>r, <2>1 DEF PollJob, upload_vars
<1>5. CASE PollDocument
  <2>1. DocumentTypes' /\ PollTypes' /\ ReadyHasChunks'
    BY <1>5 DEF PollDocument, DocumentTypes, PollTypes, ReadyHasChunks, tables
  <2> QED BY <1>5, <1>q, <1>r, <2>1 DEF PollDocument, upload_vars
<1>6. CASE ReconcileStaleJob
  <2>1. DocumentTypes' /\ PollTypes' /\ ReadyHasChunks'
    BY <1>6 DEF ReconcileStaleJob, DocumentTypes, PollTypes, ReadyHasChunks, DocumentStatus, JobStatus
  <2> QED BY <1>6, <1>q, <1>r, <2>1 DEF ReconcileStaleJob, upload_vars
<1>7. CASE DeleteWorkspace
  <2>1. DocumentTypes' /\ PollTypes' /\ ReadyHasChunks'
    BY <1>7 DEF DeleteWorkspace, DocumentTypes, PollTypes, ReadyHasChunks, poll_vars, JobStatus
  <2> QED BY <1>7, <1>q, <1>r, <2>1 DEF DeleteWorkspace, upload_vars
<1>8. ASSUME NEW j \in Jobs, Upload(j) PROVE IngestionInv'
  <2>1. DocumentTypes' /\ PollTypes' /\ ReadyHasChunks'
    BY <1>8 DEF Upload, DocumentTypes, PollTypes, ReadyHasChunks, poll_vars, DocumentStatus, JobStatus
  <2>2. QueueTypes'
    BY <1>8 DEF Upload, QueueTypes, arq
  <2> QED BY <1>8, <1>r, <2>1, <2>2 DEF Upload
<1>9. ASSUME NEW j \in Jobs, DropJob(j) PROVE IngestionInv'
  <2>1. QueueTypes'
    BY <1>9 DEF DropJob, QueueTypes, upload_vars
  <2> QED BY <1>9, <1>r, <1>t, <2>1 DEF DropJob
<1>10. ASSUME NEW j \in Jobs, Age(j) PROVE IngestionInv'
  <2>1. DocumentTypes' /\ PollTypes' /\ ReadyHasChunks'
    BY <1>10 DEF Age, Elsewhere, DocumentTypes, PollTypes, ReadyHasChunks, poll_vars
  <2>2. QueueTypes'
    BY <1>10 DEF Age, Elsewhere, QueueTypes, upload_vars
  <2> QED BY <1>10, <1>r, <2>1, <2>2 DEF Age
<1>11. ASSUME NEW r \in Runs, StartInline(r) PROVE IngestionInv'
  <2>1. PICK j \in handed : Start(r, j, "inline") /\ handed' = handed \ {j}
                           /\ UNCHANGED <<tables, upload_vars, arq, cli, poll_vars>>
    BY <1>11 DEF StartInline
  <2>2. QueueTypes' /\ j \in Jobs
    BY <2>1 DEF QueueTypes, upload_vars, arq
  <2>3. RunTypes'
    BY <2>1, <2>2, StartKeeps
  <2> QED BY <1>t, <2>1, <2>2, <2>3
<1>12. ASSUME NEW r \in Runs, StartWorker(r) PROVE IngestionInv'
  <2>1. PICK j \in Jobs : /\ Start(r, j, "worker")
                         /\ queue' = [queue EXCEPT ![j] = "running"] /\ tries' = [tries EXCEPT ![j] = @ + 1]
                         /\ UNCHANGED <<tables, upload_vars, handed, cli, poll_vars>>
    BY <1>12 DEF StartWorker
  <2>2. QueueTypes'
    BY <2>1 DEF QueueTypes, upload_vars
  <2>3. RunTypes'
    BY <2>1, StartKeeps
  <2> QED BY <1>t, <2>1, <2>2, <2>3
<1>13. ASSUME NEW r \in Runs, Backfill(r) PROVE IngestionInv'
  <2>1. DocumentTypes' /\ PollTypes' /\ ReadyHasChunks'
    BY <1>13 DEF Backfill, DocumentTypes, PollTypes, ReadyHasChunks, poll_vars, JobStatus
  <2>2. QueueTypes'
    BY <1>13 DEF Backfill, QueueTypes, arq
  <2>3. RunTypes'
    BY <1>13, <1>r, StartKeeps DEF Backfill
  <2> QED BY <2>1, <2>2, <2>3
<1>14. ASSUME NEW r \in Runs, RunStep(r) PROVE IngestionInv'
  BY <1>14, RunStepKeeps
<1>15. CASE UNCHANGED vars
  BY <1>15, <1>q, <1>r, <1>t DEF vars, upload_vars
<1> QED
  BY <1>1, <1>2, <1>3, <1>4, <1>5, <1>6, <1>7, <1>8, <1>9, <1>10, <1>11, <1>12, <1>13, <1>14, <1>15
  DEF Next, Poll

(* pipeline.py:223-241: however many runs of a document overlap, fail or   *)
(* are killed, it is offered to search with all its chunks only.           *)
THEOREM ReadyHasItsChunks == Spec => []ReadyIsIndexed
<1>1. IngestionInv => ReadyIsIndexed
  BY DEF IngestionInv, IngestionTypes, DocumentTypes, ReadyHasChunks, ReadyIsIndexed
<1> QED BY <1>1, IngestionStarts, IngestionKeeps, PTL DEF Spec

-----------------------------------------------------------------------------
(* Orderly deliveries of the only job j.                                   *)

Mirror(j) == job[j] = IF document \in {"absent", "deleted"} THEN "none" ELSE document

(* While the job waits to be handed over or taken nobody runs it, and it   *)
(* waits in one place only.                                                *)
Waiting(j) ==
  /\ document = "absent" => upload = NoJob /\ cli = "idle"
  /\ document = "absent" \/ upload # NoJob => handed = {} /\ queue[j] = "absent"
  /\ document = "absent" \/ upload # NoJob \/ handed # {} \/ queue[j] = "queued" =>
       \A r \in Runs : at[r] = "idle"

Alone(r, j) ==
  at[r] # "idle" => /\ queue[j] = IF mode[r] = "worker" THEN "running" ELSE "absent"
                    /\ \A s \in Runs \ {r} : at[s] = "idle"

(* What a run has loaded is what is in the tables, until they are deleted. *)
Fresh(r, j) ==
  document # "deleted" =>
    /\ at[r] \in {"document loaded", "loaded", "marking"} => seen_document[r] = document
    /\ at[r] \in {"loaded", "marking"} => seen_job[r] = job[j]

OneAtATime(j) ==
  /\ poll = "idle" /\ Mirror(j) /\ Waiting(j)
  /\ \A r \in Runs : Alone(r, j) /\ Fresh(r, j)

OrderlyInv(j) ==
  orderly => /\ ~stale[j] /\ ~(j \in handed /\ queue[j] # "absent")
             /\ OneAtATime(j)

LEMMA OrderlyStarts ==
  ASSUME NEW j, Jobs = {j}, OrderlyInit
  PROVE  OrderlyInv(j)
BY DEF OrderlyInit, Init, OrderlyInv, OneAtATime, Mirror, Waiting, Alone, Fresh

(* A run that goes on, and one that ends, leave the others where they are. *)
LEMMA GoesOn ==
  ASSUME NEW j, Jobs = {j}, IngestionInv, OneAtATime(j), NEW r \in Runs, at[r] # "idle",
         NEW place \in Places \ {"idle"}, Goto(r, place), UNCHANGED queue, Elsewhere,
         document' # "absent", Mirror(j)', Fresh(r, j)'
  PROVE  OneAtATime(j)'
<1>1. /\ at \in [Runs -> Places] /\ document # "absent"
      /\ upload = NoJob /\ handed = {} /\ queue[j] # "queued"
      /\ \A s \in Runs \ {r} : at[s] = "idle"
  BY DEF IngestionInv, IngestionTypes, RunTypes, OneAtATime, Waiting, Alone
<1>2. at'[r] = place /\ \A s \in Runs \ {r} : at'[s] = "idle"
  BY <1>1 DEF Goto
<1>3. poll' = "idle" /\ Waiting(j)'
  BY <1>1 DEF OneAtATime, Waiting, Elsewhere, poll_vars, upload_vars
<1>4. ASSUME NEW s \in Runs PROVE Alone(s, j)' /\ Fresh(s, j)'
  <2>1. CASE s = r
    <3>1. Alone(r, j) /\ mode' = mode
      BY DEF OneAtATime, Goto
    <3> QED BY <1>2, <2>1, <3>1 DEF Alone
  <2>2. CASE s # r
    BY <1>2, <2>2 DEF Alone, Fresh
  <2> QED BY <2>1, <2>2
<1> QED BY <1>3, <1>4 DEF OneAtATime

LEMMA Ends ==
  ASSUME NEW j, Jobs = {j}, IngestionInv, OneAtATime(j), NEW r \in Runs, at[r] # "idle",
         NEW arq_job, End(r, arq_job), Elsewhere, document' # "absent", Mirror(j)'
  PROVE  OneAtATime(j)'
<1>1. /\ at \in [Runs -> Places] /\ document # "absent"
      /\ upload = NoJob /\ handed = {}
      /\ \A s \in Runs \ {r} : at[s] = "idle"
  BY DEF IngestionInv, IngestionTypes, RunTypes, OneAtATime, Waiting, Alone
<1>2. \A s \in Runs : at'[s] = "idle"
  BY <1>1 DEF End
<1>3. poll' = "idle" /\ Waiting(j)'
  BY <1>1, <1>2 DEF OneAtATime, Waiting, Elsewhere, poll_vars, upload_vars
<1>4. \A s \in Runs : Alone(s, j)' /\ Fresh(s, j)'
  BY <1>2 DEF Alone, Fresh
<1> QED BY <1>3, <1>4 DEF OneAtATime

(* No table changes, or a run settles: both keep job and document alike.   *)
LEMMA MirrorKept ==
  ASSUME NEW j, Mirror(j), UNCHANGED tables
  PROVE  Mirror(j)'
BY DEF Mirror, tables

LEMMA RunStepMirrors ==
  ASSUME NEW j, Jobs = {j}, IngestionInv, OneAtATime(j), NEW r \in Runs, RunStep(r)
  PROVE  OneAtATime(j)'
<1>t. /\ seen_document \in [Runs -> DocumentStatus \cup {"absent", "deleted"}]
      /\ seen_job \in [Runs -> JobStatus \cup {"none"}]
      /\ job \in [Jobs -> JobStatus \cup {"none"}]
      /\ at \in [Runs -> Places]
      /\ (at[r] # "idle" => job_of[r] = j)
  BY DEF IngestionInv, IngestionTypes, DocumentTypes, RunTypes
<1>m. Mirror(j) /\ Fresh(r, j) /\ (at[r] # "idle" => document # "absent")
  BY DEF OneAtATime, Waiting
<1>e. ASSUME NEW arq_job, at[r] # "idle", End(r, arq_job), UNCHANGED tables, Elsewhere
      PROVE  OneAtATime(j)'
  BY <1>e, <1>m, Ends, MirrorKept DEF tables
<1>s. ASSUME NEW status \in {"READY", "FAILED"}, NEW arq_job, at[r] # "idle",
             End(r, arq_job), Settle(job_of[r], status), Elsewhere
      PROVE  OneAtATime(j)'
  <2>1. Mirror(j)' /\ document' # "absent"
    BY <1>s, <1>t DEF Settle, Mirror
  <2> QED BY <1>s, <2>1, Ends
<1>g. ASSUME NEW place \in Places \ {"idle", "document loaded", "loaded", "marking"}, at[r] # "idle",
             Goto(r, place), UNCHANGED queue, UNCHANGED <<document, job>>, Elsewhere
      PROVE  OneAtATime(j)'
  <2>1. Mirror(j)' /\ document' # "absent"
    BY <1>g, <1>m DEF Mirror
  <2>2. at'[r] = place
    BY <1>g, <1>t DEF Goto
  <2>3. Fresh(r, j)'
    BY <2>2 DEF Fresh
  <2> QED BY <1>g, <2>1, <2>3, GoesOn
<1>1. CASE LoadDocument(r)
  <2>1. CASE Deleted
    BY <1>1, <1>e, <2>1 DEF LoadDocument
  <2>2. CASE ~Deleted
    <3>1. /\ Goto(r, "document loaded") /\ UNCHANGED queue /\ UNCHANGED tables /\ Elsewhere
          /\ at[r] # "idle" /\ seen_document'[r] = document
      BY <1>1, <1>t, <2>2 DEF LoadDocument
    <3>2. Mirror(j)' /\ document' # "absent"
      BY <1>m, <3>1, MirrorKept DEF tables
    <3>3. at'[r] = "document loaded"
      BY <1>t, <3>1 DEF Goto
    <3>4. Fresh(r, j)'
      BY <3>1, <3>3 DEF Fresh, tables
    <3> QED BY <3>1, <3>2, <3>4, GoesOn DEF Places
  <2> QED BY <2>1, <2>2
<1>2. CASE LoadJob(r)
  <2>1. CASE Deleted
    BY <1>2, <1>e, <2>1 DEF LoadJob
  <2>2. CASE ~Deleted
    <3>1. /\ Goto(r, "loaded") /\ UNCHANGED queue /\ UNCHANGED tables /\ Elsewhere
          /\ at[r] = "document loaded" /\ seen_job'[r] = job[j] /\ UNCHANGED seen_document
      BY <1>2, <1>t, <2>2 DEF LoadJob
    <3>2. Mirror(j)' /\ document' # "absent"
      BY <1>m, <3>1, MirrorKept DEF tables
    <3>3. at'[r] = "loaded"
      BY <1>t, <3>1 DEF Goto
    <3>4. Fresh(r, j)'
      BY <1>m, <3>1, <3>3 DEF Fresh, tables
    <3> QED BY <3>1, <3>2, <3>4, GoesOn DEF Places
  <2> QED BY <2>1, <2>2
<1>3. CASE BeginProcessing(r)
  <2>1. seen_document[r] = document /\ seen_job[r] = job[j] /\ job_of[r] = j /\ document # "absent"
    BY <1>3, <1>m, <1>t DEF BeginProcessing, Fresh, Deleted
  <2>2. document' = "PROCESSING" /\ job'[j] = "PROCESSING"
    BY <1>3, <1>t, <2>1 DEF BeginProcessing
  <2>3. Mirror(j)' /\ document' # "absent"
    BY <2>2 DEF Mirror
  <2>4. at'[r] = "extracting"
    BY <1>3, <1>t DEF BeginProcessing, Goto
  <2>5. Fresh(r, j)'
    BY <2>4 DEF Fresh
  <2> QED BY <1>3, <2>3, <2>5, GoesOn DEF BeginProcessing, Places
<1>4. CASE Extract(r)
  BY <1>4, <1>g DEF Extract, Places
<1>5. CASE ExtractionFails(r)
  BY <1>5, <1>g DEF ExtractionFails, Places, tables
<1>6. CASE ListChunks(r)
  BY <1>6, <1>g DEF ListChunks, Places, tables
<1>7. CASE IndexChunks(r)
  BY <1>7, <1>g DEF IndexChunks, Places, tables
<1>8. CASE IndexingFails(r)
  BY <1>8, <1>g DEF IndexingFails, Places, tables
<1>9. CASE Finish(r)
  BY <1>9, <1>s DEF Finish
<1>10. CASE MarkFailed(r)
  BY <1>10, <1>s DEF MarkFailed
<1>11. CASE RecordAttempt(r)
  <2>1. /\ at[r] # "idle" /\ Elsewhere /\ UNCHANGED <<document, job>>
        /\ \/ End(r, "queued")
           \/ Goto(r, "tries spent") /\ UNCHANGED queue
    BY <1>11 DEF RecordAttempt
  <2>2. Mirror(j)' /\ document' # "absent"
    BY <1>m, <2>1 DEF Mirror
  <2> QED BY <1>g, <2>1, <2>2, Ends DEF Places
<1>12. CASE RecordAttemptFails(r)
  BY <1>12, <1>e DEF RecordAttemptFails
<1>13. CASE LoadFailed(r)
  <2>1. CASE Deleted
    BY <1>13, <1>e, <2>1 DEF LoadFailed
  <2>2. CASE ~Deleted
    <3>1. /\ Goto(r, "marking") /\ UNCHANGED queue /\ UNCHANGED tables /\ Elsewhere
          /\ at[r] # "idle" /\ seen_document'[r] = document /\ seen_job'[r] = job[j]
      BY <1>13, <1>t, <2>2 DEF LoadFailed
    <3>2. Mirror(j)' /\ document' # "absent"
      BY <1>m, <3>1, MirrorKept DEF tables
    <3>3. at'[r] = "marking"
      BY <1>t, <3>1 DEF Goto
    <3>4. Fresh(r, j)'
      BY <3>1, <3>3 DEF Fresh, tables
    <3> QED BY <3>1, <3>2, <3>4, GoesOn DEF Places
  <2> QED BY <2>1, <2>2
<1>14. CASE MarkJobFailed(r)
  <2>1. seen_document[r] = document /\ seen_job[r] = job[j] /\ job_of[r] = j /\ document # "absent"
    BY <1>14, <1>m, <1>t DEF MarkJobFailed, Fresh, Deleted
  <2>2. document' = "FAILED" /\ job'[j] = "FAILED"
    BY <1>14, <1>t, <2>1 DEF MarkJobFailed
  <2>3. Mirror(j)' /\ document' # "absent"
    BY <2>2 DEF Mirror
  <2> QED BY <1>14, <2>3, Ends DEF MarkJobFailed
<1>15. CASE Escape(r)
  BY <1>15, <1>e DEF Escape
<1>16. CASE TimeOut(r)
  BY <1>16, <1>e DEF TimeOut
<1>17. CASE Crash(r)
  BY <1>17, <1>e DEF Crash
<1>18. CASE StageFails(r)
  BY <1>18, <1>g DEF StageFails, Places, tables
<1> QED
  BY <1>1, <1>2, <1>3, <1>4, <1>5, <1>6, <1>7, <1>8, <1>9, <1>10, <1>11, <1>12, <1>13, <1>14, <1>15,
     <1>16, <1>17, <1>18 DEF RunStep

(* A run starts on the job when nothing else does.                         *)
LEMMA Begins ==
  ASSUME NEW j, Jobs = {j}, IngestionInv, OneAtATime(j), NEW r \in Runs,
         NEW how \in {"inline", "worker"}, Start(r, j, how), UNCHANGED <<tables, upload_vars, cli, poll_vars>>,
         handed # {} \/ queue[j] = "queued", handed' = {},
         queue'[j] = IF how = "worker" THEN "running" ELSE "absent"
  PROVE  OneAtATime(j)'
<1>1. /\ at \in [Runs -> Places] /\ mode \in [Runs -> {"inline", "worker", "cli"}]
      /\ document # "absent" /\ upload = NoJob /\ \A s \in Runs : at[s] = "idle"
  BY DEF IngestionInv, IngestionTypes, RunTypes, OneAtATime, Waiting
<1>2. at'[r] = "starting" /\ mode'[r] = how /\ \A s \in Runs \ {r} : at'[s] = "idle"
  BY <1>1 DEF Start
<1>3. poll' = "idle" /\ Waiting(j)' /\ Mirror(j)'
  BY <1>1, MirrorKept DEF OneAtATime, Waiting, tables, poll_vars, upload_vars
<1>4. \A s \in Runs : Alone(s, j)' /\ Fresh(s, j)'
  BY <1>2 DEF Alone, Fresh
<1> QED BY <1>3, <1>4 DEF OneAtATime

LEMMA OrderlyKeeps ==
  ASSUME NEW j, Jobs = {j}, IngestionInv, OrderlyInv(j), [OrderlyNext]_<<vars, orderly>>
  PROVE  OrderlyInv(j)'
<1> SUFFICES ASSUME orderly' PROVE ~stale'[j] /\ ~(j \in handed' /\ queue'[j] # "absent") /\ OneAtATime(j)'
  BY DEF OrderlyInv
<1>o. orderly /\ ~stale[j] /\ ~(j \in handed /\ queue[j] # "absent") /\ OneAtATime(j)
  BY DEF OrderlyInv, OrderlyNext
<1>u. CASE UNCHANGED <<vars, orderly>>
  BY <1>o, <1>u DEF vars, tables, upload_vars, arq, run_vars, poll_vars,
                    OneAtATime, Mirror, Waiting, Alone, Fresh
<1> SUFFICES ASSUME Next, ~stale'[j], ~(j \in handed' /\ queue'[j] # "absent") PROVE OneAtATime(j)'
  BY <1>u DEF OrderlyNext
<1>t. /\ at \in [Runs -> Places] /\ mode \in [Runs -> {"inline", "worker", "cli"}]
      /\ job \in [Jobs -> JobStatus \cup {"none"}] /\ stale \in [Jobs -> BOOLEAN]
      /\ queue \in [Jobs -> {"absent", "queued", "running", "done"}]
      /\ upload \in {j, NoJob} /\ handed \subseteq {j} /\ j # NoJob
  BY JobsAssumption DEF IngestionInv, IngestionTypes, DocumentTypes, QueueTypes, RunTypes
<1>i. poll = "idle" /\ Mirror(j) /\ Waiting(j) /\ \A r \in Runs : Alone(r, j) /\ Fresh(r, j)
  BY <1>o DEF OneAtATime
<1>r. ASSUME UNCHANGED <<tables, run_vars, poll>>, Waiting(j)',
             \A r \in Runs : at[r] # "idle" => queue'[j] = queue[j]
      PROVE  OneAtATime(j)'
  BY <1>i, <1>r DEF OneAtATime, Mirror, Alone, Fresh, tables, run_vars
<1>1. CASE Enqueue
  <2>1. upload = j /\ document # "absent" /\ handed = {} /\ queue[j] = "absent" /\ \A r \in Runs : at[r] = "idle"
    BY <1>1, <1>i, <1>t DEF Enqueue, Waiting
  <2>2. UNCHANGED <<tables, run_vars, poll>> /\ upload' = NoJob
    BY <1>1 DEF Enqueue, poll_vars
  <2>3. Waiting(j)'
    BY <2>1, <2>2 DEF Waiting, tables, run_vars
  <2> QED BY <1>r, <2>1, <2>2, <2>3
<1>2. CASE LoseUpload
  BY <1>2, <1>i, <1>r DEF LoseUpload, Waiting, tables, run_vars, poll_vars, arq
<1>3. CASE ListReady
  BY <1>3, <1>i, <1>r DEF ListReady, Waiting, tables, run_vars, poll_vars, arq, upload_vars
<1>4. CASE Poll
  BY <1>4, <1>i, <1>o DEF Poll, PollJob, PollDocument, ReconcileStaleJob
<1>5. CASE DeleteWorkspace
  BY <1>5, <1>i DEF DeleteWorkspace, OneAtATime, Mirror, Waiting, Alone, Fresh,
                    upload_vars, arq, run_vars, poll_vars
<1>6. CASE Upload(j)
  <2>1. /\ upload = NoJob /\ handed = {} /\ queue[j] = "absent" /\ \A r \in Runs : at[r] = "idle"
    BY <1>6, <1>i DEF Upload, Waiting
  <2>2. Mirror(j)' /\ Waiting(j)' /\ poll' = "idle"
    BY <1>6, <1>i, <1>t, <2>1 DEF Upload, Mirror, Waiting, arq, run_vars, poll_vars
  <2>3. \A r \in Runs : Alone(r, j)' /\ Fresh(r, j)'
    BY <1>6, <2>1 DEF Upload, Alone, Fresh, run_vars
  <2> QED BY <2>2, <2>3 DEF OneAtATime
<1>7. CASE DropJob(j)
  <2>1. \A r \in Runs : at[r] = "idle"
    BY <1>7, <1>i DEF DropJob, Waiting
  <2>2. Waiting(j)' /\ UNCHANGED <<tables, run_vars, poll>>
    BY <1>7, <1>i, <2>1 DEF DropJob, Waiting, tables, upload_vars, run_vars, poll_vars
  <2> QED BY <1>r, <2>1, <2>2
<1>8. CASE Age(j)
  BY <1>8, <1>t DEF Age
<1>9. ASSUME NEW r \in Runs, StartInline(r) PROVE OneAtATime(j)'
  <2>1. /\ Start(r, j, "inline") /\ handed = {j} /\ handed' = {}
        /\ UNCHANGED <<tables, upload_vars, arq, cli, poll_vars>>
    BY <1>9, <1>t DEF StartInline
  <2>2. queue'[j] = "absent"
    BY <1>o, <2>1 DEF arq
  <2> QED BY <1>o, <2>1, <2>2, Begins
<1>10. ASSUME NEW r \in Runs, StartWorker(r) PROVE OneAtATime(j)'
  <2>1. /\ Start(r, j, "worker") /\ queue[j] = "queued" /\ queue'[j] = "running"
        /\ UNCHANGED <<tables, upload_vars, handed, cli, poll_vars>>
    BY <1>10, <1>t DEF StartWorker
  <2>2. handed' = {}
    BY <1>o, <1>t, <2>1
  <2> QED BY <1>o, <2>1, <2>2, Begins
<1>11. ASSUME NEW r \in Runs, Backfill(r) PROVE OneAtATime(j)'
  <2>1. document # "absent" /\ (~Deleted => job[j] # "none")
    BY <1>11, <1>i, <1>t DEF Backfill, Waiting, Mirror, Deleted, IngestionInv, IngestionTypes,
                            DocumentTypes, DocumentStatus
  <2>2. UNCHANGED <<tables, run_vars, poll, upload, handed, arq>> /\ cli' = "idle"
    BY <1>11, <2>1 DEF Backfill, tables, poll_vars
  <2>3. Waiting(j)'
    BY <1>i, <2>2 DEF Waiting, tables, run_vars, arq
  <2> QED BY <1>r, <2>2, <2>3 DEF arq
<1>12. ASSUME NEW r \in Runs, RunStep(r) PROVE OneAtATime(j)'
  BY <1>12, <1>o, RunStepMirrors
<1> QED
  BY <1>1, <1>2, <1>3, <1>4, <1>5, <1>6, <1>7, <1>8, <1>9, <1>10, <1>11, <1>12 DEF Next

(* pipeline.py:166-241, worker.py, services/documents.py:95-128: with one  *)
(* job, delivered once and never stale, document and job settle in one     *)
(* step whatever fails, for any number of runs and tries.                  *)
THEOREM JobFollowsDocument ==
  ASSUME NEW j, Jobs = {j}
  PROVE  OrderlySpec => []JobMirrorsDocument
<1>1. OrderlyInit => IngestionInv /\ OrderlyInv(j)
  BY IngestionStarts, OrderlyStarts DEF OrderlyInit
<1>2. IngestionInv /\ OrderlyInv(j) /\ [OrderlyNext]_<<vars, orderly>>
        => (IngestionInv /\ OrderlyInv(j))'
  <2> SUFFICES ASSUME IngestionInv, OrderlyInv(j), [OrderlyNext]_<<vars, orderly>>
               PROVE  IngestionInv' /\ OrderlyInv(j)'
    OBVIOUS
  <2>1. [Next]_vars
    BY DEF OrderlyNext
  <2> QED BY <2>1, IngestionKeeps, OrderlyKeeps
<1>3. IngestionInv /\ OrderlyInv(j) => JobMirrorsDocument
  BY DEF OrderlyInv, OneAtATime, Mirror, JobMirrorsDocument
<1> QED BY <1>1, <1>2, <1>3, PTL DEF OrderlySpec

=============================================================================
