---------------------------- MODULE DocumentsClient ----------------------------
(***************************************************************************)
(* The web client of ingestion: the workspace page with its documents      *)
(* table, the upload button, and the watchers that poll the jobs of the    *)
(* uploads, over the requests of Accounts.                                 *)
(*                                                                         *)
(* One workspace is followed.  Of a document only its status is on display;*)
(* document and job are one status here (Ingestion tells them apart).  The *)
(* queries followed are the workspace's documents and one per job; each    *)
(* has one request under way at most.  The requests of the other queries   *)
(* and clients matter until the default admin exists.                      *)
(***************************************************************************)
EXTENDS Accounts, Naturals

CONSTANTS
  Documents,    (* what is uploaded to the workspace; each names its job    *)
  Others,       (* the other requests ever made before there is an admin    *)
  MaxTries,     (* job_max_tries                                            *)
  MaxFaults     (* bound: requests and answers that are lost                *)

Queries == {"documents"} \cup Documents

ASSUME RequestsAssumption == Requests = Queries \cup Others /\ Queries \cap Others = {}

ASSUME BoundsAssumption == MaxTries \in Nat /\ MaxFaults \in Nat

(* PENDING and PROCESSING, READY and FAILED are treated alike by the client.*)
Status == {"absent", "active", "settled"}

(* A query of the cache; retried: its fetch under way is at the second     *)
(* attempt.                                                                *)
Query ==
  [loaded: BOOLEAN, error: BOOLEAN, data: [Documents -> Status],
   fetch: {"idle", "asked", "answered"}, retried: BOOLEAN, answer: [Documents -> Status]]

VARIABLES
  status,       (* server: of each document and its job                     *)
  run,          (* the job's process_document: none, waiting, running, over *)
  tries,        (* times it has begun                                       *)
  page,         (* workspace, other (another's) or dashboard                *)
  upload,       (* the upload button's mutation                             *)
  tracked,      (* useUploadTracker: activeJobs                             *)
  cache,
  announced,    (* history: settled on the workspace's own page over a      *)
                (* loaded table, and not begun again since                  *)
  faults

server_vars == <<status, run, tries>>
client_vars == <<page, upload, tracked, cache, announced>>
vars == <<account_vars, server_vars, client_vars, faults>>

Nothing == [d \in Documents |-> "absent"]

Empty ==
  [loaded |-> FALSE, error |-> FALSE, data |-> Nothing,
   fetch |-> "idle", retried |-> FALSE, answer |-> Nothing]

-----------------------------------------------------------------------------
(* What is mounted.                                                        *)

(* activeJobs is the client's, not the workspace's: any workspace's page   *)
(* watches all of it.                                                      *)
Watching(d) == d \in tracked /\ page # "dashboard"

Mounted(q) == IF q = "documents" THEN page # "other" ELSE Watching(q)

-----------------------------------------------------------------------------
(* The query cache (TanStack Query).                                       *)

(* An error is forgotten by the next fetch if there never was data.        *)
Asked(entry) ==
  [entry EXCEPT !.fetch = "asked", !.retried = FALSE, !.answer = Nothing,
                !.error = @ /\ entry.loaded]

Fetch(qs) == Replace(qs, {})

Idle(qs) == {q \in qs : cache[q].fetch = "idle"}

(* Queries that mount are fetched, unless they are being fetched; one that *)
(* is invalidated once more, if there is data to show meanwhile.           *)
Refetch(mounting, invalid) ==
  LET qs == Idle(mounting) \cup Idle(invalid) \cup {q \in invalid : cache[q].loaded} IN
  /\ cache' = [q \in Queries |-> IF q \in qs THEN Asked(cache[q]) ELSE cache[q]]
  /\ Fetch(qs)

DocumentsIfMounted == {q \in {"documents"} : Mounted(q)}

DocumentsInit ==
  /\ AccountInit
  /\ status = Nothing /\ run = [d \in Documents |-> "none"]
  /\ tries = [d \in Documents |-> 0]
  /\ page = "dashboard" /\ upload = [d \in Documents |-> "none"] /\ tracked = {}
  /\ cache = [q \in Queries |-> Empty]
  /\ announced = {} /\ faults = 0

(* The user is there: found, or about to be.                               *)
Admitted(r) == request[r] = "authorized" \/ (request[r] = "sent" /\ Known)

Ask(r) ==
  /\ r \in Others /\ ~Known /\ request[r] = "none" /\ Replace({r}, {})
  /\ UNCHANGED <<server_vars, client_vars, faults>>

Bootstraps(r) ==
  /\ ~Admitted(r) /\ Bootstrap(r)
  /\ UNCHANGED <<server_vars, client_vars, faults>>

Return(r) ==
  /\ r \in Others
  /\ request[r] \in {"refused", "lost"} \/ Admitted(r)
  /\ Replace({}, {r})
  /\ UNCHANGED <<server_vars, client_vars, faults>>

LoseRequest(q) ==
  /\ faults < MaxFaults /\ faults' = faults + 1
  /\ Lose(q)
  /\ UNCHANGED <<server_vars, client_vars>>

(* Fault: the default options lose their retry.                            *)
RepeatsNever(q) == FALSE

(* A first attempt that fails is repeated, while somebody is interested.   *)
Repeats(q) == ~cache[q].retried /\ Mounted(q)

Retry(q) ==
  /\ request[q] \in {"refused", "lost"} /\ Repeats(q)
  /\ cache' = [cache EXCEPT ![q].retried = TRUE]
  /\ Fetch({q})
  /\ UNCHANGED <<server_vars, page, upload, tracked, announced, faults>>

FailFetch(q) ==
  /\ request[q] \in {"refused", "lost"} /\ ~Repeats(q)
  /\ cache' = [cache EXCEPT ![q].fetch = "idle", ![q].error = TRUE, ![q].retried = FALSE]
  /\ Replace({}, {q})
  /\ UNCHANGED <<server_vars, page, upload, tracked, announced, faults>>

(* What the endpoint of a query returns: the documents, or one job.        *)
Read(q) == [d \in Documents |-> IF q \in {"documents", d} THEN status'[d] ELSE "absent"]

Answer(q) ==
  /\ Admitted(q)
  /\ cache' = [cache EXCEPT ![q].fetch = "answered", ![q].answer = Read(q)]
  /\ Replace({}, {q})
  /\ UNCHANGED <<run, tries, page, upload, tracked, announced, faults>>

Current(q) == UNCHANGED status /\ Answer(q)

(* Fault: the job is read as it is.                                        *)
ReadStale(d) == status[d] = "active" /\ UNCHANGED status /\ Answer(d)

(* GET /jobs/{id} fails a job that has not been updated for long: a run    *)
(* that is waiting or has hung may have been so for long enough.           *)
Reconcile(d) ==
  /\ status[d] = "active"
  /\ status' = [status EXCEPT ![d] = "settled"]
  /\ Answer(d)

LoseAnswer(q) ==
  /\ cache[q].fetch = "answered"
  /\ faults < MaxFaults /\ faults' = faults + 1
  /\ cache' = [cache EXCEPT ![q].fetch = "asked", ![q].answer = Nothing]
  /\ MissAnswer(q)
  /\ UNCHANGED <<server_vars, page, upload, tracked, announced>>

Received(entry) == [Empty EXCEPT !.loaded = TRUE, !.data = entry.answer]

Receive(q) ==
  /\ cache[q].fetch = "answered"
  /\ cache' = [cache EXCEPT ![q] = Received(@)]
  /\ UNCHANGED <<account_vars, server_vars, page, upload, tracked, announced, faults>>

-----------------------------------------------------------------------------
(* The page.                                                               *)

(* Another page mounts; the dashboard is content with documents it has for *)
(* a while.                                                                *)
Visit(p) ==
  /\ p # page /\ page' = p
  /\ \/ p = "workspace" /\ Refetch({"documents"} \cup tracked, {})
     \/ p = "other" /\ Refetch(tracked, {})
     \/ p = "dashboard" /\ Refetch({"documents"}, {})
     \/ p = "dashboard" /\ cache["documents"].loaded /\ Refetch({}, {})
  /\ UNCHANGED <<server_vars, upload, tracked, announced, faults>>

(* The browser's reload: everything the client knows is gone.              *)
ReloadPage ==
  /\ page = "workspace"
  /\ tracked' = {} /\ upload' = [d \in Documents |-> "none"] /\ announced' = {}
  /\ cache' = [q \in Queries |-> IF q = "documents" THEN Asked(Empty) ELSE Empty]
  /\ Replace({"documents"}, Queries)
  /\ UNCHANGED <<server_vars, page, faults>>

(* Fault: only the tab that uploaded polls.                                *)
PollsUploads == page = "workspace" /\ tracked # {}

(* Polling: the table's while it shows a document that is being processed, *)
(* a watcher's until it has seen its job settled.                          *)
PollsDocuments ==
  page = "workspace" /\ \E d \in Documents : cache["documents"].data[d] = "active"

PollsJob(d) == Watching(d) /\ cache[d].data[d] # "settled"

Polls(q) ==
  IF q = "documents" THEN PollsDocuments ELSE q \in Documents /\ PollsJob(q)

Poll(q) ==
  /\ cache[q].fetch = "idle" /\ Polls(q)
  /\ Refetch({q}, {})
  /\ UNCHANGED <<server_vars, page, upload, tracked, announced, faults>>

(* The button the table shows in place of documents it could not load.     *)
RetryDocuments ==
  /\ page = "workspace" /\ cache["documents"].error /\ cache["documents"].fetch = "idle"
  /\ Refetch({"documents"}, {})
  /\ UNCHANGED <<server_vars, page, upload, tracked, announced, faults>>

(* The upload button; the mutation outlives the page that started it.      *)
(* Bound: nobody uploads before the first requests of others are over.     *)
Upload(d) ==
  /\ page = "workspace" /\ Known /\ \A r \in Others : request[r] = "none"
  /\ upload[d] = "none" /\ status[d] = "absent"
  /\ upload' = [upload EXCEPT ![d] = "accepted"]
  /\ status' = [status EXCEPT ![d] = "active"]
  /\ run' = [run EXCEPT ![d] = "waiting"]
  /\ UNCHANGED <<account_vars, tries, page, tracked, cache, announced, faults>>

Uploaded(d) ==
  /\ upload[d] = "accepted"
  /\ upload' = [upload EXCEPT ![d] = "none"]
  /\ tracked' = tracked \cup {d}
  /\ Refetch(IF page # "dashboard" THEN {d} ELSE {}, DocumentsIfMounted)
  /\ UNCHANGED <<server_vars, page, announced, faults>>

(* No answer came: nothing is tracked and nothing reloaded.                *)
UploadFails(d) ==
  /\ upload[d] = "accepted"
  /\ upload' = [upload EXCEPT ![d] = "none"]
  /\ UNCHANGED <<account_vars, server_vars, page, tracked, cache, announced, faults>>

(* History: what the announcement lets a user expect of the table.         *)
Witnessed(d) ==
  {c \in {d} : page = "workspace" /\ cache["documents"].loaded /\ status[d] = "settled"}

(* Fault: the table is not told.                                           *)
AnnounceOnly(d) ==
  /\ Watching(d) /\ cache[d].data[d] = "settled"
  /\ tracked' = tracked \ {d}
  /\ announced' = announced \cup Witnessed(d)
  /\ UNCHANGED <<account_vars, cache, server_vars, page, upload, faults>>

(* A watcher that sees its job settled says so, untracks it and reloads    *)
(* the documents of the workspace on display.                              *)
Announce(d) ==
  /\ Watching(d) /\ cache[d].data[d] = "settled"
  /\ tracked' = tracked \ {d}
  /\ announced' = announced \cup Witnessed(d)
  /\ Refetch({}, IF page = "workspace" THEN {"documents"} ELSE {})
  /\ UNCHANGED <<server_vars, page, upload, faults>>

-----------------------------------------------------------------------------
(* The server, as a client can tell it.                                    *)

ServerStep == UNCHANGED <<account_vars, page, upload, tracked, cache, faults>>

(* A run begins whatever has become of the job.                            *)
Begin(d) ==
  /\ run[d] = "waiting" /\ tries[d] < MaxTries
  /\ run' = [run EXCEPT ![d] = "running"]
  /\ tries' = [tries EXCEPT ![d] = @ + 1]
  /\ status' = [status EXCEPT ![d] = "active"]
  /\ announced' = announced \ {d}
  /\ ServerStep

End(d) ==
  /\ run[d] = "running"
  /\ run' = [run EXCEPT ![d] = "over"]
  /\ status' = [status EXCEPT ![d] = "settled"]
  /\ UNCHANGED <<tries, announced>> /\ ServerStep

(* It fails to be retried, or dies with its worker.                        *)
Interrupt(d) ==
  /\ run[d] = "running"
  /\ run' = [run EXCEPT ![d] = "waiting"]
  /\ UNCHANGED <<status, tries, announced>> /\ ServerStep

-----------------------------------------------------------------------------
QueryStep(q) ==
  Bootstraps(q) \/ Retry(q) \/ FailFetch(q) \/ Current(q) \/ Receive(q) \/ Poll(q)

DocumentsNext ==
  \/ \E q \in Queries : QueryStep(q) \/ LoseRequest(q) \/ LoseAnswer(q)
  \/ \E r \in Others : Ask(r) \/ Bootstraps(r) \/ Return(r)
  \/ \E p \in {"workspace", "other", "dashboard"} : Visit(p)
  \/ ReloadPage \/ RetryDocuments
  \/ \E d \in Documents :
       \/ Upload(d) \/ Uploaded(d) \/ UploadFails(d) \/ Announce(d)
       \/ Begin(d) \/ End(d) \/ Interrupt(d) \/ Reconcile(d)

Spec == DocumentsInit /\ [][DocumentsNext]_vars

(* Owed: requests are answered or fail, timers fire, effects run, time     *)
(* passes.  Not owed: anything a user or a worker does.                    *)
Fairness ==
  /\ \A q \in Queries : WF_vars(QueryStep(q))
  /\ \A r \in Others : WF_vars(Bootstraps(r))
  /\ \A d \in Documents : WF_vars(Announce(d)) /\ SF_vars(Reconcile(d))

FairSpec == Spec /\ Fairness

-----------------------------------------------------------------------------
(* Properties.                                                             *)

(* providers.tsx:13: the one retry of a query is enough for the first page *)
(* of a fresh installation, whose requests refuse each other while they    *)
(* create the default admin: without any other failure no error is shown.  *)
FirstPageLoads == faults = 0 => \A q \in Queries : Mounted(q) => ~cache[q].error

(* Once a watcher on the workspace's page has said that a document is      *)
(* ready or has failed, the table at rest there does not show it as being  *)
(* processed, whatever was being fetched when it said so.                  *)
AnnouncedIsShown ==
  \A d \in announced :
    page = "workspace" /\ cache["documents"].loaded /\ ~cache["documents"].error
      /\ cache["documents"].fetch = "idle"
    => cache["documents"].data[d] # "active"

(* While the page stays, a document that settles stops being shown as      *)
(* being processed, also for a client that does not watch its job.         *)
TableSettles ==
  \A d \in Documents :
    (cache["documents"].data[d] = "active" /\ status[d] = "settled")
      ~> (cache["documents"].data[d] # "active" \/ status[d] # "settled" \/ page # "workspace")

(* services/documents.py:105-106: an upload's watcher reports its end, and *)
(* stops polling, as long as a workspace page stays, whether or not a      *)
(* worker ever processes it.                                               *)
WatchersFinish == \A d \in Documents : (d \in tracked) ~> ~Watching(d)

=============================================================================
