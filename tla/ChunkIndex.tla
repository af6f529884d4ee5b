------------------------------ MODULE ChunkIndex ------------------------------
(***************************************************************************)
(* The index of one document: its chunk rows in PostgreSQL and its points  *)
(* in Qdrant, as runs of _index_chunks replace them.  Rows are written in  *)
(* the run's transaction and visible at its commit; points at once.        *)
(*                                                                         *)
(* Releases differ in what chunk_pages returns, and the text of a document *)
(* never changes.  A chunk id is a hash of the document, the index and the *)
(* text, so it is <<index, first line, last line>> (no two passages of a   *)
(* text are alike).  How a run is started, retried and given up is the     *)
(* business of module Ingestion; here it may be lost anywhere.             *)
(*                                                                         *)
(* PostgreSQL is external: writers of one id or of one (document, index)   *)
(* key wait for each other; a deadlock is one more error of the database.  *)
(***************************************************************************)
EXTENDS Chunking, FiniteSets

CONSTANTS
  Texts,       (* texts the document may have                               *)
  Releases,    (* the chunker's limits, release by release                  *)
  Runs,        (* concurrent executions of process_document                 *)
  MaxRuns      (* bound: executions begun                                   *)

ASSUME TextsAssumption ==
  \A t \in Texts :
    t \in Seq([page : Nat \ {0}, tokens : Nat \ {0}, clause : Seq(Nat)]) /\ t # <<>>
ASSUME ReleasesAssumption == Releases \in Seq(Limits) /\ Releases # <<>>
ASSUME BoundAssumption == MaxRuns \in Nat

VARIABLES
  text,      (* the document's extracted lines                              *)
  status,    (* documents.status                                            *)
  rows,      (* committed rows of chunks                                    *)
  points,    (* ids of the points in Qdrant                                 *)
  orphaned,  (* history: ids whose point a run deleted that never committed,*)
             (* or that another run had just upserted and was about to mark *)
  release,   (* the release deployed: what a new run executes               *)
  begun,     (* runs begun so far                                           *)
  at,        (* where each run is                                           *)
  runs_on,   (* the release each run executes                               *)
  loop,      (* the variables of its chunk_pages                            *)
  existing,  (* the rows list_by_document returned to it                    *)
  pending    (* what its transaction has written: ids removed, rows         *)
             (* refreshed, rows inserted, ids marked as embedded            *)

document == <<text, status, rows, points, orphaned, release, begun>>
locals == <<at, runs_on, loop, existing, pending>>
vars == <<document, locals>>

Nothing == [removed |-> {}, refreshed |-> {}, inserted |-> {}, marked |-> {}]

IdsOf(rs) == {x.id : x \in rs}

(* The rows of a list of drafts, as they are inserted.                     *)
RowsOf(drafts) ==
  {[id |-> <<k, drafts[k].from, drafts[k].to>>, parent |-> drafts[k].parent,
    embedded |-> FALSE] : k \in 1..Len(drafts)}

Chunks(t, v) == RowsOf(chunk_pages(t, Releases[v]))

(* A new document, or one the first release indexed before chunks had a    *)
(* lineage, with or without embeddings.                                    *)
Init ==
  /\ text \in Texts
  /\ release = 1 /\ begun = 0 /\ orphaned = {}
  /\ \/ status = "PENDING" /\ rows = {} /\ points = {}
     \/ \E embedded \in BOOLEAN :
          /\ status = "READY"
          /\ rows = {[x EXCEPT !.parent = NoClause, !.embedded = embedded] : x \in Chunks(text, 1)}
          /\ points = IF embedded THEN IdsOf(rows) ELSE {}
  /\ at = [r \in Runs |-> "idle"] /\ runs_on = [r \in Runs |-> 1]
  /\ loop = [r \in Runs |-> Start] /\ existing = [r \in Runs |-> {}]
  /\ pending = [r \in Runs |-> Nothing]

-----------------------------------------------------------------------------
(* What a run works on.                                                    *)

Drafted(r) == RowsOf(loop[r].drafts)
Stale(r) == {x \in existing[r] : x.id \notin IdsOf(Drafted(r))}
New(r) == {d \in Drafted(r) : d.id \notin IdsOf(existing[r])}
(* Surviving rows whose lineage differs, with the one they should have.    *)
Refreshed(r) ==
  {d \in Drafted(r) : \E x \in existing[r] : x.id = d.id /\ x.parent # d.parent}
(* Fault: only chunks new to this run are embedded.                        *)
ToEmbedNew(r) == IdsOf(New(r))
ToEmbed(r) ==
  IdsOf(New(r)) \cup {x.id : x \in {y \in existing[r] :
                                       ~y.embedded /\ y.id \in IdsOf(Drafted(r))}}

(* chunk_index of the rows and keys an uncommitted transaction holds.      *)
Held(s) ==
  LET p == pending[s]
  IN {i[1] : i \in p.removed \cup p.marked \cup IdsOf(p.refreshed) \cup IdsOf(p.inserted)}

Free(r, ids) == \A s \in Runs \ {r} : {i[1] : i \in ids} \cap Held(s) = {}

Forget(r) ==
  /\ at' = [at EXCEPT ![r] = "idle"]
  /\ runs_on' = [runs_on EXCEPT ![r] = 1]
  /\ loop' = [loop EXCEPT ![r] = Start]
  /\ existing' = [existing EXCEPT ![r] = {}]
  /\ pending' = [pending EXCEPT ![r] = Nothing]

-----------------------------------------------------------------------------
(* One run of process_document.                                            *)

Begin(r) ==
  /\ at[r] = "idle" /\ begun < MaxRuns
  /\ begun' = begun + 1
  /\ at' = [at EXCEPT ![r] = "chunking"]
  /\ runs_on' = [runs_on EXCEPT ![r] = release]
  /\ status' = "PROCESSING"
  /\ UNCHANGED <<text, rows, points, orphaned, release, loop, existing, pending>>

(* chunk_pages, line by line.                                              *)
ChunkLine(r) ==
  /\ at[r] = "chunking" /\ loop[r].line <= Len(text)
  /\ loop' = [loop EXCEPT ![r] = ReadLine(@, text[@.line], Releases[runs_on[r]])]
  /\ UNCHANGED <<document, at, runs_on, existing, pending>>

(* The last flush, and the rows there are by now.                          *)
ListChunks(r) ==
  /\ at[r] = "chunking" /\ loop[r].line > Len(text)
  /\ at' = [at EXCEPT ![r] = "listed"]
  /\ loop' = [loop EXCEPT ![r] = Flush(@)]
  /\ existing' = [existing EXCEPT ![r] = rows]
  /\ UNCHANGED <<document, runs_on, pending>>

Touched(r) == IdsOf(Stale(r) \cup Refreshed(r) \cup New(r))

(* The flush fails when a row to refresh is gone (StaleDataError), or an   *)
(* id or index to insert is taken (IntegrityError).                        *)
Replaceable(r) ==
  /\ IdsOf(Refreshed(r)) \subseteq IdsOf(rows)
  /\ \A x \in rows \ Stale(r) : x.id \notin IdsOf(Stale(r)) =>
       \A n \in New(r) : n.id[1] # x.id[1]

(* Fault: no unique key over (document, index), only over the id.          *)
ReplaceChunksById(r) ==
  /\ at[r] = "listed" /\ Free(r, Touched(r))
  /\ IdsOf(Refreshed(r)) \subseteq IdsOf(rows) /\ IdsOf(New(r)) \cap IdsOf(rows) = {}
  /\ at' = [at EXCEPT ![r] = "written"]
  /\ pending' = [pending EXCEPT ![r] =
       [removed |-> IdsOf(Stale(r)), refreshed |-> Refreshed(r), inserted |-> New(r),
        marked |-> {}]]
  /\ UNCHANGED <<document, runs_on, loop, existing>>

(* DELETE of the stale rows, UPDATE of the lineage, INSERT of the new.     *)
ReplaceChunks(r) ==
  /\ at[r] = "listed" /\ Free(r, Touched(r)) /\ Replaceable(r)
  /\ at' = [at EXCEPT ![r] = "written"]
  /\ pending' = [pending EXCEPT ![r] =
       [removed |-> IdsOf(Stale(r)), refreshed |-> Refreshed(r), inserted |-> New(r),
        marked |-> {}]]
  /\ UNCHANGED <<document, runs_on, loop, existing>>

(* Points other runs have upserted and not marked yet.                     *)
Unmarked(r) == UNION {ToEmbed(s) : s \in {q \in Runs \ {r} : at[q] = "embedded"}}

(* The stale points go, or Qdrant fails and the run goes on.               *)
DeleteVectors(r) ==
  /\ at[r] = "written"
  /\ at' = [at EXCEPT ![r] = "replaced"]
  /\ points' \in {points, points \ IdsOf(Stale(r))}
  /\ orphaned' = orphaned \cup ((points \ points') \cap Unmarked(r))
  /\ UNCHANGED <<text, status, rows, release, begun, runs_on, loop, existing, pending>>

(* Nothing to embed, no client, or a failing one: whether the points of a  *)
(* failed call arrived is not known, the rows are not marked.              *)
EmbedNothing(r) ==
  /\ at[r] = "replaced"
  /\ at' = [at EXCEPT ![r] = "indexed"]
  /\ points' \in {points, points \cup ToEmbed(r)}
  /\ UNCHANGED <<text, status, rows, orphaned, release, begun, runs_on, loop, existing, pending>>

(* Fault: a failed upsert goes unnoticed.                                  *)
EmbedUnconfirmed(r) ==
  /\ at[r] = "replaced" /\ ToEmbed(r) # {}
  /\ at' = [at EXCEPT ![r] = "embedded"]
  /\ points' \in {points, points \cup ToEmbed(r)}
  /\ UNCHANGED <<text, status, rows, orphaned, release, begun, runs_on, loop, existing, pending>>

Embed(r) ==
  /\ at[r] = "replaced" /\ ToEmbed(r) # {}
  /\ at' = [at EXCEPT ![r] = "embedded"]
  /\ points' = points \cup ToEmbed(r)
  /\ UNCHANGED <<text, status, rows, orphaned, release, begun, runs_on, loop, existing, pending>>

MarkEmbedded(r) ==
  /\ at[r] = "embedded" /\ Free(r, ToEmbed(r))
  /\ at' = [at EXCEPT ![r] = "indexed"]
  /\ pending' = [pending EXCEPT ![r].marked = ToEmbed(r)]
  /\ UNCHANGED <<document, runs_on, loop, existing>>

(* The commit: chunks, document and job.                                   *)
Committed(r) ==
  LET p == pending[r]
      parent(x) == IF x.id \in IdsOf(p.refreshed)
                   THEN (CHOOSE d \in p.refreshed : d.id = x.id).parent ELSE x.parent
  IN {[id |-> x.id, parent |-> parent(x), embedded |-> x.embedded \/ x.id \in p.marked] :
        x \in {y \in rows : y.id \notin p.removed} \cup p.inserted}

Finish(r) ==
  /\ at[r] = "indexed"
  /\ rows' = Committed(r)
  /\ status' = "READY"
  /\ Forget(r)
  /\ UNCHANGED <<text, points, orphaned, release, begun>>

(* A run that ends without its commit: the rows it wrote are rolled back,  *)
(* what it did to the points stays.                                        *)
Lost(r) ==
  /\ orphaned' = orphaned \cup
       (IF at[r] \in {"replaced", "embedded", "indexed"} THEN IdsOf(Stale(r)) \ points ELSE {})
  /\ Forget(r)
  /\ UNCHANGED <<text, rows, points, release, begun>>

(* A database error: the document is FAILED, or PROCESSING until a retry.  *)
Fail(r) ==
  /\ at[r] # "idle"
  /\ Lost(r) /\ status' \in {"PROCESSING", "FAILED"}

Crash(r) ==
  /\ at[r] # "idle"
  /\ Lost(r) /\ UNCHANGED status

Deploy ==
  /\ release < Len(Releases)
  /\ release' = release + 1
  /\ UNCHANGED <<text, status, rows, points, orphaned, begun, locals>>

RollBack ==
  /\ release > 1
  /\ release' = release - 1
  /\ UNCHANGED <<text, status, rows, points, orphaned, begun, locals>>

Next ==
  \/ Deploy \/ RollBack
  \/ \E r \in Runs :
       \/ Begin(r) \/ ChunkLine(r) \/ ListChunks(r) \/ ReplaceChunks(r) \/ DeleteVectors(r)
       \/ EmbedNothing(r) \/ Embed(r) \/ MarkEmbedded(r) \/ Finish(r) \/ Fail(r) \/ Crash(r)

Spec == Init /\ [][Next]_vars

-----------------------------------------------------------------------------
(* Properties of the chunker.                                              *)

Following(drafts) == IF drafts = <<>> THEN 1 ELSE drafts[Len(drafts)].to + 1

(* Whatever the text and the limits, the chunks and the open chunk are     *)
(* consecutive passages of all lines read: no line is lost or repeated.    *)
Covers(s) ==
  /\ \A k \in 1..Len(s.drafts) :
       /\ s.drafts[k].from <= s.drafts[k].to
       /\ s.drafts[k].from = IF k = 1 THEN 1 ELSE s.drafts[k - 1].to + 1
  /\ IF IsOpen(s)
     THEN /\ s.current.from = Following(s.drafts)
          /\ s.current.from <= s.current.to /\ s.current.to = s.line - 1
     ELSE s.line = Following(s.drafts)

ChunksCoverText == \A r \in Runs : Covers(loop[r])

(* processing/chunking.py:105-107, by what a chunk's lines say: it closes  *)
(* when it is large enough and not before it can stand alone, and the last *)
(* line alone can take it over the limits.                                 *)
Sums(t) ==
  LET sum[n \in 0..Len(t)] == IF n = 0 THEN 0 ELSE sum[n - 1] + t[n].tokens
  IN sum

Tokens(from, to) == Sums(text)[to] - Sums(text)[from - 1]

WellSized(d, c, last) ==
  /\ d.tokens = Tokens(d.from, d.to)
  /\ ~last => d.tokens >= c.min
  /\ d.from < d.to =>
       LET before == Tokens(d.from, d.to - 1)
       IN before < c.soft /\ (d.tokens > c.max => before < c.min)
  /\ \A n \in (d.from + 1)..d.to : text[n].clause # NoClause => Tokens(d.from, n - 1) < c.min

(* A chunk is filed under the clause in force at its first line, below the *)
(* nearest ancestor printed by then, on the pages its lines are on.        *)
WellFiled(d) ==
  LET headed == {n \in 1..d.from : text[n].clause # NoClause}
      known == {text[n].clause : n \in 1..d.to} \cap clause_ancestors(d.clause)
  IN /\ d.clause = IF headed = {} THEN NoClause
                   ELSE text[CHOOSE n \in headed : \A m \in headed : m <= n].clause
     /\ IF known = {} THEN d.parent = NoClause
        ELSE d.parent \in known /\ \A q \in known : Len(q) <= Len(d.parent)
     /\ d.page_start = text[d.from].page /\ d.page_end = text[d.to].page

ChunksAreWellFormed ==
  \A r \in Runs : at[r] \notin {"idle", "chunking"} =>
    LET drafts == loop[r].drafts IN
    \A k \in 1..Len(drafts) :
      WellSized(drafts[k], Releases[runs_on[r]], k = Len(drafts)) /\ WellFiled(drafts[k])

-----------------------------------------------------------------------------
(* Properties of the index.                                                *)

Identity(rs) == {<<x.id, x.parent>> : x \in rs}

(* The committed rows of a document are always one release's chunking of   *)
(* the whole of it, never a mixture, however runs of two releases overlap, *)
(* fail or are killed, "so a retried or re-run job overwrites cleanly"     *)
(* (processing/pipeline.py:199).  With three releases overlapping runs can *)
(* leave a mixture: a run does not lock the rows it keeps.                 *)
RowsAreOneChunking ==
  \/ rows = {}
  \/ \E v \in 1..Len(Releases) :
       \/ Identity(rows) = Identity(Chunks(text, v))
       \/ Identity(rows) = {<<x.id, NoClause>> : x \in Chunks(text, v)}

(* A chunk marked as embedded has its point whenever nothing is in flight, *)
(* save where a run was lost between deleting points and committing rows,  *)
(* or deleted points between another run's upsert and its mark.            *)
EmbeddedHasPoint ==
  (\A r \in Runs : at[r] = "idle") =>
    \A x \in rows : x.embedded => x.id \in points \cup orphaned

(* What an outage left unembedded, the next run whose embedding succeeds   *)
(* embeds (processing/pipeline.py:156-157): of the chunks of its own       *)
(* chunking none is left out of the semantic search, but for those it had  *)
(* listed as embedded and other runs have dropped and inserted again.      *)
OutagesAreRepaired ==
  [][\A r \in Runs :
       (Finish(r) /\ pending[r].marked # {}) =>
         \A x \in rows' : x.id \in IdsOf(Drafted(r)) =>
            \/ x.embedded
            \/ \E y \in existing[r] : y.id = x.id /\ y.embedded]_vars

-----------------------------------------------------------------------------
(* What the repository says of the code and the code does not do.          *)

(* docs/12_RELEASE_RUNBOOK.md:201-202: vectors need no invalidation on a   *)
(* rollback, so a READY document at rest has the points of its chunks.     *)
VectorsOutliveRollback ==
  (status = "READY" /\ \A r \in Runs : at[r] = "idle") =>
    \A x \in rows : x.embedded => x.id \in points

=============================================================================
