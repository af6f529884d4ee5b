----------------------------- MODULE ReviewClient -----------------------------
(***************************************************************************)
(* The web client of evidence review: the Evidence Map and the Review      *)
(* Queue, which stay mounted beside each other, the review drawer that is  *)
(* opened over them, and the query cache all of them read from.            *)
(*                                                                         *)
(* One evidence item is followed.  On the server it is a version and a     *)
(* number of events: two reads with the same version are the same row      *)
(* (EvidenceReview proves that), so what its fields are is left out.  Other*)
(* reviewers and other extractions change it at any time.                  *)
(*                                                                         *)
(* A query is asked, read by the server and received in three steps, and   *)
(* so is a write.  Requests are answered in any order.                     *)
(***************************************************************************)
EXTENDS Naturals

CONSTANTS
  Writes,       (* mutations that can be under way at the same time         *)
  Followings,   (* the sets of queries a behaviour may be followed through  *)
  NoWrite,      (* the drawer waits for none                                *)
  Absent,       (* no row: not listed, or nothing loaded yet                *)
  MaxVersion,   (* bound: nobody starts to write at this version            *)
  MaxEvents     (* bound: or with this many events on record                *)

ASSUME NoWriteAssumption == NoWrite \notin Writes

ASSUME BoundsAssumption == MaxVersion \in Nat /\ MaxEvents \in Nat

Queries == {"evidence", "queue", "item", "history"}
Lists == {"evidence", "queue"}
DrawerQueries == {"item", "history"}

ASSUME FollowingsAssumption == \A f \in Followings : f \subseteq Queries

Row == [phase: {"live", "archived", "deleted"}, version: Nat, events: Nat]
Shown == [phase: {"live", "archived"}, version: Nat, events: Nat] \cup {Absent}

(* A query of the cache.  Until it is loaded its data is what is shown in  *)
(* its place: nothing, or for the queue the page of the previous filters.  *)
Query ==
  [loaded: BOOLEAN, error: BOOLEAN, data: Shown,
   fetch: {"idle", "asked", "answered"}, answer: Shown]

Kinds == {"decide", "comment", "edit", "extract"}

(* A mutation: the version on display when it was sent, and the row the    *)
(* server answered it with or refused it for.                              *)
Write ==
  [at: {"unused", "sent", "committed", "answered", "refused"},
   kind: Kinds, on: Nat, result: Row \cup {Absent}]

VARIABLES
  row,               (* server: the item                                    *)
  followed,          (* the queries followed, throughout a behaviour        *)
  cache,             (* the client's queries; the others stay empty         *)
  drawer,            (* is the drawer open on the item                      *)
  include_archived,  (* the queue's filter                                  *)
  busy,              (* the write this drawer shows as pending              *)
  write,             (* mutations under way                                 *)
  own,               (* history: per query, the least its data must show,   *)
                     (* by what the client was told of its own writes       *)
  won                (* history: and by what it was refused for             *)

view_vars == <<followed, drawer, include_archived, busy>>
history_vars == <<own, won>>
vars == <<row, cache, view_vars, write, history_vars>>

Unused == [at |-> "unused", kind |-> "comment", on |-> 0, result |-> Absent]

Empty ==
  [loaded |-> FALSE, error |-> FALSE, data |-> Absent, fetch |-> "idle", answer |-> Absent]

Asked(entry) == [entry EXCEPT !.fetch = "asked", !.answer = Absent]

Init ==
  /\ row = [phase |-> "live", version |-> 1, events |-> 0]
  /\ followed \in Followings
  /\ cache = [q \in Queries |-> IF q \in Lists \cap followed THEN Asked(Empty) ELSE Empty]
  /\ drawer = FALSE /\ include_archived = FALSE /\ busy = NoWrite
  /\ write = [w \in Writes |-> Unused]
  /\ own = [q \in Queries |-> 0] /\ won = [q \in Queries |-> 0]

Bounded == row.version < MaxVersion /\ row.events < MaxEvents

-----------------------------------------------------------------------------
(* The query cache (TanStack Query).                                       *)

Mounted(q) == q \in followed /\ (q \in Lists \/ drawer)

(* A query that mounts is fetched, unless it is being fetched.             *)
Mount(entry) == IF entry.fetch = "idle" THEN Asked(entry) ELSE entry

(* invalidateQueries fetches a mounted query again.  It gives up the fetch *)
(* under way, whose answer may be too old, but only if there is data to    *)
(* show meanwhile; a first load is joined.                                 *)
Invalidated(q) ==
  IF ~Mounted(q) THEN cache[q]
  ELSE IF cache[q].loaded THEN Asked(cache[q]) ELSE Mount(cache[q])

Invalidate(qs) ==
  cache' = [q \in Queries |-> IF q \in qs THEN Invalidated(q) ELSE cache[q]]

(* What the endpoint of a query returns of the item now.                   *)
Listed(q) == row.phase = "live" \/ (q = "queue" /\ include_archived /\ row.phase = "archived")

Read(q) ==
  CASE q = "history" -> [phase |-> "live", version |-> 0, events |-> row.events]
    [] q = "item" -> [row EXCEPT !.events = 0]
    [] OTHER -> IF Listed(q) THEN [row EXCEPT !.events = 0] ELSE Absent

AnswerQuery(q) ==
  /\ cache[q].fetch = "asked"
  /\ q \in DrawerQueries => row.phase # "deleted"
  /\ cache' = [cache EXCEPT ![q].fetch = "answered", ![q].answer = Read(q)]
  /\ UNCHANGED <<row, view_vars, write, history_vars>>

Receive(q) ==
  /\ cache[q].fetch = "answered"
  /\ cache' = [cache EXCEPT ![q] = [Empty EXCEPT !.loaded = TRUE, !.data = cache[q].answer]]
  /\ UNCHANGED <<row, view_vars, write, history_vars>>

(* The second attempt failed too, or the item is gone (404); what was      *)
(* loaded stays.                                                           *)
FailQuery(q) ==
  /\ cache[q].fetch # "idle"
  /\ cache' = [cache EXCEPT ![q].fetch = "idle", ![q].answer = Absent, ![q].error = TRUE]
  /\ UNCHANGED <<row, view_vars, write, history_vars>>

(* Back online, every mounted query is fetched again.                      *)
Reconnect ==
  /\ \E q \in Queries : Mounted(q) /\ cache[q].fetch = "idle"
  /\ cache' = [q \in Queries |-> IF Mounted(q) THEN Mount(cache[q]) ELSE cache[q]]
  /\ UNCHANGED <<row, view_vars, write, history_vars>>

(* An unused query is dropped after a while.                               *)
Collect(q) ==
  /\ ~Mounted(q) /\ cache[q].fetch = "idle" /\ cache[q] # Empty
  /\ cache' = [cache EXCEPT ![q] = Empty]
  /\ UNCHANGED <<row, view_vars, write, history_vars>>

-----------------------------------------------------------------------------
(* What the user does.  The drawer lies over the other panels but does not *)
(* hold the keyboard focus, so they stay usable.                           *)

(* Of a query that is not followed any earlier state may be on display.    *)
Displayed(q) == q \in followed => cache[q].data # Absent /\ ~cache[q].error

Shows(q, version) ==
  IF q \in followed
  THEN cache[q].data # Absent /\ cache[q].data.version = version
  ELSE version \in 1..row.version

OpenDrawer ==
  /\ ~drawer /\ Displayed("queue")
  /\ drawer' = TRUE
  /\ cache' = [q \in Queries |->
       IF q \in DrawerQueries \cap followed THEN Mount(cache[q]) ELSE cache[q]]
  /\ UNCHANGED <<row, followed, include_archived, busy, write, history_vars>>

(* Fetches and writes under way go on; a drawer opened later knows nothing *)
(* of a write that is pending.                                             *)
CloseDrawer ==
  /\ drawer
  /\ drawer' = FALSE /\ busy' = NoWrite
  /\ own' = [own EXCEPT !["item"] = 0, !["history"] = 0]
  /\ won' = [won EXCEPT !["item"] = 0, !["history"] = 0]
  /\ UNCHANGED <<row, followed, cache, include_archived, write>>

(* Other filters are another query; the page shown stays until it loads.   *)
ChangeFilters ==
  /\ "queue" \in followed
  /\ include_archived' \in BOOLEAN
  /\ cache' = [cache EXCEPT !["queue"] = Asked([Empty EXCEPT !.data = cache["queue"].data])]
  /\ own' = [own EXCEPT !["queue"] = 0]
  /\ won' = [won EXCEPT !["queue"] = 0]
  /\ UNCHANGED <<row, followed, drawer, busy, write>>

Send(w, kind, version) ==
  /\ write[w].at = "unused"
  /\ write' = [write EXCEPT ![w] =
       [Unused EXCEPT !.at = "sent", !.kind = kind, !.on = version]]

(* A button of the drawer, on the version it shows; an archived item has   *)
(* none, and a pending write disables them.                                *)
Review(w, kind, version) ==
  /\ drawer /\ busy = NoWrite
  /\ Shows("item", version)
  /\ "item" \in followed => cache["item"].data.phase = "live"
  /\ Send(w, kind, version)
  /\ busy' = w
  /\ UNCHANGED <<row, followed, cache, drawer, include_archived, history_vars>>

(* A select of the map; a pending edit does not disable it.                *)
Update(w, version) ==
  /\ Displayed("evidence") /\ Shows("evidence", version)
  /\ Send(w, "edit", version)
  /\ UNCHANGED <<row, cache, view_vars, history_vars>>

Extract(w) ==
  /\ \A v \in Writes :
       ~(write[v].at # "unused" /\ write[v].kind = "extract")
  /\ Send(w, "extract", 0)
  /\ UNCHANGED <<row, cache, view_vars, history_vars>>

-----------------------------------------------------------------------------
(* The server.                                                             *)

Edited(r) == [r EXCEPT !.version = @ + 1, !.events = @ + 1]
Commented(r) == [r EXCEPT !.events = @ + 1]

(* A re-extraction drops an item nobody has reviewed and archives others.  *)
Superseded(r) ==
  CASE r.phase # "live" -> r
    [] r.events = 0 -> [r EXCEPT !.phase = "deleted"]
    [] OTHER -> [Edited(r) EXCEPT !.phase = "archived"]

(* What review and update_item check, and the versioned UPDATE again.      *)
Accepts(w) ==
  \/ write[w].kind = "extract"
  \/ /\ row.phase # "deleted"
     /\ write[w].kind # "edit" => row.phase = "live"
     /\ write[w].on = row.version

Stored(w) ==
  CASE write[w].kind = "extract" -> Superseded(row)
    [] write[w].kind = "comment" -> Commented(row)
    [] OTHER -> Edited(row)

Commit(w) ==
  /\ write[w].at = "sent" /\ Accepts(w) /\ Bounded
  /\ row' = Stored(w)
  /\ write' = [write EXCEPT ![w].at = "committed",
       ![w].result = IF write[w].kind = "extract" THEN row' ELSE Absent]
  /\ UNCHANGED <<cache, view_vars, history_vars>>

(* A review or an edit is answered with the row as it is read again after  *)
(* the commit, if it is still there.                                       *)
Refresh(w) ==
  /\ write[w].at = "committed"
  /\ write[w].kind # "extract" => row.phase # "deleted"
  /\ write' = [write EXCEPT ![w].at = "answered",
                            ![w].result = IF write[w].kind = "extract" THEN @ ELSE row]
  /\ UNCHANGED <<row, cache, view_vars, history_vars>>

(* 409 stale_version.  An archived item is refused as such before versions *)
(* are compared, except by PATCH.                                          *)
RefuseStale(w) ==
  /\ write[w].at = "sent" /\ write[w].kind # "extract"
  /\ row.phase # "deleted"
  /\ write[w].kind # "edit" => row.phase = "live"
  /\ write[w].on # row.version
  /\ write' = [write EXCEPT ![w].at = "refused", ![w].result = row]
  /\ UNCHANGED <<row, cache, view_vars, history_vars>>

(* Others use the same endpoints, and delete workspaces with their items.  *)
Others ==
  /\ Bounded
  /\ \/ row.phase # "deleted" /\ row' \in {Edited(row), [row EXCEPT !.phase = "deleted"]}
     \/ row.phase = "live" /\ row' \in {Commented(row), Superseded(row)}
  /\ UNCHANGED <<cache, view_vars, write, history_vars>>

-----------------------------------------------------------------------------
(* Answers.                                                                *)

Number(q, r) == IF q = "history" THEN r.events ELSE r.version

(* What an answer that speaks of r tells a client about the queries qs.    *)
Told(known, qs, r) ==
  [q \in Queries |->
     IF q \in qs /\ Mounted(q) /\ cache[q].loaded /\ known[q] < Number(q, r)
     THEN Number(q, r) ELSE known[q]]

Done(w) ==
  /\ write' = [write EXCEPT ![w] = Unused]
  /\ busy' = IF busy = w THEN NoWrite ELSE busy
  /\ UNCHANGED <<row, followed, drawer, include_archived>>

Answered(w, kinds) == write[w].at = "answered" /\ write[w].kind \in kinds

(* Fault: the drawer reloads what it shows and forgets the other panels.   *)
ReviewSucceedsInDrawer(w) ==
  /\ Answered(w, {"decide", "comment"})
  /\ Invalidate(DrawerQueries)
  /\ own' = Told(own, Queries, write[w].result)
  /\ UNCHANGED won
  /\ Done(w)

ReviewSucceeds(w) ==
  /\ Answered(w, {"decide", "comment"})
  /\ Invalidate(Queries)
  /\ own' = Told(own, Queries, write[w].result)
  /\ UNCHANGED won
  /\ Done(w)

(* setQueryData: replaces the row where it is listed, leaves a fetch alone. *)
Put(entry, r) ==
  IF ~entry.loaded THEN entry
  ELSE [entry EXCEPT !.error = FALSE,
          !.data = IF @ = Absent THEN Absent ELSE [r EXCEPT !.events = 0]]

(* Fault: the answer is put in the drawer's query too.                     *)
UpdateSucceedsEverywhere(w) ==
  /\ Answered(w, {"edit"})
  /\ cache' = [q \in Queries |-> IF q \in {"evidence", "item"} THEN Put(cache[q], write[w].result)
                                  ELSE Invalidated(q)]
  /\ own' = [Told(own, Queries \ {"evidence"}, write[w].result) EXCEPT !["evidence"] = 0]
  /\ won' = [won EXCEPT !["evidence"] = 0]
  /\ Done(w)

(* The answer is put in the map as it is; an older answer that comes after *)
(* it, of a fetch or of another edit, replaces it.                         *)
UpdateSucceeds(w) ==
  /\ Answered(w, {"edit"})
  /\ cache' = [q \in Queries |-> IF q = "evidence" THEN Put(cache[q], write[w].result)
                                  ELSE Invalidated(q)]
  /\ own' = [Told(own, Queries \ {"evidence"}, write[w].result) EXCEPT !["evidence"] = 0]
  /\ won' = [won EXCEPT !["evidence"] = 0]
  /\ Done(w)

ExtractSucceeds(w) ==
  /\ Answered(w, {"extract"})
  /\ Invalidate(Lists)
  /\ own' = Told(own, Lists, write[w].result)
  /\ UNCHANGED won
  /\ Done(w)

(* Fault: the map reloads the queue in place of itself.                    *)
ReloadedElsewhere(kind) == IF kind = "edit" THEN {"queue"} ELSE {"item", "history", "queue"}

(* What a refusal for a stale version makes the panel that sent it reload. *)
Reloaded(kind) == IF kind = "edit" THEN {"evidence"} ELSE {"item", "history", "queue"}

(* The panel whose version was refused.                                    *)
Refused(kind) == IF kind = "edit" THEN {"evidence"} ELSE {"item"}

Conflict(w) ==
  /\ write[w].at = "refused"
  /\ Invalidate(Reloaded(write[w].kind))
  /\ won' = Told(won, Refused(write[w].kind), write[w].result)
  /\ UNCHANGED own
  /\ Done(w)

(* Every other failure is shown, and nothing is reloaded: the item is      *)
(* archived or gone, the write lost a race, the extraction failed, or the  *)
(* connection did; what the server still makes of the request is then like *)
(* a write of another client.                                              *)
Fails(w) ==
  /\ write[w].at # "unused"
  /\ Done(w)
  /\ UNCHANGED <<cache, own, won>>

-----------------------------------------------------------------------------
UserStep ==
  \/ OpenDrawer \/ CloseDrawer \/ ChangeFilters
  \/ \E w \in Writes : Extract(w)
  \/ \E w \in Writes, version \in 1..row.version :
       Update(w, version) \/ Review(w, "decide", version) \/ Review(w, "comment", version)

ServerStep(w) == Commit(w) \/ Refresh(w) \/ RefuseStale(w)

ClientStep(w) ==
  \/ ReviewSucceeds(w) \/ UpdateSucceeds(w) \/ ExtractSucceeds(w)
  \/ Conflict(w) \/ Fails(w)

QueryStep(q) == AnswerQuery(q) \/ Receive(q) \/ FailQuery(q) \/ Collect(q)

Next ==
  \/ UserStep \/ Others \/ Reconnect
  \/ \E w \in Writes : ServerStep(w) \/ ClientStep(w)
  \/ \E q \in Queries : QueryStep(q)

Spec == Init /\ [][Next]_vars

-----------------------------------------------------------------------------
(* Properties.                                                             *)

(* Every variable has the shape of what it stands for.                     *)
TypeOK ==
  /\ row \in Row
  /\ cache \in [Queries -> Query]
  /\ drawer \in BOOLEAN /\ include_archived \in BOOLEAN
  /\ busy \in Writes \cup {NoWrite}
  /\ write \in [Writes -> Write]
  /\ own \in [Queries -> Nat] /\ won \in [Queries -> Nat]

AtRest(q) ==
  Mounted(q) /\ cache[q].loaded /\ ~cache[q].error /\ cache[q].fetch = "idle"

AtLeast(q, n) == cache[q].data = Absent \/ n <= Number(q, cache[q].data)

(* PHASE_6_HANDOFF.md:93-94: after a stale_version refusal the panel that  *)
(* was refused shows, once it is loaded again, at least the version that   *)
(* won; in the map, unless the answer to an earlier edit comes in later.   *)
ShowsWhatWon == \A q \in Queries : AtRest(q) => AtLeast(q, won[q])

(* A client that was told its review, edit or extraction succeeded does    *)
(* not go on showing the state before it, whatever was being fetched when  *)
(* the answer came; except a query that was loading for the first time,    *)
(* and the map after its own inline edit.                                  *)
ReadsItsWrites == \A q \in Queries : AtRest(q) => AtLeast(q, own[q])

(* While it is open the drawer never goes back to an older version or a    *)
(* shorter history.                                                        *)
DrawerNeverGoesBack ==
  [][\A q \in DrawerQueries :
       drawer /\ drawer' /\ cache[q].loaded => 
         Number(q, cache[q].data) <= Number(q, cache'[q].data)]_vars

=============================================================================
