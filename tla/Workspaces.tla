------------------------------ MODULE Workspaces ------------------------------
(***************************************************************************)
(* Workspaces as the web client shows, creates, renames and deletes them:  *)
(* the dashboard's grid and its dialogs, the command palette that shares   *)
(* the grid's query, and the workspace page's own query, whose key begins  *)
(* with the same word.                                                     *)
(*                                                                         *)
(* One workspace is followed; a mutation of another reloads the same       *)
(* queries.  Requests are asked, served and received in three steps, in    *)
(* any order, and any of them may fail.                                    *)
(***************************************************************************)
EXTENDS Naturals

CONSTANTS
  Names,        (* what the dialogs' form lets through                      *)
  Missing,      (* not created yet, not listed, or nothing loaded           *)
  Deleted,
  Requests      (* mutations that can be under way at the same time         *)

ASSUME NamesAssumption == Missing \notin Names /\ Deleted \notin Names \cup {Missing}

Keys == {"list", "detail"}
Dialogs == {"create", "rename", "delete"}
Sites == {"dashboard", "workspace", "elsewhere"}

Loadable == Names \cup {Missing}

VARIABLES
  workspace,    (* server: its name, if it is there                         *)
  fetched,      (* the queries ["workspaces"] and ["workspaces", id]        *)
  site,         (* the page on display                                      *)
  palette,      (* is the palette open                                      *)
  dialog,       (* the one open over the dashboard, or none                 *)
  request,
  owed          (* history: queries that must show what the server has,     *)
                (* since the client said a mutation is done                 *)

workspaces_vars == <<workspace, fetched, site, palette, dialog, request, owed>>

Idle == [at |-> "unused", dialog |-> "create", name |-> Missing, mounted |-> FALSE]

Unfetched ==
  [loaded |-> FALSE, error |-> FALSE, data |-> Missing, fetch |-> "idle", answer |-> Missing]

(* A query that is asked again keeps its data and, until there is data for *)
(* the first time, only then forgets that it failed.                       *)
Ask(entry) == [entry EXCEPT !.fetch = "asked", !.answer = Missing, !.error = @ /\ entry.loaded]

WorkspacesInit ==
  /\ workspace \in Loadable
  /\ fetched = [k \in Keys |-> IF k = "list" THEN Ask(Unfetched) ELSE Unfetched]
  /\ site = "dashboard" /\ palette = FALSE /\ dialog = "none"
  /\ request = [r \in Requests |-> Idle]
  /\ owed = {}

-----------------------------------------------------------------------------
(* The queries.                                                            *)

Observed(k) ==
  \/ k = "list" /\ (site = "dashboard" \/ palette)
  \/ k = "detail" /\ site = "workspace"

JoinOrAsk(entry) == IF entry.fetch = "idle" THEN Ask(entry) ELSE entry

(* invalidateQueries, refetch: what is under way is given up for a new     *)
(* fetch, except a first load.                                             *)
Renewed(entry) == IF entry.loaded THEN Ask(entry) ELSE JoinOrAsk(entry)

(* Fault: the list alone is invalidated, by its exact key.                 *)
AffectedExactly(k) == k = "list" /\ Observed(k)

(* By prefix.  A query nobody observes is fetched when it next is.         *)
Affected(k) == Observed(k)

InvalidateWorkspaces ==
  fetched' = [k \in Keys |-> IF Affected(k) THEN Renewed(fetched[k]) ELSE fetched[k]]

Present == workspace \in Names

(* list_for, get: a workspace that is not there is not listed, and not     *)
(* found.                                                                  *)
ServeFetch(k) ==
  /\ fetched[k].fetch = "asked" /\ (k = "detail" => Present)
  /\ fetched' = [fetched EXCEPT ![k].fetch = "answered",
                                ![k].answer = IF Present THEN workspace ELSE Missing]
  /\ UNCHANGED <<workspace, site, palette, dialog, request, owed>>

(* The grid has the card while its list is loaded and has not failed.      *)
Card ==
  site = "dashboard" /\ fetched["list"].loaded /\ ~fetched["list"].error
    /\ fetched["list"].data \in Names

Components == {d \in Dialogs : IF d = "create" THEN site = "dashboard" ELSE Card}

(* A card that goes takes its dialogs with it; its mutations go on.        *)
KeepComponents ==
  /\ dialog' = IF dialog \in Components' THEN dialog ELSE "none"
  /\ request' = [r \in Requests |->
       [request[r] EXCEPT !.mounted = @ /\ request[r].dialog \in Components']]

ReceiveFetch(k) ==
  /\ fetched[k].fetch = "answered"
  /\ fetched' = [fetched EXCEPT ![k] = [Unfetched EXCEPT !.loaded = TRUE, !.data = fetched[k].answer]]
  /\ UNCHANGED <<workspace, site, palette, owed>>
  /\ KeepComponents

(* Twice, or the second time unasked; data that was loaded stays.          *)
FailFetch(k) ==
  /\ fetched[k].fetch # "idle"
  /\ fetched' = [fetched EXCEPT ![k].fetch = "idle", ![k].answer = Missing, ![k].error = TRUE]
  /\ UNCHANGED <<workspace, site, palette, owed>>
  /\ KeepComponents

Online ==
  /\ \E k \in Keys : Observed(k) /\ fetched[k].fetch = "idle"
  /\ fetched' = [k \in Keys |-> IF Observed(k) THEN JoinOrAsk(fetched[k]) ELSE fetched[k]]
  /\ UNCHANGED <<workspace, site, palette, dialog, request, owed>>

(* The closed palette still holds the list.                                *)
Forget ==
  /\ ~Observed("detail") /\ fetched["detail"].fetch = "idle" /\ fetched["detail"] # Unfetched
  /\ fetched' = [fetched EXCEPT !["detail"] = Unfetched]
  /\ UNCHANGED <<workspace, site, palette, dialog, request, owed>>

-----------------------------------------------------------------------------
(* The user.                                                               *)

(* By a link, the palette or the browser's own buttons.                    *)
Go(s) ==
  /\ s # site /\ (s = "workspace" => workspace # Missing)
  /\ site' = s /\ UNCHANGED <<workspace, palette, owed>>
  /\ LET mounts == CASE s = "dashboard" -> {"list"} [] s = "workspace" -> {"detail"} [] OTHER -> {}
     IN fetched' = [k \in Keys |-> IF k \in mounts THEN JoinOrAsk(fetched[k]) ELSE fetched[k]]
  /\ KeepComponents

ShowPalette ==
  /\ ~palette /\ palette' = TRUE
  /\ fetched' = [fetched EXCEPT !["list"] = JoinOrAsk(@)]
  /\ UNCHANGED <<workspace, site, dialog, request, owed>>

HidePalette ==
  /\ palette /\ palette' = FALSE
  /\ UNCHANGED <<workspace, fetched, site, dialog, request, owed>>

Retry ==
  /\ site = "dashboard" /\ fetched["list"].error
  /\ fetched' = [fetched EXCEPT !["list"] = Renewed(@)]
  /\ UNCHANGED <<workspace, site, palette, owed>>
  /\ KeepComponents

OpenDialog(d) ==
  /\ dialog = "none" /\ d \in Components /\ dialog' = d
  /\ UNCHANGED <<workspace, fetched, site, palette, request, owed>>

CloseDialog ==
  /\ dialog # "none" /\ dialog' = "none"
  /\ UNCHANGED <<workspace, fetched, site, palette, request, owed>>

Pending(d) == \E r \in Requests : request[r].at # "unused" /\ request[r].mounted /\ request[r].dialog = d

(* A name that is not valid is never sent.                                 *)
Submit(r, name) ==
  /\ dialog # "none" /\ ~Pending(dialog) /\ request[r] = Idle
  /\ request' = [request EXCEPT ![r] =
       [at |-> "sent", dialog |-> dialog, name |-> IF dialog = "delete" THEN Missing ELSE name,
        mounted |-> TRUE]]
  /\ UNCHANGED <<workspace, fetched, site, palette, dialog, owed>>

-----------------------------------------------------------------------------
(* WorkspaceService.  Whoever renames last wins.                           *)

Become(w) == workspace' = w /\ owed' = {}

(* The followed workspace is the next one that is created.                 *)
CommitRequest(r) ==
  /\ request[r].at = "sent"
  /\ CASE request[r].dialog = "create" ->
            IF workspace = Missing THEN Become(request[r].name) ELSE UNCHANGED <<workspace, owed>>
       [] request[r].dialog = "rename" -> Present /\ Become(request[r].name)
       [] OTHER -> Present /\ Become(Deleted)
  /\ request' = [request EXCEPT ![r].at = "committed", ![r].name = Missing]
  /\ UNCHANGED <<fetched, site, palette, dialog>>

OtherClients ==
  /\ \/ workspace \in Loadable /\ \E name \in Names : Become(name)
     \/ Present /\ Become(Deleted)
  /\ UNCHANGED <<fetched, site, palette, dialog, request>>

-----------------------------------------------------------------------------
(* The answers.                                                            *)

(* Queries that cannot but show it once they are at rest: others have a    *)
(* fetch under way that began before, and is joined.                       *)
Due(k) == fetched[k].fetch = "idle" \/ (fetched[k].loaded /\ Observed(k))

(* It closes its dialog, even one that was opened again meanwhile.         *)
Succeed(r) ==
  /\ request[r].at = "committed"
  /\ InvalidateWorkspaces
  /\ dialog' = IF request[r].mounted /\ dialog = request[r].dialog THEN "none" ELSE dialog
  /\ request' = [request EXCEPT ![r] = Idle]
  /\ owed' = owed \cup {k \in Keys : Due(k)}
  /\ UNCHANGED <<workspace, site, palette>>

(* The workspace is gone, or the connection was lost before the request    *)
(* arrived or after it took effect: a message, and nothing is reloaded.    *)
Fail(r) ==
  /\ request[r].at # "unused"
  /\ request' = [request EXCEPT ![r] = Idle]
  /\ UNCHANGED <<workspace, fetched, site, palette, dialog, owed>>

WorkspacesNext ==
  \/ \E k \in Keys : ServeFetch(k) \/ ReceiveFetch(k) \/ FailFetch(k)
  \/ Online \/ Forget \/ ShowPalette \/ HidePalette \/ Retry \/ CloseDialog \/ OtherClients
  \/ \E s \in Sites : Go(s)
  \/ \E d \in Dialogs : OpenDialog(d)
  \/ \E r \in Requests : CommitRequest(r) \/ Succeed(r) \/ Fail(r)
  \/ \E r \in Requests, name \in Names : Submit(r, name)

WorkspacesSpec == WorkspacesInit /\ [][WorkspacesNext]_workspaces_vars

-----------------------------------------------------------------------------
(* Properties.                                                             *)

(* Every variable has the shape of what it stands for.                     *)
WorkspacesTypes ==
  /\ workspace \in Loadable \cup {Deleted}
  /\ fetched \in [Keys ->
       [loaded: BOOLEAN, error: BOOLEAN, data: Loadable,
        fetch: {"idle", "asked", "answered"}, answer: Loadable]]
  /\ site \in Sites /\ palette \in BOOLEAN /\ dialog \in Dialogs \cup {"none"}
  /\ request \in [Requests ->
       [at: {"unused", "sent", "committed"}, dialog: Dialogs, name: Loadable, mounted: BOOLEAN]]
  /\ owed \subseteq Keys

Settled(k) == Observed(k) /\ fetched[k].loaded /\ ~fetched[k].error /\ fetched[k].fetch = "idle"

(* Once the client has said that a workspace is created, renamed or        *)
(* deleted, the dashboard, the palette and the workspace's page have it so *)
(* as soon as they are loaded, on whatever page the answer found the user, *)
(* until somebody changes the workspace again: no fetch from before brings *)
(* the old state back.                                                     *)
SaidIsShown ==
  \A k \in owed : Settled(k) => fetched[k].data = IF Present THEN workspace ELSE Missing

=============================================================================
