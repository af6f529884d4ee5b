---------------------------- MODULE WebClientProofs ----------------------------
(* What the web client shows of workspaces, for any names and any number   *)
(* of mutations under way; what its pages show, for any workspaces, lists, *)
(* questions and matches; and its viewer, for any documents, targets and   *)
(* pages of text.                                                          *)
EXTENDS Workspaces, Navigation, EvidenceViewer, NaturalFacts, SequenceTheorems, FiniteSetTheorems,
        TLAPS

-----------------------------------------------------------------------------
(* Workspaces.                                                             *)

Entries ==
  [loaded: BOOLEAN, error: BOOLEAN, data: Loadable,
   fetch: {"idle", "asked", "answered"}, answer: Loadable]

(* What a query that is read now is answered.                              *)
Current == IF Present THEN workspace ELSE Missing

(* A query that must show what the server has will: it does, or what is    *)
(* coming in does, or it has yet to be read.                               *)
WillShow(entry, observed, current) ==
  /\ entry.fetch = "answered" => entry.answer = current
  /\ observed /\ entry.fetch = "idle" /\ entry.loaded /\ ~entry.error => entry.data = current

OwedWillShow == \A k \in owed : WillShow(fetched[k], Observed(k), Current)

WorkspacesInv == WorkspacesTypes /\ OwedWillShow

-----------------------------------------------------------------------------
(* Facts about single queries.                                             *)

LEMMA CurrentIsLoadable == Current \in Loadable
BY DEF Current, Present, Loadable

LEMMA AskIsEntry ==
  ASSUME NEW e \in Entries
  PROVE  /\ Ask(e) \in Entries /\ Ask(e).fetch = "asked"
         /\ JoinOrAsk(e) \in Entries /\ Renewed(e) \in Entries
         /\ JoinOrAsk(e).fetch = "asked" \/ (JoinOrAsk(e) = e /\ e.fetch # "idle")
         /\ Renewed(e).fetch = "asked" \/ (Renewed(e) = e /\ e.fetch # "idle" /\ ~e.loaded)
<1>1. Ask(e) \in Entries /\ Ask(e).fetch = "asked"
  BY DEF Ask, Entries, Loadable
<1>2. e.fetch \in {"idle", "asked", "answered"}
  BY DEF Entries
<1> QED BY <1>1, <1>2 DEF JoinOrAsk, Renewed

LEMMA UnfetchedIsEntry == Unfetched \in Entries
BY DEF Unfetched, Entries, Loadable

(* The dialogs that go take their mutations' components with them.         *)
LEMMA KeepTypes ==
  ASSUME WorkspacesTypes, KeepComponents
  PROVE  /\ dialog' \in Dialogs \cup {"none"}
         /\ request' \in [Requests -> [at: {"unused", "sent", "committed"}, dialog: Dialogs,
                                       name: Loadable, mounted: BOOLEAN]]
<1> DEFINE Asked == [at: {"unused", "sent", "committed"}, dialog: Dialogs, name: Loadable, mounted: BOOLEAN]
<1>1. ASSUME NEW r \in Requests
      PROVE  [request[r] EXCEPT !.mounted = @ /\ request[r].dialog \in Components'] \in Asked
  <2>1. request[r] \in Asked
    BY DEF WorkspacesTypes
  <2> QED BY <2>1
<1> QED BY <1>1 DEF KeepComponents, WorkspacesTypes

(* A query that is asked, or that is not looked at anew, goes on.          *)
LEMMA StillShows ==
  ASSUME NEW e, NEW f, NEW before \in BOOLEAN, NEW after \in BOOLEAN, NEW current,
         WillShow(e, before, current),
         f.fetch = "asked" \/ (f = e /\ (after => before \/ e.fetch # "idle"))
  PROVE  WillShow(f, after, current)
BY DEF WillShow

(* A step that leaves the workspace and what is owed alone keeps the       *)
(* promise if it does to each query one of these.                          *)
LEMMA QueriesGoOn ==
  ASSUME WorkspacesInv, WorkspacesTypes', workspace' = workspace, owed' = owed,
         \A k \in Keys : \/ fetched'[k].fetch = "asked"
                         \/ /\ fetched'[k] = fetched[k]
                            /\ Observed(k)' => Observed(k) \/ fetched[k].fetch # "idle"
  PROVE  OwedWillShow'
<1> SUFFICES ASSUME NEW k \in owed PROVE WillShow(fetched'[k], Observed(k)', Current')
  BY DEF OwedWillShow
<1>1. k \in Keys
  BY DEF WorkspacesInv, WorkspacesTypes
<1>2. Current' = Current
  BY DEF Current, Present
<1>3. WillShow(fetched[k], Observed(k), Current)
  BY DEF WorkspacesInv, OwedWillShow
<1>4. Observed(k) \in BOOLEAN /\ Observed(k)' \in BOOLEAN
  BY <1>1 DEF WorkspacesInv, WorkspacesTypes, Observed
<1> QED BY <1>1, <1>2, <1>3, <1>4, StillShows

LEMMA WorkspacesStart == WorkspacesInit => WorkspacesInv
<1> SUFFICES ASSUME WorkspacesInit PROVE WorkspacesInv
  OBVIOUS
<1>1. fetched \in [Keys -> Entries]
  BY UnfetchedIsEntry, AskIsEntry DEF WorkspacesInit
<1>2. Idle \in [at: {"unused", "sent", "committed"}, dialog: Dialogs, name: Loadable, mounted: BOOLEAN]
  BY DEF Idle, Dialogs, Loadable
<1> QED
  BY <1>1, <1>2 DEF WorkspacesInit, WorkspacesInv, WorkspacesTypes, OwedWillShow, Entries, Sites, Loadable

LEMMA WorkspacesKeep ==
  WorkspacesInv /\ [WorkspacesNext]_workspaces_vars => WorkspacesInv'
<1> SUFFICES ASSUME WorkspacesInv, [WorkspacesNext]_workspaces_vars PROVE WorkspacesInv'
  OBVIOUS
<1> DEFINE Asked == [at: {"unused", "sent", "committed"}, dialog: Dialogs, name: Loadable, mounted: BOOLEAN]
<1>t. /\ WorkspacesTypes /\ fetched \in [Keys -> Entries] /\ request \in [Requests -> Asked]
      /\ owed \subseteq Keys
  BY DEF WorkspacesInv, WorkspacesTypes, Entries
<1>u. ASSUME workspace' \in Loadable \cup {Deleted}, fetched' \in [Keys -> Entries], site' \in Sites,
             palette' \in BOOLEAN, dialog' \in Dialogs \cup {"none"}, request' \in [Requests -> Asked],
             owed' \subseteq Keys
      PROVE  WorkspacesTypes'
  BY <1>u DEF WorkspacesTypes, Entries
<1>v. /\ workspace \in Loadable \cup {Deleted} /\ site \in Sites /\ palette \in BOOLEAN
      /\ dialog \in Dialogs \cup {"none"}
  BY <1>t DEF WorkspacesTypes
<1>w. Idle \in Asked
  BY DEF Idle, Dialogs, Loadable
<1>a. ASSUME UNCHANGED <<workspace, fetched, site, palette, owed>>,
             dialog' \in Dialogs \cup {"none"}, request' \in [Requests -> Asked]
      PROVE  WorkspacesInv'
  <2>1. WorkspacesTypes'
    BY <1>a, <1>t, <1>u, <1>v
  <2>2. \A k \in Keys : Observed(k)' = Observed(k)
    BY <1>a DEF Observed
  <2>3. OwedWillShow'
    BY <1>a, <2>1, <2>2, QueriesGoOn
  <2> QED BY <2>1, <2>3 DEF WorkspacesInv
<1>b. ASSUME workspace' \in Loadable \cup {Deleted}, owed' = {},
             UNCHANGED <<fetched, site, palette, dialog>>, request' \in [Requests -> Asked]
      PROVE  WorkspacesInv'
  BY <1>b, <1>t, <1>u, <1>v DEF WorkspacesInv, OwedWillShow
<1> HIDE DEF Asked
<1>1. ASSUME NEW k \in Keys, ServeFetch(k) PROVE WorkspacesInv'
  <2>1. fetched' = [fetched EXCEPT ![k].fetch = "answered", ![k].answer = Current]
    BY <1>1 DEF ServeFetch, Current
  <2>2. fetched' \in [Keys -> Entries]
    BY <1>t, <2>1, CurrentIsLoadable DEF Entries
  <2>3. WorkspacesTypes'
    BY <1>1, <1>t, <1>u, <1>v, <2>2 DEF ServeFetch
  <2>4. Current' = Current /\ \A q \in Keys : Observed(q)' = Observed(q)
    BY <1>1 DEF ServeFetch, Current, Present, Observed
  <2>5. WillShow(fetched'[k], Observed(k)', Current')
    BY <1>t, <2>1, <2>4 DEF WillShow, Entries
  <2>6. \A q \in Keys : q # k => fetched'[q] = fetched[q]
    BY <1>t, <2>1
  <2>7. OwedWillShow'
    BY <1>1, <1>t, <2>4, <2>5, <2>6 DEF ServeFetch, WorkspacesInv, OwedWillShow
  <2> QED BY <2>3, <2>7 DEF WorkspacesInv
<1>2. ASSUME NEW k \in Keys, ReceiveFetch(k) PROVE WorkspacesInv'
  <2> DEFINE received == [Unfetched EXCEPT !.loaded = TRUE, !.data = fetched[k].answer]
  <2>1. received \in Entries
    <3>1. fetched[k].answer \in Loadable
      BY <1>t DEF Entries
    <3> QED BY <3>1, UnfetchedIsEntry DEF Entries
  <2>2. /\ fetched' = [fetched EXCEPT ![k] = received] /\ fetched[k].fetch = "answered"
        /\ received.fetch = "idle" /\ received.data = fetched[k].answer
    BY <1>2 DEF ReceiveFetch, Unfetched
  <2> HIDE DEF received
  <2>3. WorkspacesTypes'
    BY <1>2, <1>t, <1>u, <1>v, <2>1, <2>2, KeepTypes DEF ReceiveFetch, Asked
  <2>4. Current' = Current /\ \A q \in Keys : Observed(q)' = Observed(q)
    BY <1>2 DEF ReceiveFetch, Current, Present, Observed
  <2>5. k \in owed => WillShow(fetched'[k], Observed(k)', Current')
    BY <1>t, <2>2, <2>4 DEF WillShow, WorkspacesInv, OwedWillShow
  <2>6. \A q \in Keys : q # k => fetched'[q] = fetched[q]
    BY <1>t, <2>2
  <2>7. OwedWillShow'
    BY <1>2, <1>t, <2>4, <2>5, <2>6 DEF ReceiveFetch, WorkspacesInv, OwedWillShow
  <2> QED BY <2>3, <2>7 DEF WorkspacesInv
<1>3. ASSUME NEW k \in Keys, FailFetch(k) PROVE WorkspacesInv'
  <2>1. fetched' = [fetched EXCEPT ![k].fetch = "idle", ![k].answer = Missing, ![k].error = TRUE]
    BY <1>3 DEF FailFetch
  <2>2. fetched' \in [Keys -> Entries]
    BY <1>t, <2>1 DEF Entries, Loadable
  <2>3. WorkspacesTypes'
    BY <1>3, <1>t, <1>u, <1>v, <2>2, KeepTypes DEF FailFetch, Asked
  <2>4. Current' = Current /\ \A q \in Keys : Observed(q)' = Observed(q)
    BY <1>3 DEF FailFetch, Current, Present, Observed
  <2>5. WillShow(fetched'[k], Observed(k)', Current')
    BY <1>t, <2>1 DEF WillShow, Entries
  <2>6. \A q \in Keys : q # k => fetched'[q] = fetched[q]
    BY <1>t, <2>1
  <2>7. OwedWillShow'
    BY <1>3, <1>t, <2>4, <2>5, <2>6 DEF FailFetch, WorkspacesInv, OwedWillShow
  <2> QED BY <2>3, <2>7 DEF WorkspacesInv
<1>4. CASE Online
  <2>1. \A k \in Keys : fetched'[k] = IF Observed(k) THEN JoinOrAsk(fetched[k]) ELSE fetched[k]
    BY <1>4 DEF Online
  <2>2. fetched' \in [Keys -> Entries]
    BY <1>4, <1>t, AskIsEntry DEF Online
  <2>3. WorkspacesTypes'
    BY <1>4, <1>t, <1>u, <1>v, <2>2 DEF Online
  <2>4. \A k \in Keys : Observed(k)' = Observed(k)
    BY <1>4 DEF Online, Observed
  <2>5. OwedWillShow'
    BY <1>4, <1>t, <2>1, <2>3, <2>4, AskIsEntry, QueriesGoOn DEF Online
  <2> QED BY <2>3, <2>5 DEF WorkspacesInv
<1>5. CASE Forget
  <2>1. fetched' = [fetched EXCEPT !["detail"] = Unfetched] /\ ~Observed("detail")
    BY <1>5 DEF Forget
  <2>2. WorkspacesTypes'
    BY <1>5, <1>t, <1>u, <1>v, <2>1, UnfetchedIsEntry DEF Forget
  <2>3. Current' = Current /\ \A k \in Keys : Observed(k)' = Observed(k)
    BY <1>5 DEF Forget, Current, Present, Observed
  <2>4. WillShow(Unfetched, FALSE, Current)
    BY DEF WillShow, Unfetched
  <2>5. OwedWillShow'
    BY <1>5, <1>t, <2>1, <2>3, <2>4 DEF Forget, WorkspacesInv, OwedWillShow, Keys, WillShow, Unfetched
  <2> QED BY <2>2, <2>5 DEF WorkspacesInv
<1>6. ASSUME NEW s \in Sites, Go(s) PROVE WorkspacesInv'
  <2> DEFINE mounts == CASE s = "dashboard" -> {"list"} [] s = "workspace" -> {"detail"} [] OTHER -> {}
  <2>1. \A k \in Keys : fetched'[k] = IF k \in mounts THEN JoinOrAsk(fetched[k]) ELSE fetched[k]
    BY <1>6 DEF Go
  <2>2. fetched' \in [Keys -> Entries]
    BY <1>6, <1>t, AskIsEntry DEF Go
  <2>3. WorkspacesTypes'
    BY <1>6, <1>t, <1>u, <1>v, <2>2, KeepTypes DEF Go, Asked
  <2>4. \A k \in Keys : Observed(k)' => Observed(k) \/ k \in mounts
    BY <1>6 DEF Go, Observed
  <2> HIDE DEF mounts
  <2>5. \A k \in Keys : fetched'[k].fetch = "asked" \/
          (fetched'[k] = fetched[k] /\ (k \in mounts => fetched[k].fetch # "idle"))
    BY <1>t, <2>1, AskIsEntry
  <2>6. OwedWillShow'
    BY <1>6, <2>3, <2>4, <2>5, QueriesGoOn DEF Go
  <2> QED BY <2>3, <2>6 DEF WorkspacesInv
<1>7. CASE ShowPalette
  <2>1. fetched' = [fetched EXCEPT !["list"] = JoinOrAsk(fetched["list"])]
    BY <1>7 DEF ShowPalette
  <2>2. "list" \in Keys
    BY DEF Keys
  <2>3. fetched' \in [Keys -> Entries]
    BY <1>t, <2>1, <2>2, AskIsEntry
  <2>4. WorkspacesTypes'
    BY <1>7, <1>t, <1>u, <1>v, <2>3 DEF ShowPalette
  <2>5. \A k \in Keys : Observed(k)' => Observed(k) \/ k = "list"
    BY <1>7 DEF ShowPalette, Observed
  <2>6. \A k \in Keys : fetched'[k].fetch = "asked" \/
          (fetched'[k] = fetched[k] /\ (k = "list" => fetched[k].fetch # "idle"))
    BY <1>t, <2>1, <2>2, AskIsEntry
  <2>7. OwedWillShow'
    BY <1>7, <2>4, <2>5, <2>6, QueriesGoOn DEF ShowPalette
  <2> QED BY <2>4, <2>7 DEF WorkspacesInv
<1>8. CASE HidePalette
  <2>1. WorkspacesTypes'
    BY <1>8, <1>t, <1>u, <1>v DEF HidePalette
  <2>2. \A k \in Keys : Observed(k)' => Observed(k)
    BY <1>8 DEF HidePalette, Observed
  <2>3. OwedWillShow'
    BY <1>8, <2>1, <2>2, QueriesGoOn DEF HidePalette
  <2> QED BY <2>1, <2>3 DEF WorkspacesInv
<1>9. CASE Retry
  <2>1. fetched' = [fetched EXCEPT !["list"] = Renewed(fetched["list"])]
    BY <1>9 DEF Retry
  <2>2. "list" \in Keys
    BY DEF Keys
  <2>3. fetched' \in [Keys -> Entries]
    BY <1>t, <2>1, <2>2, AskIsEntry
  <2>4. WorkspacesTypes'
    BY <1>9, <1>t, <1>u, <1>v, <2>3, KeepTypes DEF Retry, Asked
  <2>5. \A k \in Keys : Observed(k)' = Observed(k)
    BY <1>9 DEF Retry, Observed
  <2>6. \A k \in Keys : fetched'[k].fetch = "asked" \/ fetched'[k] = fetched[k]
    BY <1>t, <2>1, <2>2, AskIsEntry
  <2>7. OwedWillShow'
    BY <1>9, <2>4, <2>5, <2>6, QueriesGoOn DEF Retry
  <2> QED BY <2>4, <2>7 DEF WorkspacesInv
<1>10. ASSUME NEW d \in Dialogs, OpenDialog(d) PROVE WorkspacesInv'
  BY <1>10, <1>a, <1>t DEF OpenDialog
<1>11. CASE CloseDialog
  BY <1>11, <1>a, <1>t DEF CloseDialog
<1>12. ASSUME NEW r \in Requests, NEW name \in Names, Submit(r, name) PROVE WorkspacesInv'
  <2> DEFINE sent == [at |-> "sent", dialog |-> dialog,
                      name |-> IF dialog = "delete" THEN Missing ELSE name, mounted |-> TRUE]
  <2>1. sent \in Asked
    BY <1>12, <1>v DEF Submit, Asked, Loadable
  <2>2. request' = [request EXCEPT ![r] = sent]
    BY <1>12 DEF Submit
  <2> HIDE DEF sent
  <2> QED BY <1>12, <1>a, <1>t, <1>v, <2>1, <2>2 DEF Submit
<1>13. ASSUME NEW r \in Requests, CommitRequest(r) PROVE WorkspacesInv'
  <2>1. request' \in [Requests -> Asked]
    BY <1>13, <1>t DEF CommitRequest, Asked, Loadable
  <2>2. CASE UNCHANGED <<workspace, owed>>
    BY <1>13, <1>a, <1>v, <2>1, <2>2 DEF CommitRequest
  <2>3. CASE owed' = {} /\ workspace' \in Loadable \cup {Deleted}
    BY <1>13, <1>b, <2>1, <2>3 DEF CommitRequest
  <2>4. request[r].name \in Loadable
    BY <1>t DEF Asked
  <2> QED BY <1>13, <2>2, <2>3, <2>4 DEF CommitRequest, Become
<1>14. CASE OtherClients
  <2>1. owed' = {} /\ workspace' \in Loadable \cup {Deleted}
    BY <1>14 DEF OtherClients, Become, Loadable
  <2> QED BY <1>14, <1>b, <1>t, <2>1 DEF OtherClients
<1>15. ASSUME NEW r \in Requests, Succeed(r) PROVE WorkspacesInv'
  <2>1. \A k \in Keys : fetched'[k] = IF Observed(k) THEN Renewed(fetched[k]) ELSE fetched[k]
    BY <1>15 DEF Succeed, InvalidateWorkspaces, Affected
  <2>2. fetched' \in [Keys -> Entries]
    BY <1>15, <1>t, AskIsEntry DEF Succeed, InvalidateWorkspaces, Affected
  <2>3. request' \in [Requests -> Asked] /\ dialog' \in Dialogs \cup {"none"} /\ owed' \subseteq Keys
    BY <1>15, <1>t, <1>v, <1>w DEF Succeed
  <2>4. WorkspacesTypes'
    BY <1>15, <1>t, <1>u, <1>v, <2>2, <2>3 DEF Succeed
  <2>5. Current' = Current /\ \A k \in Keys : Observed(k)' = Observed(k)
    BY <1>15 DEF Succeed, Current, Present, Observed
  <2>6. ASSUME NEW k \in Keys, Due(k) PROVE WillShow(fetched'[k], Observed(k)', Current')
    <3>1. CASE Observed(k)
      <4>1. fetched'[k].fetch = "asked"
        BY <1>t, <2>1, <2>6, <3>1, AskIsEntry DEF Due
      <4> QED BY <4>1 DEF WillShow
    <3>2. CASE ~Observed(k)
      BY <2>1, <2>5, <2>6, <3>2 DEF Due, WillShow
    <3> QED BY <3>1, <3>2
  <2>7. ASSUME NEW k \in owed PROVE WillShow(fetched'[k], Observed(k)', Current')
    <3>1. WillShow(fetched[k], Observed(k), Current)
      BY <2>7 DEF WorkspacesInv, OwedWillShow
    <3>2. fetched'[k].fetch = "asked" \/ fetched'[k] = fetched[k]
      BY <1>t, <2>1, AskIsEntry
    <3> QED BY <1>t, <2>5, <3>1, <3>2 DEF WillShow
  <2>8. \A k \in owed' : k \in owed \/ (k \in Keys /\ Due(k))
    BY <1>15 DEF Succeed
  <2>9. OwedWillShow'
    BY <2>6, <2>7, <2>8 DEF OwedWillShow
  <2> QED BY <2>4, <2>9 DEF WorkspacesInv
<1>16. ASSUME NEW r \in Requests, Fail(r) PROVE WorkspacesInv'
  <2>1. request' \in [Requests -> Asked]
    BY <1>16, <1>t, <1>w DEF Fail
  <2> QED BY <1>16, <1>a, <1>v, <2>1 DEF Fail
<1>17. CASE UNCHANGED workspaces_vars
  BY <1>17, <1>a, <1>t, <1>v DEF workspaces_vars
<1> QED
  BY <1>1, <1>2, <1>3, <1>4, <1>5, <1>6, <1>7, <1>8, <1>9, <1>10, <1>11, <1>12, <1>13, <1>14, <1>15,
     <1>16, <1>17 DEF WorkspacesNext

(* The workspaces and their queries keep their shape.                      *)
THEOREM WorkspacesAreTyped == WorkspacesSpec => []WorkspacesTypes
<1>1. WorkspacesInv => WorkspacesTypes
  BY DEF WorkspacesInv
<1> QED BY <1>1, WorkspacesStart, WorkspacesKeep, PTL DEF WorkspacesSpec

(* workspace-dialogs.tsx:65, 134 and 196: what the client has said of a    *)
(* workspace is what its loaded queries show, for any number of mutations  *)
(* and fetches under way, in whatever order they are answered.             *)
THEOREM ClientKeepsItsWord == WorkspacesSpec => []SaidIsShown
<1>1. WorkspacesInv => SaidIsShown
  BY DEF WorkspacesInv, OwedWillShow, WillShow, SaidIsShown, Settled, Current
<1> QED BY <1>1, WorkspacesStart, WorkspacesKeep, PTL DEF WorkspacesSpec

-----------------------------------------------------------------------------
(* Ways about.                                                             *)

(* A list that is not empty has a first workspace.                         *)
LEMMA FirstIsListable ==
  ASSUME NEW list \in Listings, list # <<>>
  PROVE  list[1] \in Listable
BY NavigationAssumption

(* The rows of the palette; Ask AI is the first, if there is a question.   *)
LEMMA RowsOfThePalette ==
  ASSUME NEW needle \in Texts, NEW list \in Listings
  PROVE  /\ \A i \in 1..Len(Items(needle, list)) :
              Items(needle, list)[i].kind \in {"ask", "open"} \cup Commands
         /\ needle # Blank => Items(needle, list)[1] = Entry("ask", NoWorkspace)
<1> DEFINE ask == IF needle = Blank THEN <<>> ELSE <<Entry("ask", NoWorkspace)>>
           found == SelectSeq(list, LAMBDA w : Has(needle, w))
           matching == {i \in 1..Len(list) : Has(needle, list[i])}
           matches == Cardinality(matching)
           last == IF matches < MaxShown THEN matches ELSE MaxShown
           opens == [i \in 1..last |-> Entry("open", found[i])]
           dashboard == IF Has(needle, "Go to Dashboard")
                        THEN <<Entry("Go to Dashboard", Dashboard)>> ELSE <<>>
           evidence == IF list # <<>> /\ Has(needle, "Open Evidence Map")
                       THEN <<Entry("Open Evidence Map", list[1])>> ELSE <<>>
           Rows == [kind: {"ask", "open"} \cup Commands,
                    page: {NoWorkspace, Dashboard, list[1]} \cup {found[i] : i \in 1..last}]
<1>1. Items(needle, list) = ask \o opens \o dashboard \o evidence
  BY DEF Items
<1>2. last \in Nat
  <2>1. Len(list) \in Nat
    BY NavigationAssumption
  <2>2. IsFiniteSet(1..Len(list))
    BY <2>1, FS_Interval
  <2>3. IsFiniteSet(matching)
    BY <2>2, FS_Subset
  <2>4. matches \in Nat
    BY <2>3, FS_CardinalityType
  <2> QED BY <2>4, NavigationAssumption
<1> HIDE DEF last, found
<1>3. ask \in Seq(Rows) /\ opens \in Seq(Rows) /\ dashboard \in Seq(Rows) /\ evidence \in Seq(Rows)
  <2>1. Entry("ask", NoWorkspace) \in Rows /\ Entry("Go to Dashboard", Dashboard) \in Rows
        /\ Entry("Open Evidence Map", list[1]) \in Rows
    BY DEF Entry, Commands
  <2>2. \A i \in 1..last : Entry("open", found[i]) \in Rows
    BY DEF Entry, Commands
  <2> HIDE DEF Rows
  <2>3. opens \in Seq(Rows)
    BY <1>2, <2>2
  <2>4. \A e \in Rows : <<e>> \in Seq(Rows)
    OBVIOUS
  <2>5. <<>> \in Seq(Rows)
    OBVIOUS
  <2>6. ask \in Seq(Rows)
    BY <2>1, <2>4, <2>5
  <2>7. dashboard \in Seq(Rows)
    BY <2>1, <2>4, <2>5
  <2>8. evidence \in Seq(Rows)
    BY <2>1, <2>4, <2>5
  <2> QED BY <2>3, <2>6, <2>7, <2>8
<1>. HIDE DEF ask, opens, dashboard, evidence, Rows
<1>4. Items(needle, list) \in Seq(Rows)
  BY <1>1, <1>3
<1>5. \A e \in Rows : e.kind \in {"ask", "open"} \cup Commands
  BY DEF Rows
<1>6. needle # Blank => Items(needle, list)[1] = Entry("ask", NoWorkspace)
  BY <1>1, <1>3 DEF ask
<1> QED BY <1>4, <1>5, <1>6

(* A question on its way is in the location pushed last, and that is of    *)
(* another page; or it is in the Ask tab of the page that is shown and in  *)
(* its link, and in its input unless there is none now.                    *)
QuestionUnderWay ==
  carried # Nowhere =>
    /\ carried.tab = "ask" /\ carried.page # Dashboard
    /\ \/ route = carried /\ route # NoRoute /\ page # carried.page
       \/ /\ route = NoRoute /\ page = carried.page
          /\ tab = "ask" /\ linked = carried.question
          /\ panels => input = carried.question

HighlightUntouched == ~moved => active = 0

NavigationInv ==
  /\ listed \in Listings /\ query \in Texts /\ active \in Nat
  /\ QuestionUnderWay /\ HighlightUntouched

(* What is pushed is a question for a workspace, or no question.           *)
Pushable(l) == l.question = Blank \/ (l.tab = "ask" /\ l.page # Dashboard /\ l # NoRoute)

LEMMA PushKeeps ==
  ASSUME NEW l, Pushable(l), Push(l), page' = page
  PROVE  QuestionUnderWay'
<1>1. CASE l.question # Blank /\ l.page # page
  BY <1>1 DEF Push, Pushable, QuestionUnderWay
<1>2. CASE ~(l.question # Blank /\ l.page # page)
  <2>1. carried' = Nowhere
    BY <1>2 DEF Push
  <2> QED BY <2>1 DEF QuestionUnderWay, Nowhere
<1> QED BY <1>1, <1>2

LEMMA LinksArePushable ==
  /\ \A p : Pushable(At(p))
  /\ \A p : Pushable([page |-> p, tab |-> "evidence", question |-> Blank])
  /\ \A list \in Listings : \A q : list # <<>> => Pushable(AskAt(list[1], q))
<1>1. ASSUME NEW list \in Listings, NEW q, list # <<>> PROVE Pushable(AskAt(list[1], q))
  <2>1. list[1] # Dashboard
    <3>1. list[1] \in Listable
      BY <1>1, FirstIsListable
    <3> QED BY <3>1, NavigationAssumption
  <2>2. AskAt(list[1], q) # NoRoute
    BY DEF AskAt, NoRoute
  <2> QED BY <2>1, <2>2 DEF Pushable, AskAt
<1> QED BY <1>1 DEF Pushable, At

(* Choosing a row either says that there is no workspace to ask, or pushes *)
(* where the row leads and closes the palette.                             *)
LEMMA RunKeeps ==
  ASSUME NavigationInv, NEW item, item.kind \in {"ask", "open"} \cup Commands, Run(item)
  PROVE  NavigationInv'
<1>1. CASE item.kind = "ask" /\ listed = <<>>
  BY <1>1 DEF Run, NavigationInv, QuestionUnderWay, HighlightUntouched, palette_vars, panel_vars
<1>2. CASE ~(item.kind = "ask" /\ listed = <<>>)
  <2>1. Push(Leads(item)) /\ ClosePalette
    BY <1>2 DEF Run
  <2>2. Pushable(Leads(item))
    BY <1>2, LinksArePushable DEF Leads, Commands, NavigationInv
  <2>3. QuestionUnderWay'
    BY <2>1, <2>2, PushKeeps DEF Run
  <2> QED BY <2>1, <2>3 DEF Run, ClosePalette, NavigationInv, HighlightUntouched, Texts
<1> QED BY <1>1, <1>2

LEMMA NavigationStarts == NavigationInit => NavigationInv
BY NavigationAssumption DEF NavigationInit, NavigationInv, QuestionUnderWay, HighlightUntouched, Texts

LEMMA NavigationKeeps ==
  NavigationInv /\ [NavigationNext]_navigation_vars => NavigationInv'
<1> SUFFICES ASSUME NavigationInv, [NavigationNext]_navigation_vars PROVE NavigationInv'
  OBVIOUS
<1> USE DEF NavigationInv
<1>1. CASE ShowRoute
  <2>1. QuestionUnderWay'
    <3>1. "ask" \in Tabs
      BY NavigationAssumption
    <3> QED BY <1>1, <3>1 DEF ShowRoute, ShowPage, QuestionUnderWay
  <2> QED BY <2>1, <1>1 DEF ShowRoute, ShowPage, HighlightUntouched, panel_vars, palette_vars, Texts
<1>2. ASSUME NEW l \in Location, FollowLink(l) PROVE NavigationInv'
  <2>1. Pushable(l)
    BY <1>2, LinksArePushable DEF FollowLink, Pushable
  <2>2. QuestionUnderWay'
    BY <1>2, <2>1, PushKeeps DEF FollowLink
  <2> QED BY <1>2, <2>2 DEF FollowLink, HighlightUntouched, palette_vars
<1>3. CASE Toggle \/ OpenPalette \/ Dismiss
  BY <1>3 DEF Toggle, OpenPalette, Dismiss, ClosePalette, QuestionUnderWay, HighlightUntouched,
     panel_vars, Texts
<1>4. ASSUME NEW i \in Nat, MoveTo(i) PROVE NavigationInv'
  BY <1>4 DEF MoveTo, QuestionUnderWay, HighlightUntouched, panel_vars
<1>5. Count \in Nat
  BY RowsOfThePalette DEF Count, items
<1>6. CASE ArrowDown
  <2>1. (IF Count = 0 THEN 0 ELSE (active + 1) % Count) \in Nat
    BY <1>5
  <2> QED BY <1>4, <1>6, <2>1 DEF ArrowDown
<1>7. CASE ArrowUp
  <2>1. (IF Count = 0 THEN 0 ELSE (active + Count - 1) % Count) \in Nat
    BY <1>5
  <2> QED BY <1>4, <1>7, <2>1 DEF ArrowUp
<1>8. ASSUME NEW i \in Nat, i < Count, Run(items[i + 1]) PROVE NavigationInv'
  <2>1. items[i + 1].kind \in {"ask", "open"} \cup Commands
    BY <1>5, <1>8, RowsOfThePalette DEF Count, items
  <2> QED BY <1>8, <2>1, RunKeeps
<1>9. CASE Enter
  BY <1>8, <1>9 DEF Enter
<1>10. ASSUME NEW i \in 0..Count, Hover(i) \/ Click(i) PROVE NavigationInv'
  <2>1. i \in Nat
    BY <1>5
  <2> QED BY <1>4, <1>8, <1>10, <2>1 DEF Hover, Click
<1>11. ASSUME NEW text \in Texts, Type(text) PROVE NavigationInv'
  BY <1>11 DEF Type, QuestionUnderWay, HighlightUntouched, panel_vars
<1>12. ASSUME NEW text \in Texts, EditBar(text) PROVE NavigationInv'
  BY <1>12 DEF EditBar, QuestionUnderWay, HighlightUntouched, panel_vars, palette_vars
<1>13. ASSUME NEW text \in Texts, EditInput(text) PROVE NavigationInv'
  BY <1>13 DEF EditInput, QuestionUnderWay, HighlightUntouched, Nowhere, palette_vars
<1>14. CASE SubmitBar
  <2>1. listed # <<>>
    BY <1>14, NavigationAssumption DEF SubmitBar
  <2>2. QuestionUnderWay'
    BY <1>14, <2>1, LinksArePushable, PushKeeps DEF SubmitBar
  <2> QED BY <1>14, <2>2 DEF SubmitBar, HighlightUntouched, palette_vars
<1>15. CASE SubmitQuestion
  BY <1>15 DEF SubmitQuestion, QuestionUnderWay, HighlightUntouched, Nowhere, palette_vars
<1>16. CASE AnswerEnds \/ WorkspaceFails \/ WorkspaceLoads
  BY <1>16 DEF AnswerEnds, WorkspaceFails, WorkspaceLoads, QuestionUnderWay, HighlightUntouched,
     palette_vars
<1>17. ASSUME NEW t \in Tabs, ChooseTab(t) PROVE NavigationInv'
  BY <1>17 DEF ChooseTab, QuestionUnderWay, HighlightUntouched, Nowhere, palette_vars
<1>18. ASSUME NEW l \in Listings, ListChanges(l) PROVE NavigationInv'
  BY <1>18 DEF ListChanges, QuestionUnderWay, HighlightUntouched, panel_vars, palette_vars
<1>19. ASSUME NEW g \in {"on", "off"}, HealthSays(g) PROVE NavigationInv'
  BY <1>19 DEF HealthSays, QuestionUnderWay, HighlightUntouched, panel_vars, palette_vars
<1>20. CASE UNCHANGED navigation_vars
  BY <1>20 DEF navigation_vars, QuestionUnderWay, HighlightUntouched, panel_vars, palette_vars
<1> QED
  BY <1>1, <1>2, <1>3, <1>6, <1>7, <1>9, <1>10, <1>11, <1>12, <1>13, <1>14, <1>15, <1>16, <1>17,
     <1>18, <1>19, <1>20
  DEF NavigationNext

(* However the palette is hidden and shown, the highlight moved and the    *)
(* list reloaded, a question is under way or arrived, and an untouched     *)
(* highlight is on the first row.                                          *)
THEOREM NavigationInvariant == NavigationSpec => []NavigationInv
BY NavigationStarts, NavigationKeeps, PTL DEF NavigationSpec

(* command-palette.tsx:80, dashboard-view.tsx:90: a question sent to       *)
(* another page arrives in its Ask tab, for any workspaces, texts and      *)
(* lists.                                                                  *)
THEOREM QuestionsAreCarried == NavigationSpec => []QuestionsArrive
<1>1. NavigationInv => QuestionsArrive
  BY DEF NavigationInv, QuestionUnderWay, QuestionsArrive
<1> QED BY <1>1, NavigationInvariant, PTL

(* command-palette.tsx:178: Enter after a question asks it, whatever the   *)
(* rows below were between the two keys.                                   *)
THEOREM EnterAsks == NavigationSpec => EnterAsksWhatWasTyped
<1>1. NavigationInv /\ Enter /\ ~moved /\ query # Blank /\ listed # <<>>
        => route' = AskAt(listed[1], query)
  <2> SUFFICES ASSUME NavigationInv, Enter, ~moved, query # Blank, listed # <<>>
               PROVE  route' = AskAt(listed[1], query)
    OBVIOUS
  <2>1. active = 0
    BY DEF NavigationInv, HighlightUntouched
  <2>2. Run(items[1])
    BY <2>1 DEF Enter
  <2>3. items[1].kind = "ask"
    BY RowsOfThePalette DEF NavigationInv, items, Entry
  <2>4. Leads(items[1]) = AskAt(listed[1], query)
    BY <2>3 DEF Leads
  <2> QED BY <2>2, <2>3, <2>4 DEF Run, Push
<1> QED BY <1>1, NavigationInvariant, PTL DEF EnterAsksWhatWasTyped, NavigationSpec

-----------------------------------------------------------------------------
(* The viewer.                                                             *)

(* The viewer on display is at a page of its file, if that is known, and   *)
(* at the page of the evidence until the reader turns away.                *)
AtEvidence ==
  OnShow =>
    LET cited == AtLeastOne(target.page)
        last == Pages[target.document]
    IN /\ pageNumber >= 1
       /\ Loaded => numPages = last /\ pageNumber <= last
       /\ ~turned => pageNumber = IF Loaded /\ cited > last THEN last ELSE cited

ViewerInv == ViewerTypes /\ AtEvidence

LEMMA TargetTypes ==
  ASSUME NEW t \in Targets
  PROVE  t.page \in Nat /\ Pages[t.document] \in Nat \ {0} /\ t # NoTarget
BY ViewerAssumption

LEMMA ViewerStarts == ViewerInit => ViewerInv
<1> SUFFICES ASSUME ViewerInit PROVE ViewerInv
  OBVIOUS
<1>1. ViewerTypes
  BY DEF ViewerInit, ViewerTypes
<1>2. ~OnShow
  BY DEF ViewerInit, OnShow
<1> QED BY <1>1, <1>2 DEF ViewerInv, AtEvidence

LEMMA ViewerKeeps == ViewerInv /\ [ViewerNext]_viewer_vars => ViewerInv'
<1> SUFFICES ASSUME ViewerInv, [ViewerNext]_viewer_vars PROVE ViewerInv'
  OBVIOUS
<1> USE DEF ViewerInv, ViewerTypes
<1>1. ASSUME NEW t \in Targets, panel' = TRUE, target' = t, Mounts(t) PROVE ViewerInv'
  <2>1. AtLeastOne(t.page) \in Nat \ {0}
    BY TargetTypes DEF AtLeastOne
  <2>2. numPages' = NoCount /\ pageNumber' = AtLeastOne(t.page) /\ layer' = NoLayer /\ turned' = FALSE
    BY <1>1 DEF Mounts, ShowAt
  <2>3. ~Loaded'
    BY <2>2 DEF Loaded
  <2>4. AtEvidence'
    BY <1>1, <2>1, <2>2, <2>3 DEF AtEvidence
  <2>5. ViewerTypes'
    BY <1>1, <2>1, <2>2
  <2> QED BY <2>4, <2>5
<1>2. ASSUME ~OnShow', UNCHANGED pdf_vars \/ Unmounts, panel' \in BOOLEAN,
             target' \in Targets \cup {NoTarget}
      PROVE  ViewerInv'
  <2>1. AtEvidence'
    BY <1>2 DEF AtEvidence
  <2>2. CASE UNCHANGED pdf_vars
    BY <1>2, <2>1, <2>2 DEF pdf_vars
  <2>3. CASE Unmounts
    BY <1>2, <2>1, <2>3 DEF Unmounts, ShowAt
  <2> QED BY <1>2, <2>2, <2>3
<1>3. ASSUME NEW t \in Targets, openEvidence(t) PROVE ViewerInv'
  <2>1. CASE target # NoTarget /\ SameViewer(target, t)
    BY <1>3, <2>1 DEF openEvidence, SameViewer, AtEvidence, OnShow, Loaded, pdf_vars
  <2>2. CASE ~(target # NoTarget /\ SameViewer(target, t))
    BY <1>1, <1>3, <2>2 DEF openEvidence
  <2> QED BY <2>1, <2>2
<1>4. CASE closeEvidence
  BY <1>2, <1>4 DEF closeEvidence, OnShow
<1>5. CASE LeaveWorkspace
  BY <1>2, <1>5 DEF LeaveWorkspace, OnShow
<1>6. CASE EnterWorkspace
  <2>1. CASE target = NoTarget
    BY <1>2, <1>6, <2>1 DEF EnterWorkspace, OnShow
  <2>2. CASE target # NoTarget
    BY <1>1, <1>6, <2>2 DEF EnterWorkspace
  <2> QED BY <2>1, <2>2
<1>7. ASSUME OnShow
      PROVE  /\ target \in Targets /\ target.page \in Nat /\ Pages[target.document] \in Nat \ {0}
             /\ pageNumber \in Nat /\ pageNumber >= 1
  BY <1>7, TargetTypes DEF OnShow, AtEvidence
<1>8. CASE onLoadSuccess
  BY <1>7, <1>8, ViewerAssumption DEF onLoadSuccess, AtEvidence, OnShow, Loaded, AtLeastOne
<1>9. ASSUME NEW p \in Int, OnShow, TurnTo(clampPage(p), TRUE) PROVE ViewerInv'
  BY <1>7, <1>9 DEF TurnTo, clampPage, AtEvidence, OnShow, Loaded, AtLeastOne
<1>10. CASE PreviousPage
  <2>1. pageNumber - 1 \in Int
    OBVIOUS
  <2> QED BY <1>9, <1>10, <2>1 DEF PreviousPage
<1>11. CASE NextPage
  <2>1. pageNumber + 1 \in Int
    OBVIOUS
  <2> QED BY <1>9, <1>11, <2>1 DEF NextPage
<1>12. CASE BackToEvidence
  <2>1. OnShow /\ TurnTo(citedPage, FALSE)
    BY <1>12 DEF BackToEvidence
  <2>2. citedPage = IF Loaded /\ AtLeastOne(target.page) > Pages[target.document]
                    THEN Pages[target.document] ELSE AtLeastOne(target.page)
    BY <1>7, <2>1 DEF citedPage, clampPage, AtLeastOne, AtEvidence
  <2>3. citedPage \in Nat /\ citedPage >= 1 /\ (Loaded => citedPage <= Pages[target.document])
    BY <1>7, <2>1, <2>2 DEF AtLeastOne
  <2>4. AtEvidence'
    BY <2>1, <2>2, <2>3 DEF TurnTo, AtEvidence, OnShow, Loaded
  <2> QED BY <2>1, <2>3, <2>4 DEF TurnTo
<1>13. CASE RenderPage
  BY <1>13 DEF RenderPage, AtEvidence, OnShow, Loaded
<1>14. CASE UNCHANGED viewer_vars
  BY <1>14 DEF viewer_vars, pdf_vars, AtEvidence, OnShow, Loaded
<1> QED
  BY <1>3, <1>4, <1>5, <1>6, <1>8, <1>10, <1>11, <1>12, <1>13, <1>14 DEF ViewerNext

(* The viewer's state keeps its shape for any documents and targets.       *)
THEOREM ViewerIsTyped == ViewerSpec => []ViewerTypes
<1>1. ViewerInv => ViewerTypes
  BY DEF ViewerInv
<1> QED BY <1>1, ViewerStarts, ViewerKeeps, PTL DEF ViewerSpec

(* evidence-viewer-panel.tsx:95: in whatever order evidence is opened,     *)
(* closed and left, and files load, the viewer is at its page.             *)
THEOREM ViewerIsAtEvidence == ViewerSpec => []ViewerShowsEvidence
<1>1. ViewerInv => ViewerShowsEvidence
  BY DEF ViewerInv, ViewerTypes, AtEvidence, ViewerShowsEvidence, Loaded
<1> QED BY <1>1, ViewerStarts, ViewerKeeps, PTL DEF ViewerSpec

-----------------------------------------------------------------------------
(* Quotes: what normalize keeps of how a text begins and ends.             *)

BeginsWith(s, t) == Len(t) <= Len(s) /\ \A i \in 1..Len(t) : s[i] = t[i]
EndsWith(s, t) == Len(t) <= Len(s) /\ \A i \in 1..Len(t) : s[Len(s) - Len(t) + i] = t[i]

(* One character more: it is added, unless it is another blank.            *)
LEMMA CollapseIs ==
  ASSUME NEW T
  PROVE  \A t \in Seq(T), c \in T :
           /\ Collapse(t, c) \in Seq(T)
           /\ \/ Collapse(t, c) = t /\ c = Space /\ AtBlank(t)
              \/ /\ Len(Collapse(t, c)) = Len(t) + 1
                 /\ \A i \in 1..Len(t) : Collapse(t, c)[i] = t[i]
                 /\ Collapse(t, c)[Len(t) + 1] = c
                 /\ c # Space \/ ~AtBlank(t)
<1> SUFFICES ASSUME NEW t \in Seq(T), NEW c \in T
             PROVE  /\ Collapse(t, c) \in Seq(T)
                    /\ \/ Collapse(t, c) = t /\ c = Space /\ AtBlank(t)
                       \/ /\ Len(Collapse(t, c)) = Len(t) + 1
                          /\ \A i \in 1..Len(t) : Collapse(t, c)[i] = t[i]
                          /\ Collapse(t, c)[Len(t) + 1] = c
                          /\ c # Space \/ ~AtBlank(t)
  OBVIOUS
<1> QED BY AppendProperties DEF Collapse

IsCollapse(f, s, T) ==
  /\ f \in [0..Len(s) -> Seq(T)] /\ f[0] = <<>>
  /\ \A k \in 1..Len(s) : f[k] = Collapse(f[k - 1], s[k])

(* normalize reads a text character by character.                          *)
LEMMA NormalizeReads ==
  ASSUME NEW T, NEW s \in Seq(T)
  PROVE  \E f : IsCollapse(f, s, T) /\ normalize(s) = Trim(f[Len(s)])
<1> DEFINE m == Len(s)
           Is(f) == f = [k \in 0..Len(s) |-> IF k = 0 THEN <<>> ELSE Collapse(f[k - 1], s[k])]
           step == [k \in 1..m |-> [t \in Seq(T) |-> Collapse(t, s[k])]]
           g == CHOOSE f : Is(f)
<1>1. m \in Nat /\ (\A k \in 1..m : s[k] \in T) /\ <<>> \in Seq(T)
  BY LenProperties, ElementOfSeq, EmptySeq
<1>2. step \in [1..m -> [Seq(T) -> Seq(T)]]
  BY <1>1, CollapseIs
<1>3. PICK f \in [0..m -> Seq(T)] : f[0] = <<>> /\ \A k \in 1..m : f[k] = step[k][f[k - 1]]
  <2> DEFINE S == Seq(T)
  <2>1. <<>> \in S /\ m \in Nat /\ step \in [1..m -> [S -> S]]
    BY <1>1, <1>2
  <2> HIDE DEF m, step, S
  <2>2. \E h : IsFold(h, <<>>, step, m, S)
    BY <2>1, FoldExists
  <2> QED BY <2>2 DEF IsFold, S
<1>4. ASSUME NEW k \in 1..m PROVE f[k] = Collapse(f[k - 1], s[k])
  <2>1. k - 1 \in 0..m
    BY <1>1
  <2>2. f[k - 1] \in Seq(T)
    BY <1>3, <2>1
  <2>3. f[k] = step[k][f[k - 1]]
    BY <1>3
  <2> QED BY <2>2, <2>3
<1>5. Is(f)
  <2> HIDE DEF step
  <2>1. ASSUME NEW k \in 0..m PROVE f[k] = IF k = 0 THEN <<>> ELSE Collapse(f[k - 1], s[k])
    <3>1. k = 0 \/ k \in 1..m
      BY <1>1
    <3> HIDE DEF m
    <3> QED BY <1>3, <1>4, <3>1
  <2> QED BY <1>3, <2>1
<1>6. Is(g)
  <2> HIDE DEF Is
  <2> QED BY <1>5, Zenon DEF g
<1>7. normalize(s) = Trim(g[Len(s)])
  BY Zenon DEF normalize
<1> HIDE DEF g
<1>8. g = [k \in 0..m |-> g[k]]
  BY <1>6
<1>9. g[0] = <<>> /\ \A k \in 1..m : g[k] = Collapse(g[k - 1], s[k])
  <2>1. \A k \in 0..m : g[k] = IF k = 0 THEN <<>> ELSE Collapse(g[k - 1], s[k])
    BY <1>6
  <2> HIDE DEF Is, step
  <2>2. 0 \in 0..m /\ \A k \in 1..m : k \in 0..m /\ k # 0
    BY <1>1
  <2> HIDE DEF m
  <2> QED BY <2>1, <2>2
<1> HIDE DEF Is, step, m
<1>10. \A k \in 0..m : g[k] \in Seq(T)
  <2> DEFINE P == {k \in 0..m : g[k] \in Seq(T)}
  <2>1. 0 \in P
    <3>1. g[0] \in Seq(T) /\ 0 \in 0..m
      BY <1>1, <1>9
    <3> QED BY <3>1
  <2>2. ASSUME NEW k \in 1..m, k - 1 \in P PROVE k \in P
    <3>1. g[k - 1] \in Seq(T) /\ s[k] \in T /\ k \in 0..m
      BY <1>1, <2>2
    <3>2. Collapse(g[k - 1], s[k]) \in Seq(T)
      BY <3>1, CollapseIs
    <3>3. g[k] \in Seq(T)
      BY <1>9, <3>2
    <3> QED BY <3>1, <3>3
  <2> HIDE DEF P
  <2>3. \A k \in 0..m : k \in P
    BY <1>1, <2>1, <2>2, ClosedIsAll
  <2> QED BY <2>3 DEF P
<1>11. g \in [0..m -> Seq(T)]
  BY <1>8, <1>10
<1> QED BY <1>7, <1>9, <1>11 DEF IsCollapse, m

(* What it has read, and what it reads next.                               *)
LEMMA CollapseTypes ==
  ASSUME NEW T, NEW s \in Seq(T), NEW f, IsCollapse(f, s, T)
  PROVE  /\ Len(s) \in Nat
         /\ \A k \in 0..Len(s) : f[k] \in Seq(T) /\ Len(f[k]) \in Nat
         /\ \A k \in 1..Len(s) :
              /\ s[k] \in T /\ k - 1 \in 0..Len(s) /\ f[k] = Collapse(f[k - 1], s[k])
BY LenProperties, ElementOfSeq DEF IsCollapse

(* The beginning of a text is read in the same way.                        *)
LEMMA CollapseOfBeginning ==
  ASSUME NEW T, NEW s \in Seq(T), NEW n \in 0..Len(s), NEW f, NEW g,
         IsCollapse(f, s, T), IsCollapse(g, SubSeq(s, 1, n), T)
  PROVE  g[n] = f[n]
<1>1. n \in Nat /\ n <= Len(s) /\ Len(s) \in Nat
  BY LenProperties
<1>2. Len(SubSeq(s, 1, n)) = n /\ \A k \in 1..n : SubSeq(s, 1, n)[k] = s[k]
  BY <1>1, SubSeqProperties, ElementOfSeq
<1>3. \A k \in 1..n : k \in 1..Len(s)
  BY <1>1
<1> DEFINE P == {k \in 0..n : g[k] = f[k]}
<1>4. 0 \in P
  BY <1>1 DEF IsCollapse
<1>5. ASSUME NEW k \in 1..n, k - 1 \in P PROVE k \in P
  <2>1. g[k] = Collapse(g[k - 1], s[k]) /\ f[k] = Collapse(f[k - 1], s[k])
    BY <1>2, <1>3 DEF IsCollapse
  <2> QED BY <1>5, <2>1
<1> HIDE DEF P
<1>6. \A k \in 0..n : k \in P
  BY <1>1, <1>4, <1>5, ClosedIsAll
<1> QED BY <1>1, <1>6 DEF P

(* A character more does not change the beginning.                         *)
LEMMA BeginsFurther ==
  ASSUME NEW T, NEW u \in Seq(T), NEW v \in Seq(T), NEW c \in T, BeginsWith(v, u)
  PROVE  BeginsWith(Collapse(v, c), u)
<1>1. Len(u) \in Nat /\ Len(v) \in Nat
  BY LenProperties
<1>2. Collapse(v, c) = v \/ (/\ Len(Collapse(v, c)) = Len(v) + 1
                             /\ \A i \in 1..Len(v) : Collapse(v, c)[i] = v[i])
  BY CollapseIs
<1> DEFINE w == Collapse(v, c)
<1> HIDE DEF w
<1>3. BeginsWith(w, u)
  BY <1>1, <1>2 DEF BeginsWith, w
<1> QED BY <1>3 DEF w

(* What was read stays.                                                    *)
LEMMA CollapseGrows ==
  ASSUME NEW T, NEW s \in Seq(T), NEW n \in 0..Len(s), NEW f, IsCollapse(f, s, T)
  PROVE  BeginsWith(f[Len(s)], f[n])
<1> DEFINE m == Len(s)
           P == {k \in 0..m : k >= n => BeginsWith(f[k], f[n])}
<1>1. /\ m \in Nat /\ \A k \in 0..m : f[k] \in Seq(T) /\ Len(f[k]) \in Nat
      /\ \A k \in 1..m : s[k] \in T /\ k - 1 \in 0..m /\ f[k] = Collapse(f[k - 1], s[k])
  BY CollapseTypes
<1>2. BeginsWith(f[n], f[n]) /\ n \in Nat /\ n <= m
  BY <1>1 DEF BeginsWith
<1> HIDE DEF m
<1>3. 0 \in P
  BY <1>1, <1>2
<1>4. ASSUME NEW k \in 1..m, k - 1 \in P PROVE k \in P
  <2>1. CASE k <= n
    BY <1>1, <1>2, <2>1
  <2>2. CASE k > n
    <3>1. BeginsWith(f[k - 1], f[n])
      BY <1>1, <1>2, <1>4, <2>2
    <3>2. f[n] \in Seq(T) /\ f[k - 1] \in Seq(T) /\ s[k] \in T /\ f[k] = Collapse(f[k - 1], s[k])
      BY <1>1, <1>2
    <3>3. BeginsWith(f[k], f[n])
      BY <3>1, <3>2, BeginsFurther
    <3> QED BY <3>3
  <2> QED BY <1>1, <1>2, <2>1, <2>2
<1> HIDE DEF P
<1>5. \A k \in 0..m : k \in P
  BY <1>1, <1>3, <1>4, ClosedIsAll
<1>6. m \in P /\ m >= n
  BY <1>1, <1>2, <1>5
<1> QED BY <1>6 DEF P, m

(* Every text ends with nothing.                                           *)
LEMMA AlwaysEnds ==
  ASSUME NEW T, NEW v \in Seq(T)
  PROVE  EndsWith(v, <<>>) /\ Len(v) \in Nat
BY LenProperties, EmptySeq DEF EndsWith

(* A character more at the end of both.                                    *)
LEMMA EndsFurther ==
  ASSUME NEW T, NEW u \in Seq(T), NEW v \in Seq(T), NEW c \in T, EndsWith(v, u)
  PROVE  EndsWith(Collapse(v, c), Collapse(u, c))
<1> DEFINE w == Collapse(v, c)
           x == Collapse(u, c)
<1>1. Len(u) \in Nat /\ Len(v) \in Nat /\ w \in Seq(T) /\ x \in Seq(T)
  BY CollapseIs, LenProperties
<1>2. /\ u = <<>> <=> Len(u) = 0
      /\ v = <<>> <=> Len(v) = 0
  BY EmptySeq, LenProperties
<1>3. \/ w = v /\ c = Space /\ AtBlank(v)
      \/ /\ Len(w) = Len(v) + 1
         /\ \A i \in 1..Len(v) : w[i] = v[i]
         /\ w[Len(v) + 1] = c
         /\ c # Space \/ ~AtBlank(v)
  BY CollapseIs
<1>4. \/ x = u /\ c = Space /\ AtBlank(u)
      \/ /\ Len(x) = Len(u) + 1
         /\ \A i \in 1..Len(u) : x[i] = u[i]
         /\ x[Len(u) + 1] = c
         /\ c # Space \/ ~AtBlank(u)
  BY CollapseIs
<1> HIDE DEF w, x
<1>5. CASE u = <<>>
  <2>1. AtBlank(u)
    BY <1>5 DEF AtBlank
  <2>2. CASE x = u
    BY <1>1, <1>5, <2>2, AlwaysEnds DEF w, x
  <2>3. CASE x # u
    <3>1. Len(x) = 1 /\ x[1] = c /\ c # Space
      BY <1>2, <1>4, <1>5, <2>1, <2>3
    <3>2. Len(w) = Len(v) + 1 /\ w[Len(v) + 1] = c
      BY <1>3, <3>1
    <3>3. EndsWith(w, x)
      BY <1>1, <3>1, <3>2 DEF EndsWith
    <3> QED BY <3>3 DEF w, x
  <2> QED BY <2>2, <2>3
<1>6. CASE u # <<>>
  <2>1. Len(u) > 0 /\ v # <<>> /\ v[Len(v)] = u[Len(u)]
    BY <1>1, <1>2, <1>6 DEF EndsWith
  <2>2. AtBlank(u) <=> AtBlank(v)
    BY <1>6, <2>1 DEF AtBlank
  <2>3. CASE x = u /\ w = v
    BY <2>3 DEF w, x
  <2>4. CASE /\ Len(w) = Len(v) + 1 /\ (\A i \in 1..Len(v) : w[i] = v[i]) /\ w[Len(v) + 1] = c
             /\ Len(x) = Len(u) + 1 /\ (\A i \in 1..Len(u) : x[i] = u[i]) /\ x[Len(u) + 1] = c
    <3>1. ASSUME NEW i \in 1..Len(x) PROVE x[i] = w[Len(w) - Len(x) + i]
      <4>1. CASE i = Len(u) + 1
        <5>1. Len(w) - Len(x) + i = Len(v) + 1
          BY <1>1, <2>4, <4>1
        <5> QED BY <2>4, <4>1, <5>1
      <4>2. CASE i \in 1..Len(u)
        <5>1. Len(w) - Len(x) + i = Len(v) - Len(u) + i /\ Len(v) - Len(u) + i \in 1..Len(v)
          BY <1>1, <2>4, <4>2 DEF EndsWith
        <5> QED BY <2>4, <4>2, <5>1 DEF EndsWith
      <4> QED BY <1>1, <2>4, <4>1, <4>2
    <3>2. Len(x) <= Len(w)
      BY <1>1, <2>4 DEF EndsWith
    <3>3. EndsWith(w, x)
      BY <3>1, <3>2 DEF EndsWith
    <3> QED BY <3>3 DEF w, x
  <2> QED BY <1>3, <1>4, <2>2, <2>3, <2>4
<1> QED BY <1>5, <1>6

(* What comes before a text only adds before it.                           *)
LEMMA CollapseOfEnd ==
  ASSUME NEW T, NEW s \in Seq(T), NEW n \in 0..Len(s), NEW f, NEW g,
         IsCollapse(f, s, T), IsCollapse(g, SubSeq(s, n + 1, Len(s)), T)
  PROVE  EndsWith(f[Len(s)], g[Len(SubSeq(s, n + 1, Len(s)))])
<1> DEFINE t == SubSeq(s, n + 1, Len(s))
           m == Len(s) - n
           P == {k \in 0..m : EndsWith(f[n + k], g[k])}
<1>1. n \in Nat /\ n <= Len(s) /\ Len(s) \in Nat
  BY LenProperties
<1>2. t \in Seq(T) /\ Len(t) = m /\ m \in Nat /\ \A k \in 1..m : t[k] = s[n + k]
  <2>1. \A k \in (n + 1)..Len(s) : s[k] \in T
    BY <1>1, ElementOfSeq
  <2> QED BY <1>1, <2>1, SubSeqProperties
<1>3. /\ \A k \in 0..Len(s) : f[k] \in Seq(T)
      /\ \A k \in 1..Len(s) : s[k] \in T /\ f[k] = Collapse(f[k - 1], s[k])
  BY CollapseTypes
<1>4. g[0] = <<>> /\ IsCollapse(g, t, T)
  BY DEF IsCollapse
<1> HIDE DEF t, m
<1>5. /\ \A k \in 0..m : g[k] \in Seq(T)
      /\ \A k \in 1..m : t[k] \in T /\ g[k] = Collapse(g[k - 1], t[k])
  <2>1. /\ \A k \in 0..Len(t) : g[k] \in Seq(T)
        /\ \A k \in 1..Len(t) : t[k] \in T /\ g[k] = Collapse(g[k - 1], t[k])
    BY <1>2, <1>4, CollapseTypes
  <2> QED BY <1>2, <2>1
<1>6. \A k \in 0..m : n + k \in 0..Len(s)
  BY <1>1, <1>2 DEF m
<1>7. 0 \in P
  <2>1. 0 \in 0..m /\ n + 0 = n /\ f[n] \in Seq(T)
    BY <1>1, <1>2, <1>3
  <2>2. EndsWith(f[n], g[0])
    BY <1>4, <2>1, AlwaysEnds
  <2> QED BY <2>1, <2>2
<1>8. ASSUME NEW k \in 1..m, k - 1 \in P PROVE k \in P
  <2>1. k - 1 \in 0..m /\ n + k \in 1..Len(s) /\ (n + k) - 1 = n + (k - 1) /\ k \in 0..m
    BY <1>1, <1>2, <1>6
  <2>2. f[n + k] = Collapse(f[n + (k - 1)], s[n + k]) /\ f[n + (k - 1)] \in Seq(T)
    BY <1>3, <1>6, <2>1
  <2>3. g[k] = Collapse(g[k - 1], s[n + k]) /\ g[k - 1] \in Seq(T) /\ s[n + k] \in T
    BY <1>2, <1>3, <1>5, <2>1
  <2>4. EndsWith(f[n + (k - 1)], g[k - 1])
    BY <1>8
  <2>5. EndsWith(f[n + k], g[k])
    BY <2>2, <2>3, <2>4, EndsFurther
  <2> QED BY <2>1, <2>5
<1> HIDE DEF P
<1>9. \A k \in 0..m : k \in P
  BY <1>2, <1>7, <1>8, ClosedIsAll
<1>10. m \in P /\ n + m = Len(s)
  BY <1>1, <1>2, <1>9 DEF m
<1>11. EndsWith(f[n + m], g[m])
  BY <1>10 DEF P
<1> QED BY <1>2, <1>10, <1>11 DEF t

(* A blank at the end goes.                                                *)
LEMMA TrimIs ==
  ASSUME NEW T, NEW t \in Seq(T)
  PROVE  /\ Trim(t) \in Seq(T) /\ Len(t) \in Nat /\ Len(Trim(t)) \in Nat
         /\ Len(t) > 0 /\ t[Len(t)] = Space => Len(Trim(t)) = Len(t) - 1
         /\ ~(Len(t) > 0 /\ t[Len(t)] = Space) => Len(Trim(t)) = Len(t)
         /\ \A i \in 1..Len(Trim(t)) : Trim(t)[i] = t[i]
<1>1. Len(t) \in Nat /\ (t = <<>> <=> Len(t) = 0) /\ \A i \in 1..Len(t) : t[i] \in T
  BY LenProperties, EmptySeq, ElementOfSeq
<1>2. CASE Len(t) > 0 /\ t[Len(t)] = Space
  <2>1. Trim(t) = SubSeq(t, 1, Len(t) - 1)
    BY <1>1, <1>2 DEF Trim, AtBlank, Front
  <2>2. \A i \in 1..(Len(t) - 1) : t[i] \in T
    BY <1>1
  <2>3. /\ SubSeq(t, 1, Len(t) - 1) \in Seq(T) /\ Len(SubSeq(t, 1, Len(t) - 1)) = Len(t) - 1
        /\ \A i \in 1..(Len(t) - 1) : SubSeq(t, 1, Len(t) - 1)[i] = t[i]
    <3> DEFINE n == Len(t) - 1
    <3>1. n \in Nat /\ \A i \in 1..n : t[i] \in T
      BY <1>1, <1>2, <2>2
    <3> HIDE DEF n
    <3>2. /\ SubSeq(t, 1, n) \in Seq(T) /\ Len(SubSeq(t, 1, n)) = n
          /\ \A i \in 1..n : SubSeq(t, 1, n)[i] = t[i]
      BY <3>1, SubSeqProperties
    <3> QED BY <3>2 DEF n
  <2> QED BY <1>1, <1>2, <2>1, <2>3
<1>3. CASE ~(Len(t) > 0 /\ t[Len(t)] = Space)
  <2>1. Trim(t) = t
    BY <1>1, <1>3 DEF Trim, AtBlank
  <2> QED BY <1>1, <1>3, <2>1
<1> QED BY <1>2, <1>3

(* Where the longer text loses its blank, the shorter has it as well,      *)
(* or is shorter still;                                                    *)
LEMMA TrimBegins ==
  ASSUME NEW T, NEW u \in Seq(T), NEW v \in Seq(T), BeginsWith(v, u)
  PROVE  BeginsWith(Trim(v), Trim(u))
<1> DEFINE x == Trim(u)
           y == Trim(v)
<1>1. /\ Len(u) \in Nat /\ Len(x) \in Nat
      /\ Len(u) > 0 /\ u[Len(u)] = Space => Len(x) = Len(u) - 1
      /\ ~(Len(u) > 0 /\ u[Len(u)] = Space) => Len(x) = Len(u)
      /\ \A i \in 1..Len(x) : x[i] = u[i]
  BY TrimIs
<1>2. /\ Len(v) \in Nat /\ Len(y) \in Nat
      /\ Len(v) > 0 /\ v[Len(v)] = Space => Len(y) = Len(v) - 1
      /\ ~(Len(v) > 0 /\ v[Len(v)] = Space) => Len(y) = Len(v)
      /\ \A i \in 1..Len(y) : y[i] = v[i]
  BY TrimIs
<1> HIDE DEF x, y
<1>3. Len(x) <= Len(y)
  BY <1>1, <1>2 DEF BeginsWith
<1>4. \A i \in 1..Len(x) : y[i] = x[i]
  BY <1>1, <1>2, <1>3 DEF BeginsWith
<1> QED BY <1>3, <1>4 DEF BeginsWith, x, y

(* and at the end both have it or neither.                                 *)
LEMMA TrimEnds ==
  ASSUME NEW T, NEW u \in Seq(T), NEW v \in Seq(T), EndsWith(v, u)
  PROVE  EndsWith(Trim(v), Trim(u))
<1> DEFINE x == Trim(u)
           y == Trim(v)
<1>1. /\ Len(u) \in Nat /\ Len(x) \in Nat
      /\ Len(u) > 0 /\ u[Len(u)] = Space => Len(x) = Len(u) - 1
      /\ ~(Len(u) > 0 /\ u[Len(u)] = Space) => Len(x) = Len(u)
      /\ \A i \in 1..Len(x) : x[i] = u[i]
  BY TrimIs
<1>2. /\ Len(v) \in Nat /\ Len(y) \in Nat
      /\ Len(v) > 0 /\ v[Len(v)] = Space => Len(y) = Len(v) - 1
      /\ ~(Len(v) > 0 /\ v[Len(v)] = Space) => Len(y) = Len(v)
      /\ \A i \in 1..Len(y) : y[i] = v[i]
  BY TrimIs
<1> HIDE DEF x, y
<1>3. CASE Len(u) = 0
  BY <1>1, <1>2, <1>3 DEF EndsWith, x, y
<1>4. CASE Len(u) > 0
  <2>1. Len(v) > 0 /\ u[Len(u)] = v[Len(v)]
    BY <1>1, <1>2, <1>4 DEF EndsWith
  <2>2. Len(x) <= Len(y) /\ Len(y) - Len(x) = Len(v) - Len(u)
    <3>1. Len(u) <= Len(v)
      BY DEF EndsWith
    <3>2. CASE u[Len(u)] = Space
      <4>1. Len(x) = Len(u) - 1 /\ Len(y) = Len(v) - 1
        BY <1>1, <1>2, <1>4, <2>1, <3>2
      <4> QED BY <1>1, <1>2, <3>1, <4>1
    <3>3. CASE u[Len(u)] # Space
      <4>1. Len(x) = Len(u) /\ Len(y) = Len(v)
        BY <1>1, <1>2, <1>4, <2>1, <3>3
      <4> QED BY <1>1, <1>2, <3>1, <4>1
    <3> QED BY <3>2, <3>3
  <2>3. ASSUME NEW i \in 1..Len(x) PROVE y[Len(y) - Len(x) + i] = x[i]
    <3>1. i \in 1..Len(u) /\ Len(y) - Len(x) + i \in 1..Len(y)
      BY <1>1, <1>2, <1>4, <2>2
    <3> QED BY <1>1, <1>2, <2>2, <3>1 DEF EndsWith
  <2> QED BY <2>2, <2>3 DEF EndsWith, x, y
<1> QED BY <1>1, <1>3, <1>4

(* The normalized beginning of a text is the beginning of the normalized   *)
(* text,                                                                   *)
LEMMA NormalizedBeginning ==
  ASSUME NEW T, NEW s \in Seq(T), NEW n \in 0..Len(s)
  PROVE  /\ normalize(s) \in Seq(T) /\ normalize(SubSeq(s, 1, n)) \in Seq(T)
         /\ BeginsWith(normalize(s), normalize(SubSeq(s, 1, n)))
<1> DEFINE p == SubSeq(s, 1, n)
<1>1. n \in Nat /\ n <= Len(s) /\ Len(s) \in Nat
  BY LenProperties
<1>2. p \in Seq(T) /\ Len(p) = n
  BY <1>1, SubSeqProperties, ElementOfSeq
<1>3. PICK f : IsCollapse(f, s, T) /\ normalize(s) = Trim(f[Len(s)])
  BY NormalizeReads
<1>4. PICK g : IsCollapse(g, p, T) /\ normalize(p) = Trim(g[Len(p)])
  <2> HIDE DEF p
  <2> QED BY <1>2, NormalizeReads
<1>5. normalize(p) = Trim(f[n])
  BY <1>2, <1>3, <1>4, CollapseOfBeginning
<1>6. f[n] \in Seq(T) /\ f[Len(s)] \in Seq(T)
  BY <1>1, <1>3, CollapseTypes
<1>7. BeginsWith(f[Len(s)], f[n])
  BY <1>3, CollapseGrows
<1>8. BeginsWith(Trim(f[Len(s)]), Trim(f[n])) /\ Trim(f[n]) \in Seq(T) /\ Trim(f[Len(s)]) \in Seq(T)
  BY <1>6, <1>7, TrimBegins, TrimIs
<1> QED BY <1>3, <1>5, <1>8

(* A normalized text is one of the same characters,                        *)
LEMMA NormalizedTypes ==
  ASSUME NEW T
  PROVE  \A s \in Seq(T) : normalize(s) \in Seq(T)
<1> SUFFICES ASSUME NEW s \in Seq(T) PROVE normalize(s) \in Seq(T)
  OBVIOUS
<1>1. 0 \in 0..Len(s)
  BY LenProperties
<1> QED BY <1>1, NormalizedBeginning

(* and the same of its end.                                                *)
LEMMA NormalizedEnd ==
  ASSUME NEW T, NEW s \in Seq(T), NEW n \in 0..Len(s)
  PROVE  EndsWith(normalize(s), normalize(SubSeq(s, n + 1, Len(s))))
<1> DEFINE p == SubSeq(s, n + 1, Len(s))
<1>1. n \in Nat /\ n <= Len(s) /\ Len(s) \in Nat
  BY LenProperties
<1>2. p \in Seq(T)
  <2>1. \A k \in (n + 1)..Len(s) : s[k] \in T
    BY <1>1, ElementOfSeq
  <2> QED BY <1>1, <2>1, SubSeqProperties
<1>3. PICK f : IsCollapse(f, s, T) /\ normalize(s) = Trim(f[Len(s)])
  BY NormalizeReads
<1>4. PICK g : IsCollapse(g, p, T) /\ normalize(p) = Trim(g[Len(p)])
  <2> HIDE DEF p
  <2> QED BY <1>2, NormalizeReads
<1>5. EndsWith(f[Len(s)], g[Len(p)])
  BY <1>3, <1>4, CollapseOfEnd
<1> HIDE DEF p
<1>6. Len(p) \in Nat
  BY <1>2, LenProperties
<1>7. f[Len(s)] \in Seq(T) /\ g[Len(p)] \in Seq(T)
  BY <1>1, <1>2, <1>3, <1>4, <1>6, CollapseTypes
<1>8. EndsWith(Trim(f[Len(s)]), Trim(g[Len(p)]))
  BY <1>5, <1>7, TrimEnds
<1> QED BY <1>3, <1>4, <1>8 DEF p

-----------------------------------------------------------------------------
(* Pieces of texts, and texts included in others.                          *)

(* t is in s where its characters are.                                     *)
LEMMA IncludesAt ==
  ASSUME NEW T, NEW s \in Seq(T), NEW t \in Seq(T), NEW k \in Nat,
         k + Len(t) <= Len(s), \A i \in 1..Len(t) : s[k + i] = t[i]
  PROVE  SubSeq(s, k + 1, k + Len(t)) = t /\ Includes(s, t)
<1>1. Len(s) \in Nat /\ Len(t) \in Nat
  BY LenProperties
<1> DEFINE n == Len(t)
           w == SubSeq(s, k + 1, k + n)
<1>2. \A i \in (k + 1)..(k + n) : s[i] \in T
  BY <1>1, ElementOfSeq
<1>3. w \in Seq(T) /\ Len(w) = n /\ \A i \in 1..n : w[i] = s[k + i]
  <2>1. n \in Nat
    BY <1>1
  <2> HIDE DEF n
  <2>2. k + 1 \in Int /\ k + n \in Int /\ (k + n) - (k + 1) + 1 = n
    BY <2>1
  <2> QED BY <1>2, <2>1, <2>2, SubSeqProperties
<1>4. \A i \in 1..n : w[i] = t[i]
  BY <1>3
<1> HIDE DEF w
<1>5. w = t
  BY <1>3, <1>4, SeqEqual
<1>6. k \in 0..Len(s)
  BY <1>1
<1> QED BY <1>5, <1>6 DEF Includes, w

(* The beginning of a text, and its end, as the operators of the model     *)
(* take them.                                                              *)
LEMMA BeginningIs ==
  ASSUME NEW T, NEW s \in Seq(T), NEW t \in Seq(T), BeginsWith(s, t)
  PROVE  /\ Len(t) \in Nat /\ Len(s) \in Nat /\ Len(t) <= Len(s)
         /\ Includes(s, t) /\ Leading(s, Len(t)) = t
<1>1. Len(s) \in Nat /\ Len(t) \in Nat
  BY LenProperties
<1>2. 0 + Len(t) <= Len(s) /\ \A i \in 1..Len(t) : s[0 + i] = t[i]
  BY <1>1 DEF BeginsWith
<1>3. SubSeq(s, 0 + 1, 0 + Len(t)) = t /\ Includes(s, t)
  BY <1>2, IncludesAt
<1>4. 0 + 1 = 1 /\ 0 + Len(t) = Len(t)
  BY <1>1
<1> QED BY <1>1, <1>2, <1>3, <1>4 DEF Leading

LEMMA EndIs ==
  ASSUME NEW T, NEW s \in Seq(T), NEW t \in Seq(T), EndsWith(s, t)
  PROVE  /\ Len(t) \in Nat /\ Len(s) \in Nat /\ Len(t) <= Len(s)
         /\ Includes(s, t) /\ Trailing(s, Len(t)) = t
<1> DEFINE k == Len(s) - Len(t)
<1>1. Len(s) \in Nat /\ Len(t) \in Nat /\ Len(t) <= Len(s)
  BY LenProperties DEF EndsWith
<1>2. k \in Nat /\ k + Len(t) = Len(s) /\ \A i \in 1..Len(t) : s[k + i] = t[i]
  BY <1>1 DEF EndsWith
<1>3. Trailing(s, Len(t)) = SubSeq(s, k + 1, Len(s))
  BY DEF Trailing
<1> HIDE DEF k
<1>4. SubSeq(s, k + 1, k + Len(t)) = t /\ Includes(s, t)
  BY <1>1, <1>2, IncludesAt
<1> QED BY <1>1, <1>2, <1>3, <1>4

(* A piece of a piece.                                                     *)
LEMMA PieceIs ==
  ASSUME NEW T, NEW s \in Seq(T), NEW a \in Nat \ {0}, NEW b \in Nat, b <= Len(s)
  PROVE  /\ SubSeq(s, a, b) \in Seq(T)
         /\ Len(SubSeq(s, a, b)) = IF a <= b THEN b - a + 1 ELSE 0
         /\ \A i \in 1..(b - a + 1) : SubSeq(s, a, b)[i] = s[a + i - 1]
<1>1. Len(s) \in Nat
  BY LenProperties
<1>2. \A i \in a..b : s[i] \in T
  BY <1>1, ElementOfSeq
<1> QED BY <1>2, SubSeqProperties

LEMMA PieceOfPiece ==
  ASSUME NEW T, NEW s \in Seq(T), NEW a \in Nat \ {0}, NEW b \in Nat, b <= Len(s),
         NEW c \in Nat, NEW d \in Nat, a <= c, c <= d, d <= b
  PROVE  SubSeq(s, c, d) = SubSeq(SubSeq(s, a, b), c - a + 1, d - a + 1)
<1> DEFINE t == SubSeq(s, a, b)
           u == SubSeq(s, c, d)
           v == SubSeq(t, c - a + 1, d - a + 1)
<1>1. t \in Seq(T) /\ Len(t) = b - a + 1 /\ \A i \in 1..(b - a + 1) : t[i] = s[a + i - 1]
  BY PieceIs
<1>2. Len(s) \in Nat /\ d <= Len(s) /\ c \in Nat \ {0}
  BY LenProperties
<1>3. u \in Seq(T) /\ Len(u) = d - c + 1 /\ \A i \in 1..(d - c + 1) : u[i] = s[c + i - 1]
  BY <1>2, PieceIs
<1>4. c - a + 1 \in Nat \ {0} /\ d - a + 1 \in Nat /\ d - a + 1 <= Len(t) /\ c - a + 1 <= d - a + 1
      /\ (d - a + 1) - (c - a + 1) + 1 = d - c + 1
  BY <1>1
<1> HIDE DEF t
<1>5. v \in Seq(T) /\ Len(v) = d - c + 1 /\ \A i \in 1..(d - c + 1) : v[i] = t[(c - a + 1) + i - 1]
  BY <1>1, <1>4, PieceIs
<1> HIDE DEF u, v
<1>6. ASSUME NEW i \in 1..(d - c + 1) PROVE u[i] = v[i]
  <2>1. (c - a + 1) + i - 1 \in 1..(b - a + 1) /\ a + ((c - a + 1) + i - 1) - 1 = c + i - 1
    OBVIOUS
  <2> QED BY <1>1, <1>3, <1>5, <2>1
<1>7. u = v
  BY <1>3, <1>5, <1>6, SeqEqual
<1> QED BY <1>7 DEF u, v, t

(* What is in a text is in the normalized text.                            *)
LEMMA NormalizedMiddle ==
  ASSUME NEW T, NEW s \in Seq(T), NEW a \in Nat \ {0}, NEW b \in Nat, a <= b, b <= Len(s)
  PROVE  Includes(normalize(s), normalize(SubSeq(s, a, b)))
<1> DEFINE n == a - 1
           e == SubSeq(s, n + 1, Len(s))
           p == SubSeq(s, a, b)
           S == normalize(s)
           E == normalize(e)
           Q == normalize(p)
<1>1. Len(s) \in Nat /\ n \in 0..Len(s) /\ n + 1 = a
  BY LenProperties
<1>2. e \in Seq(T) /\ Len(e) = Len(s) - a + 1
  BY <1>1, PieceIs
<1>3. p = SubSeq(e, 1, b - a + 1)
  <2>1. a - a + 1 = 1
    OBVIOUS
  <2> QED BY <1>1, <2>1, PieceOfPiece
<1>4. b - a + 1 \in 0..Len(e)
  BY <1>1, <1>2
<1>5. S \in Seq(T) /\ EndsWith(S, E)
  <2>1. 0 \in 0..Len(s)
    BY <1>1
  <2> HIDE DEF n
  <2> QED BY <1>1, <2>1, NormalizedEnd, NormalizedBeginning
<1> HIDE DEF e, p
<1>6. E \in Seq(T) /\ Q \in Seq(T) /\ BeginsWith(E, Q)
  BY <1>2, <1>3, <1>4, NormalizedBeginning
<1> HIDE DEF S, E, Q
<1>7. Len(S) \in Nat /\ Len(E) \in Nat /\ Len(Q) \in Nat
  BY <1>5, <1>6, LenProperties
<1> DEFINE k == Len(S) - Len(E)
<1>8. k \in Nat /\ k + Len(Q) <= Len(S) /\ \A i \in 1..Len(Q) : S[k + i] = Q[i]
  BY <1>5, <1>6, <1>7 DEF EndsWith, BeginsWith
<1> HIDE DEF k
<1>9. Includes(S, Q)
  BY <1>5, <1>6, <1>8, IncludesAt
<1> QED BY <1>9 DEF S, Q, p

-----------------------------------------------------------------------------
(* The page: its lines one after the other.                                *)

IsPage(f, lines, T) ==
  /\ f \in [0..Len(lines) -> Seq(T)] /\ f[0] = <<>>
  /\ \A k \in 1..Len(lines) : f[k] = f[k - 1] \o <<Space>> \o lines[k]

(* A line more on the page.                                                *)
LEMMA LineAdded ==
  ASSUME NEW T, Space \in T
  PROVE  \A text \in Seq(T), line \in Seq(T) :
           /\ text \o <<Space>> \o line \in Seq(T)
           /\ Len(text) \in Nat /\ Len(line) \in Nat
           /\ Len(text \o <<Space>> \o line) = Len(text) + 1 + Len(line)
           /\ \A i \in 1..Len(text) : (text \o <<Space>> \o line)[i] = text[i]
           /\ \A i \in 1..Len(line) : (text \o <<Space>> \o line)[Len(text) + 1 + i] = line[i]
<1> SUFFICES ASSUME NEW text \in Seq(T), NEW line \in Seq(T)
             PROVE  /\ text \o <<Space>> \o line \in Seq(T)
                    /\ Len(text) \in Nat /\ Len(line) \in Nat
                    /\ Len(text \o <<Space>> \o line) = Len(text) + 1 + Len(line)
                    /\ \A i \in 1..Len(text) : (text \o <<Space>> \o line)[i] = text[i]
                    /\ \A i \in 1..Len(line) :
                         (text \o <<Space>> \o line)[Len(text) + 1 + i] = line[i]
  OBVIOUS
<1> DEFINE u == text \o <<Space>>
<1>1. Len(text) \in Nat /\ Len(line) \in Nat
  BY LenProperties
<1>2. <<Space>> \in Seq(T) /\ Len(<<Space>>) = 1
  OBVIOUS
<1>3. /\ u \in Seq(T) /\ Len(u) = Len(text) + 1
      /\ \A i \in 1..Len(text) : u[i] = text[i]
  BY <1>1, <1>2, ConcatProperties
<1> HIDE DEF u
<1>4. /\ u \o line \in Seq(T) /\ Len(u \o line) = Len(u) + Len(line)
      /\ \A i \in 1..(Len(u) + Len(line)) :
           (u \o line)[i] = IF i <= Len(u) THEN u[i] ELSE line[i - Len(u)]
  BY <1>3, ConcatProperties
<1> DEFINE v == u \o line
<1> HIDE DEF v
<1>5. /\ v \in Seq(T) /\ Len(v) = Len(text) + 1 + Len(line)
      /\ \A i \in 1..Len(text) : v[i] = text[i]
      /\ \A i \in 1..Len(line) : v[Len(text) + 1 + i] = line[i]
  BY <1>1, <1>3, <1>4 DEF v
<1> QED BY <1>1, <1>5 DEF v, u

(* A page is its lines one after the other.                                *)
LEMMA PageReads ==
  ASSUME NEW T, Space \in T, NEW lines \in Seq(Seq(T))
  PROVE  \E f : IsPage(f, lines, T) /\ PageText(lines) = f[Len(lines)]
<1> DEFINE m == Len(lines)
           Is(f) == f = [k \in 0..Len(lines) |->
                           IF k = 0 THEN <<>> ELSE f[k - 1] \o <<Space>> \o lines[k]]
           step == [k \in 1..m |-> [t \in Seq(T) |-> t \o <<Space>> \o lines[k]]]
           g == CHOOSE f : Is(f)
<1>1. m \in Nat /\ (\A k \in 1..m : lines[k] \in Seq(T)) /\ <<>> \in Seq(T)
  BY LenProperties, ElementOfSeq, EmptySeq
<1>2. step \in [1..m -> [Seq(T) -> Seq(T)]]
  <2>1. \A k \in 1..m : \A t \in Seq(T) : t \o <<Space>> \o lines[k] \in Seq(T)
    BY <1>1, LineAdded
  <2> QED BY <2>1
<1>3. PICK f \in [0..m -> Seq(T)] : f[0] = <<>> /\ \A k \in 1..m : f[k] = step[k][f[k - 1]]
  <2> DEFINE S == Seq(T)
  <2>1. <<>> \in S /\ m \in Nat /\ step \in [1..m -> [S -> S]]
    BY <1>1, <1>2
  <2> HIDE DEF m, step, S
  <2>2. \E h : IsFold(h, <<>>, step, m, S)
    BY <2>1, FoldExists
  <2> QED BY <2>2 DEF IsFold, S
<1>4. ASSUME NEW k \in 1..m PROVE f[k] = f[k - 1] \o <<Space>> \o lines[k]
  <2>1. k - 1 \in 0..m
    BY <1>1
  <2>2. f[k - 1] \in Seq(T)
    BY <1>3, <2>1
  <2>3. f[k] = step[k][f[k - 1]]
    BY <1>3
  <2> QED BY <2>2, <2>3
<1>5. Is(f)
  <2> HIDE DEF step
  <2>1. ASSUME NEW k \in 0..m
        PROVE  f[k] = IF k = 0 THEN <<>> ELSE f[k - 1] \o <<Space>> \o lines[k]
    <3>1. k = 0 \/ k \in 1..m
      BY <1>1
    <3> HIDE DEF m
    <3> QED BY <1>3, <1>4, <3>1
  <2> QED BY <1>3, <2>1
<1>6. Is(g)
  <2> HIDE DEF Is
  <2> QED BY <1>5, Zenon DEF g
<1>7. PageText(lines) = g[Len(lines)]
  BY Zenon DEF PageText
<1> HIDE DEF g
<1>8. g = [k \in 0..m |-> g[k]]
  BY <1>6
<1>9. g[0] = <<>> /\ \A k \in 1..m : g[k] = g[k - 1] \o <<Space>> \o lines[k]
  <2>1. \A k \in 0..m : g[k] = IF k = 0 THEN <<>> ELSE g[k - 1] \o <<Space>> \o lines[k]
    BY <1>6
  <2> HIDE DEF Is, step
  <2>2. 0 \in 0..m /\ \A k \in 1..m : k \in 0..m /\ k # 0
    BY <1>1
  <2> HIDE DEF m
  <2> QED BY <2>1, <2>2
<1> HIDE DEF Is, step, m
<1>10. \A k \in 0..m : g[k] \in Seq(T)
  <2> DEFINE P == {k \in 0..m : g[k] \in Seq(T)}
  <2>1. 0 \in P
    <3>1. g[0] \in Seq(T) /\ 0 \in 0..m
      BY <1>1, <1>9
    <3> QED BY <3>1
  <2>2. ASSUME NEW k \in 1..m, k - 1 \in P PROVE k \in P
    <3>1. g[k - 1] \in Seq(T) /\ lines[k] \in Seq(T) /\ k \in 0..m
      BY <1>1, <2>2
    <3>2. g[k - 1] \o <<Space>> \o lines[k] \in Seq(T)
      BY <3>1, LineAdded
    <3>3. g[k] \in Seq(T)
      BY <1>9, <3>2
    <3> QED BY <3>1, <3>3
  <2> HIDE DEF P
  <2>3. \A k \in 0..m : k \in P
    BY <1>1, <2>1, <2>2, ClosedIsAll
  <2> QED BY <2>3 DEF P
<1>11. g \in [0..m -> Seq(T)]
  BY <1>8, <1>10
<1> QED BY <1>7, <1>9, <1>11 DEF IsPage, m

(* Every beginning of a page is a text.                                    *)
LEMMA PageTypes ==
  ASSUME NEW T, NEW lines \in Seq(Seq(T)), NEW f, IsPage(f, lines, T)
  PROVE  /\ Len(lines) \in Nat
         /\ \A k \in 0..Len(lines) : f[k] \in Seq(T) /\ Len(f[k]) \in Nat
         /\ \A k \in 1..Len(lines) :
              /\ lines[k] \in Seq(T) /\ Len(lines[k]) \in Nat /\ k - 1 \in 0..Len(lines)
              /\ f[k] = f[k - 1] \o <<Space>> \o lines[k]
<1>1. Len(lines) \in Nat /\ \A k \in 1..Len(lines) : lines[k] \in Seq(T)
  <2> DEFINE S == Seq(T)
  <2>1. lines \in Seq(S)
    OBVIOUS
  <2> HIDE DEF S
  <2>2. Len(lines) \in Nat /\ \A k \in 1..Len(lines) : lines[k] \in S
    BY <2>1, LenProperties, ElementOfSeq
  <2> QED BY <2>2 DEF S
<1>2. \A k \in 0..Len(lines) : f[k] \in Seq(T)
  BY DEF IsPage
<1>3. \A t \in Seq(T) : Len(t) \in Nat
  BY LenProperties
<1>4. \A k \in 1..Len(lines) : k - 1 \in 0..Len(lines)
  BY <1>1
<1>5. \A k \in 1..Len(lines) : f[k] = f[k - 1] \o <<Space>> \o lines[k]
  BY DEF IsPage
<1> QED BY <1>1, <1>2, <1>3, <1>4, <1>5

(* Its first lines are read in the same way,                               *)
LEMMA PageOfBeginning ==
  ASSUME NEW T, NEW lines \in Seq(Seq(T)), NEW n \in 0..Len(lines), NEW f, NEW g,
         IsPage(f, lines, T), IsPage(g, SubSeq(lines, 1, n), T)
  PROVE  g[n] = f[n]
<1>1. n \in Nat /\ n <= Len(lines) /\ Len(lines) \in Nat
  BY LenProperties
<1>2. Len(SubSeq(lines, 1, n)) = n /\ \A k \in 1..n : SubSeq(lines, 1, n)[k] = lines[k]
  BY <1>1, SubSeqProperties, ElementOfSeq
<1>3. \A k \in 1..n : k \in 1..Len(lines)
  BY <1>1
<1> DEFINE P == {k \in 0..n : g[k] = f[k]}
<1>4. 0 \in P
  BY <1>1 DEF IsPage
<1>5. ASSUME NEW k \in 1..n, k - 1 \in P PROVE k \in P
  <2>1. g[k] = g[k - 1] \o <<Space>> \o lines[k] /\ f[k] = f[k - 1] \o <<Space>> \o lines[k]
    BY <1>2, <1>3 DEF IsPage
  <2>2. g[k - 1] = f[k - 1] /\ k \in 0..n
    BY <1>1, <1>5
  <2> QED BY <2>1, <2>2
<1> HIDE DEF P
<1>6. \A k \in 0..n : k \in P
  BY <1>1, <1>4, <1>5, ClosedIsAll
<1> QED BY <1>1, <1>6 DEF P

(* The beginning of a beginning.                                           *)
LEMMA BeginsLonger ==
  ASSUME NEW u, NEW v, NEW w, Len(u) \in Nat, Len(v) \in Nat, Len(w) \in Nat,
         BeginsWith(v, u), BeginsWith(w, v)
  PROVE  BeginsWith(w, u)
BY DEF BeginsWith

(* and later lines do not change them.                                     *)
LEMMA PageGrows ==
  ASSUME NEW T, Space \in T, NEW lines \in Seq(Seq(T)), NEW n \in 0..Len(lines),
         NEW f, IsPage(f, lines, T)
  PROVE  BeginsWith(f[Len(lines)], f[n])
<1> DEFINE m == Len(lines)
           P == {k \in 0..m : k >= n => BeginsWith(f[k], f[n])}
<1>1. /\ m \in Nat /\ \A k \in 0..m : f[k] \in Seq(T)
      /\ \A k \in 1..m :
           lines[k] \in Seq(T) /\ k - 1 \in 0..m /\ f[k] = f[k - 1] \o <<Space>> \o lines[k]
  BY PageTypes
<1>2. f[n] \in Seq(T) /\ Len(f[n]) \in Nat /\ BeginsWith(f[n], f[n]) /\ n \in Nat /\ n <= m
  <2>1. f[n] \in Seq(T) /\ Len(f[n]) \in Nat /\ Len(lines) \in Nat
    BY PageTypes
  <2> QED BY <2>1 DEF BeginsWith
<1> HIDE DEF m
<1>3. 0 \in P
  BY <1>1, <1>2
<1>4. ASSUME NEW k \in 1..m, k - 1 \in P PROVE k \in P
  <2>1. CASE k <= n
    BY <1>1, <1>2, <2>1
  <2>2. CASE k > n
    <3>1. BeginsWith(f[k - 1], f[n])
      BY <1>1, <1>2, <1>4, <2>2
    <3>2. f[k - 1] \in Seq(T) /\ lines[k] \in Seq(T) /\ f[k] = f[k - 1] \o <<Space>> \o lines[k]
      BY <1>1
    <3> DEFINE v == f[k - 1]
               w == v \o <<Space>> \o lines[k]
               line == lines[k]
    <3>3. /\ BeginsWith(v, f[n]) /\ v \in Seq(T) /\ line \in Seq(T)
          /\ w = v \o <<Space>> \o line /\ f[k] = w
      BY <3>1, <3>2
    <3> HIDE DEF v, w, line
    <3>4. /\ Len(v) \in Nat /\ Len(line) \in Nat /\ Len(w) = Len(v) + 1 + Len(line)
          /\ \A i \in 1..Len(v) : w[i] = v[i]
      <4>1. \A t \in Seq(T), l \in Seq(T) :
              /\ Len(t) \in Nat /\ Len(l) \in Nat
              /\ Len(t \o <<Space>> \o l) = Len(t) + 1 + Len(l)
              /\ \A i \in 1..Len(t) : (t \o <<Space>> \o l)[i] = t[i]
        BY LineAdded
      <4> QED BY <3>3, <4>1
    <3>5. Len(w) \in Nat /\ Len(v) <= Len(w)
      BY <3>4
    <3>6. BeginsWith(w, v)
      BY <3>4, <3>5 DEF BeginsWith
    <3>7. BeginsWith(w, f[n])
      BY <1>2, <3>3, <3>4, <3>5, <3>6, BeginsLonger
    <3>8. k \in 0..m /\ BeginsWith(f[k], f[n])
      BY <1>1, <3>3, <3>7
    <3> QED BY <3>8
  <2> QED BY <1>1, <1>2, <2>1, <2>2
<1> HIDE DEF P
<1>5. \A k \in 0..m : k \in P
  BY <1>1, <1>3, <1>4, ClosedIsAll
<1>6. m \in P /\ m >= n
  BY <1>1, <1>2, <1>5
<1> QED BY <1>6 DEF P, m

(* A line is where the page has its characters.                            *)
LEMMA LineIsInPlace ==
  ASSUME NEW T, Space \in T, NEW lines \in Seq(Seq(T)), NEW i \in 1..Len(lines)
  PROVE  LET before == Len(PageText(SubSeq(lines, 1, i - 1))) + 1
         IN /\ PageText(lines) \in Seq(T) /\ lines[i] \in Seq(T)
            /\ before \in Nat /\ Len(lines[i]) \in Nat
            /\ before + Len(lines[i]) <= Len(PageText(lines))
            /\ \A j \in 1..Len(lines[i]) : PageText(lines)[before + j] = lines[i][j]
<1> DEFINE n == i - 1
           p == SubSeq(lines, 1, n)
           line == lines[i]
<1>1. /\ Len(lines) \in Nat /\ i \in Nat /\ n \in 0..Len(lines) /\ n \in Nat /\ n + 1 = i
      /\ line \in Seq(T)
  BY LenProperties, ElementOfSeq
<1>2. p \in Seq(Seq(T)) /\ Len(p) = n
  <2> HIDE DEF n
  <2> QED BY <1>1, SubSeqProperties, ElementOfSeq
<1>3. PICK f : IsPage(f, lines, T) /\ PageText(lines) = f[Len(lines)]
  BY PageReads
<1>4. PICK g : IsPage(g, p, T) /\ PageText(p) = g[Len(p)]
  <2> HIDE DEF p
  <2> QED BY <1>2, PageReads
<1>5. PageText(p) = f[n]
  <2>1. g[n] = f[n]
    <3> HIDE DEF n
    <3> QED BY <1>1, <1>3, <1>4, PageOfBeginning
  <2> QED BY <1>2, <1>4, <2>1
<1>6. /\ f[n] \in Seq(T) /\ f[i] \in Seq(T) /\ f[Len(lines)] \in Seq(T)
      /\ Len(f[n]) \in Nat /\ Len(f[i]) \in Nat /\ Len(f[Len(lines)]) \in Nat
      /\ f[i] = f[n] \o <<Space>> \o line
  <2>1. n \in 0..Len(lines) /\ i \in 0..Len(lines) /\ Len(lines) \in 0..Len(lines)
    BY <1>1
  <2> HIDE DEF line
  <2>2. \A k \in 0..Len(lines) : f[k] \in Seq(T) /\ Len(f[k]) \in Nat
    BY <1>3, PageTypes
  <2>3. f[i] = f[i - 1] \o <<Space>> \o lines[i]
    BY <1>3, PageTypes
  <2> QED BY <2>1, <2>2, <2>3 DEF line
<1>7. /\ Len(f[n]) \in Nat /\ Len(line) \in Nat
      /\ Len(f[i]) = Len(f[n]) + 1 + Len(line)
      /\ \A j \in 1..Len(line) : f[i][Len(f[n]) + 1 + j] = line[j]
  <2> HIDE DEF n, line
  <2> QED BY <1>1, <1>6, LineAdded
<1>8. BeginsWith(f[Len(lines)], f[i])
  <2>1. i \in 0..Len(lines)
    BY <1>1
  <2> QED BY <1>3, <2>1, PageGrows
<1> DEFINE before == Len(PageText(p)) + 1
           text == PageText(lines)
<1>9. before = Len(f[n]) + 1 /\ text = f[Len(lines)]
  BY <1>3, <1>5
<1> HIDE DEF n, p, line, before, text
<1>10. before \in Nat /\ text \in Seq(T) /\ before + Len(line) <= Len(text)
  BY <1>6, <1>7, <1>8, <1>9 DEF BeginsWith
<1>11. \A j \in 1..Len(line) : text[before + j] = line[j]
  <2> DEFINE w == f[Len(lines)]
             v == f[i]
             b == Len(f[n]) + 1
  <2>1. /\ b \in Nat /\ Len(line) \in Nat /\ Len(v) = b + Len(line)
        /\ \A j \in 1..Len(line) : v[b + j] = line[j]
    BY <1>7
  <2>2. BeginsWith(w, v) /\ before = b /\ text = w
    BY <1>8, <1>9
  <2> HIDE DEF w, v, b
  <2>3. ASSUME NEW j \in 1..Len(line) PROVE w[b + j] = line[j]
    <3>1. b + j \in 1..Len(v)
      BY <2>1
    <3> QED BY <2>1, <2>2, <3>1 DEF BeginsWith
  <2> QED BY <2>2, <2>3
<1> QED BY <1>1, <1>7, <1>10, <1>11 DEF n, p, line, before, text

-----------------------------------------------------------------------------
(* Marks.                                                                  *)

(* A line is marked in each of the ways in which it can overlap the quote. *)
LEMMA OverlapIsMarked ==
  ASSUME NEW T, NEW item \in Seq(T), NEW quote \in Seq(T), NEW read \in Seq(T),
         Len(quote) >= MinOverlap,
         \/ Len(read) >= MinOverlap
         \/ Len(read) >= MinItem /\ read = item
         \/ read = quote,
         \/ read = quote /\ Includes(item, quote)
         \/ read = item /\ Includes(quote, item)
         \/ BeginsWith(quote, read) /\ EndsWith(item, read)
         \/ EndsWith(quote, read) /\ BeginsWith(item, read)
  PROVE  itemMatchesQuote(item, quote)
<1>1. /\ MinOverlap \in Nat \ {0} /\ MinItem \in Nat /\ MinItem <= MinOverlap /\ MinItem >= 1
      /\ Len(item) \in Nat /\ Len(quote) \in Nat /\ Len(read) \in Nat
  BY OverlapAssumption, LenProperties
<1>2. CASE read = quote /\ Includes(item, quote)
  BY <1>2 DEF itemMatchesQuote
<1>3. CASE read = item /\ Includes(quote, item)
  BY <1>1, <1>3 DEF itemMatchesQuote
<1>4. CASE BeginsWith(quote, read) /\ EndsWith(item, read)
  <2>1. /\ Len(read) <= Len(quote) /\ Includes(quote, read) /\ Leading(quote, Len(read)) = read
        /\ Len(read) <= Len(item) /\ Includes(item, read) /\ Trailing(item, Len(read)) = read
    BY <1>4, BeginningIs, EndIs
  <2>2. CASE Len(read) >= MinOverlap
    <3>1. Len(read) \in MinOverlap..Len(item) /\ Trailing(item, Len(read)) = Leading(quote, Len(read))
      BY <1>1, <2>1, <2>2
    <3> QED BY <2>1, <3>1 DEF itemMatchesQuote, edgeOverlap
  <2>3. CASE Len(read) >= MinItem /\ read = item
    BY <2>1, <2>3 DEF itemMatchesQuote
  <2>4. CASE read = quote
    BY <2>1, <2>4 DEF itemMatchesQuote
  <2> QED BY <2>2, <2>3, <2>4
<1>5. CASE EndsWith(quote, read) /\ BeginsWith(item, read)
  <2>1. /\ Len(read) <= Len(quote) /\ Includes(quote, read) /\ Trailing(quote, Len(read)) = read
        /\ Len(read) <= Len(item) /\ Includes(item, read) /\ Leading(item, Len(read)) = read
    BY <1>5, BeginningIs, EndIs
  <2>2. CASE Len(read) >= MinOverlap
    <3>1. Len(read) \in MinOverlap..Len(item) /\ Leading(item, Len(read)) = Trailing(quote, Len(read))
      BY <1>1, <2>1, <2>2
    <3> QED BY <2>1, <3>1 DEF itemMatchesQuote, edgeOverlap
  <2>3. CASE Len(read) >= MinItem /\ read = item
    BY <2>1, <2>3 DEF itemMatchesQuote
  <2>4. CASE read = quote
    BY <2>1, <2>4 DEF itemMatchesQuote
  <2> QED BY <2>2, <2>3, <2>4
<1> QED BY <1>2, <1>3, <1>4, <1>5

(* A text that is included in another, and one included in the former.     *)
LEMMA PieceOfIncluded ==
  ASSUME NEW T, NEW s \in Seq(T), NEW t \in Seq(T), Includes(s, t),
         NEW a \in Nat \ {0}, NEW b \in Nat, a <= b, b <= Len(t)
  PROVE  Includes(s, SubSeq(t, a, b))
<1>1. PICK k \in 0..Len(s) : k + Len(t) <= Len(s) /\ SubSeq(s, k + 1, k + Len(t)) = t
  BY DEF Includes
<1>2. Len(s) \in Nat /\ Len(t) \in Nat /\ k \in Nat
  BY <1>1, LenProperties
<1> DEFINE c == k + a
           d == k + b
           u == SubSeq(t, a, b)
<1>3. c \in Nat /\ d \in Nat /\ k + 1 <= c /\ c <= d /\ d <= k + Len(t) /\ c - (k + 1) + 1 = a
      /\ d - (k + 1) + 1 = b /\ k + 1 \in Nat \ {0} /\ k + Len(t) \in Nat
  BY <1>2
<1>4. u \in Seq(T) /\ Len(u) = b - a + 1
  BY PieceIs
<1> HIDE DEF c, d
<1>5. SubSeq(s, c, d) = SubSeq(SubSeq(s, k + 1, k + Len(t)), c - (k + 1) + 1, d - (k + 1) + 1)
  BY <1>1, <1>2, <1>3, PieceOfPiece
<1>6. SubSeq(s, c, d) = u
  BY <1>1, <1>3, <1>5
<1> DEFINE n == c - 1
<1>7. n \in 0..Len(s) /\ n + Len(u) <= Len(s) /\ n + 1 = c /\ n + Len(u) = d
  BY <1>1, <1>2, <1>3, <1>4 DEF c, d
<1> HIDE DEF u, n
<1> QED BY <1>6, <1>7 DEF Includes, u

(* Every mark is on as much of the quote as a fragment inside it must have.*)
LEMMA MarkedShares ==
  ASSUME NEW T, NEW item \in Seq(T), NEW quote \in Seq(T), Len(quote) >= MinOverlap,
         itemMatchesQuote(item, quote)
  PROVE  \E a \in 1..Len(item) :
           a + MinItem - 1 <= Len(item) /\ Includes(quote, SubSeq(item, a, a + MinItem - 1))
<1> DEFINE Common(a) ==
             a + MinItem - 1 <= Len(item) /\ Includes(quote, SubSeq(item, a, a + MinItem - 1))
<1>1. /\ MinOverlap \in Nat \ {0} /\ MinItem \in Nat \ {0} /\ MinItem <= MinOverlap
      /\ Len(item) \in Nat /\ Len(quote) \in Nat
  BY OverlapAssumption, LenProperties
<1>2. CASE Len(item) >= MinItem /\ Includes(quote, item)
  <2>1. 1 + MinItem - 1 = MinItem /\ 1 \in 1..Len(item)
    BY <1>1, <1>2
  <2>2. Includes(quote, SubSeq(item, 1, MinItem))
    BY <1>1, <1>2, PieceOfIncluded
  <2> QED BY <1>2, <2>1, <2>2
<1>3. CASE Includes(item, quote)
  <2>1. PICK k \in 0..Len(item) : k + Len(quote) <= Len(item) /\ SubSeq(item, k + 1, k + Len(quote)) = quote
    BY <1>3 DEF Includes
  <2>2. k \in Nat
    OBVIOUS
  <2> DEFINE a == k + 1
             b == k + MinItem
  <2>3. /\ a \in 1..Len(item) /\ a + MinItem - 1 = b /\ b <= Len(item)
        /\ a \in Nat \ {0} /\ b \in Nat /\ a <= b /\ b <= k + Len(quote) /\ k + Len(quote) \in Nat
        /\ a - (k + 1) + 1 = 1 /\ b - (k + 1) + 1 = MinItem /\ k + 1 \in Nat \ {0} /\ k + 1 <= a
    BY <1>1, <2>1, <2>2
  <2> HIDE DEF a, b
  <2>4. SubSeq(item, a, b) =
          SubSeq(SubSeq(item, k + 1, k + Len(quote)), a - (k + 1) + 1, b - (k + 1) + 1)
    BY <2>1, <2>3, PieceOfPiece
  <2>5. SubSeq(item, a, b) = SubSeq(quote, 1, MinItem)
    BY <2>1, <2>3, <2>4
  <2>6. BeginsWith(quote, quote)
    BY <1>1 DEF BeginsWith
  <2>7. Includes(quote, quote)
    BY <2>6, BeginningIs
  <2>8. Includes(quote, SubSeq(quote, 1, MinItem))
    BY <1>1, <2>7, PieceOfIncluded
  <2> QED BY <2>3, <2>5, <2>8
<1>4. CASE edgeOverlap(item, quote)
  <2>1. PICK n \in MinOverlap..Len(item) :
          /\ n <= Len(quote)
          /\ Trailing(item, n) = Leading(quote, n) \/ Leading(item, n) = Trailing(quote, n)
    BY <1>4 DEF edgeOverlap
  <2>2. n \in Nat /\ n >= MinItem /\ n <= Len(item)
    BY <1>1, <2>1
  <2>3. BeginsWith(quote, quote)
    BY <1>1 DEF BeginsWith
  <2>4. Includes(quote, quote)
    BY <2>3, BeginningIs
  <2>5. CASE Trailing(item, n) = Leading(quote, n)
    <3> DEFINE l == Len(item)
               a == l - n + 1
               b == l - n + MinItem
    <3>1. /\ a \in 1..Len(item) /\ a + MinItem - 1 = b /\ b <= Len(item) /\ l \in Nat /\ l <= Len(item)
          /\ a \in Nat \ {0} /\ b \in Nat /\ a <= b /\ b <= l
          /\ a - a + 1 = 1 /\ b - a + 1 = MinItem /\ a <= a
      BY <1>1, <2>2
    <3>2. SubSeq(item, a, l) = SubSeq(quote, 1, n)
      BY <2>5 DEF Trailing, Leading
    <3> HIDE DEF a, b, l
    <3>3. SubSeq(item, a, b) = SubSeq(SubSeq(item, a, l), a - a + 1, b - a + 1)
      BY <3>1, PieceOfPiece
    <3>4. SubSeq(item, a, b) = SubSeq(SubSeq(quote, 1, n), 1, MinItem)
      BY <3>1, <3>2, <3>3
    <3>5. Includes(quote, SubSeq(quote, 1, n))
      BY <1>1, <2>1, <2>2, <2>4, PieceOfIncluded
    <3>6. SubSeq(quote, 1, n) \in Seq(T) /\ Len(SubSeq(quote, 1, n)) = n
      <4>1. n - 1 + 1 = n /\ 1 <= n
        BY <1>1, <2>2
      <4> QED BY <2>1, <2>2, <4>1, PieceIs
    <3>7. Includes(quote, SubSeq(SubSeq(quote, 1, n), 1, MinItem))
      <4> DEFINE q == SubSeq(quote, 1, n)
      <4> HIDE DEF q
      <4>1. q \in Seq(T) /\ Includes(quote, q) /\ MinItem <= Len(q)
        BY <2>2, <3>5, <3>6 DEF q
      <4>2. Includes(quote, SubSeq(q, 1, MinItem))
        BY <1>1, <4>1, PieceOfIncluded
      <4> QED BY <4>2 DEF q
    <3> QED BY <3>1, <3>4, <3>7
  <2>6. CASE Leading(item, n) = Trailing(quote, n)
    <3> DEFINE q == SubSeq(quote, Len(quote) - n + 1, Len(quote))
    <3>1. q = SubSeq(item, 1, n)
      BY <2>6 DEF Trailing, Leading
    <3>2. /\ Len(quote) - n + 1 \in Nat \ {0} /\ Len(quote) - n + 1 <= Len(quote)
          /\ Len(quote) - (Len(quote) - n + 1) + 1 = n
      BY <1>1, <2>1, <2>2
    <3>3. Includes(quote, q)
      BY <1>1, <2>4, <3>2, PieceOfIncluded
    <3>4. q \in Seq(T) /\ Len(q) = n
      BY <1>1, <3>2, PieceIs
    <3> HIDE DEF q
    <3>5. Includes(quote, SubSeq(q, 1, MinItem))
      BY <1>1, <2>2, <3>3, <3>4, PieceOfIncluded
    <3>6. SubSeq(item, 1, MinItem) = SubSeq(SubSeq(item, 1, n), 1 - 1 + 1, MinItem - 1 + 1)
      BY <1>1, <2>2, PieceOfPiece
    <3>7. SubSeq(item, 1, MinItem) = SubSeq(q, 1, MinItem)
      <4>1. 1 - 1 + 1 = 1 /\ MinItem - 1 + 1 = MinItem
        BY <1>1
      <4> QED BY <3>1, <3>6, <4>1
    <3>8. 1 \in 1..Len(item) /\ 1 + MinItem - 1 = MinItem /\ MinItem <= Len(item)
      BY <1>1, <2>2
    <3> QED BY <3>5, <3>7, <3>8
  <2> QED BY <2>1, <2>5, <2>6
<1> QED BY <1>2, <1>3, <1>4 DEF itemMatchesQuote

(* What two stretches of a text share.                                     *)
LEMMA StretchesShare ==
  ASSUME NEW p \in Nat, NEW e \in Nat, NEW from \in Nat, NEW to \in Nat,
         (p..e) \cap (from..to) # {}
  PROVE  LET a == Min((p..e) \cap (from..to))
             b == Max((p..e) \cap (from..to))
         IN a \in {p, from} /\ b \in {e, to} /\ p <= a /\ from <= a /\ a <= b /\ b <= e /\ b <= to
<1> DEFINE S == (p..e) \cap (from..to)
           low == IF p >= from THEN p ELSE from
           high == IF e <= to THEN e ELSE to
<1>1. PICK x \in Nat : x \in S
  OBVIOUS
<1>2. low \in S /\ high \in S /\ \A y \in S : low <= y /\ y <= high
  BY <1>1
<1>3. \A y \in S : y \in Nat
  OBVIOUS
<1>4. low \in {p, from} /\ high \in {e, to} /\ p <= low /\ from <= low /\ low <= high
      /\ high <= e /\ high <= to
  BY <1>1
<1> HIDE DEF S, low, high
<1>5. Min(S) = low
  <2>1. \E y \in S : \A z \in S : y <= z
    BY <1>2
  <2>2. Min(S) \in S /\ \A z \in S : Min(S) <= z
    BY <2>1 DEF Min
  <2> QED BY <1>2, <1>3, <2>2
<1>6. Max(S) = high
  <2>1. \E y \in S : \A z \in S : y >= z
    BY <1>2, <1>3
  <2>2. Max(S) \in S /\ \A z \in S : Max(S) >= z
    BY <2>1 DEF Max
  <2> QED BY <1>2, <1>3, <2>2
<1>7. Min(S) \in {p, from} /\ Max(S) \in {e, to} /\ p <= Min(S) /\ from <= Min(S)
      /\ Min(S) <= Max(S) /\ Max(S) <= e /\ Max(S) <= to
  BY <1>4, <1>5, <1>6
<1> QED BY <1>7 DEF S

(* Two stretches of a text, a line of it and a quote: what they share is   *)
(* the whole of one of them, or the end of one and the beginning of the    *)
(* other, and so it is once they are normalized.                           *)
LEMMA SharedIsFound ==
  ASSUME NEW T, NEW text \in Seq(T), NEW p \in Nat \ {0}, NEW e \in Nat, e <= Len(text),
         NEW from \in Nat \ {0}, NEW to \in Nat, to <= Len(text),
         NEW a \in Nat, NEW b \in Nat,
         a \in {p, from}, b \in {e, to},
         p <= a, from <= a, a <= b, b <= e, b <= to
  PROVE  LET item == normalize(SubSeq(text, p, e))
             quote == normalize(SubSeq(text, from, to))
             read == normalize(SubSeq(text, a, b))
         IN /\ item \in Seq(T) /\ quote \in Seq(T) /\ read \in Seq(T)
            /\ \/ read = quote /\ Includes(item, quote)
               \/ read = item /\ Includes(quote, item)
               \/ BeginsWith(quote, read) /\ EndsWith(item, read)
               \/ EndsWith(quote, read) /\ BeginsWith(item, read)
<1> DEFINE item == normalize(SubSeq(text, p, e))
           quote == normalize(SubSeq(text, from, to))
           read == normalize(SubSeq(text, a, b))
<1>1. \A s \in Seq(T) : normalize(s) \in Seq(T)
  BY NormalizedTypes
<1>2. /\ SubSeq(text, p, e) \in Seq(T) /\ SubSeq(text, from, to) \in Seq(T)
      /\ SubSeq(text, a, b) \in Seq(T)
  <2>1. a \in Nat \ {0} /\ b <= Len(text)
    BY LenProperties
  <2> QED BY <2>1, PieceIs
<1>3. item \in Seq(T) /\ quote \in Seq(T) /\ read \in Seq(T)
  BY <1>1, <1>2
<1>4. ASSUME NEW c \in Nat \ {0}, NEW d \in Nat, d <= Len(text), c <= a, b <= d
      PROVE  /\ Includes(normalize(SubSeq(text, c, d)), read)
             /\ a = c => BeginsWith(normalize(SubSeq(text, c, d)), read)
             /\ b = d => EndsWith(normalize(SubSeq(text, c, d)), read)
  <2> DEFINE s == SubSeq(text, c, d)
             x == a - c + 1
             y == b - c + 1
  <2>1. SubSeq(text, a, b) = SubSeq(s, x, y)
    BY <1>4, PieceOfPiece
  <2>2. s \in Seq(T) /\ Len(s) = d - c + 1
    <3>1. c <= d
      BY <1>4
    <3> QED BY <1>4, <3>1, PieceIs
  <2>3. /\ x \in Nat \ {0} /\ y \in Nat /\ x <= y /\ y <= Len(s) /\ y \in 0..Len(s)
        /\ x - 1 \in 0..Len(s) /\ x - 1 + 1 = x
        /\ (a = c => x = 1) /\ (b = d => y = Len(s))
    BY <1>4, <2>2
  <2>4. read = normalize(SubSeq(s, x, y))
    BY <2>1
  <2> HIDE DEF s, x, y, read
  <2>5. Includes(normalize(s), read)
    BY <2>2, <2>3, <2>4, NormalizedMiddle
  <2>6. x = 1 => BeginsWith(normalize(s), read)
    <3>1. BeginsWith(normalize(s), normalize(SubSeq(s, 1, y)))
      BY <2>2, <2>3, NormalizedBeginning
    <3> QED BY <2>4, <3>1
  <2>7. y = Len(s) => EndsWith(normalize(s), read)
    <3> DEFINE n == x - 1
    <3>1. n \in 0..Len(s) /\ n + 1 = x
      BY <2>3
    <3> HIDE DEF n
    <3>2. EndsWith(normalize(s), normalize(SubSeq(s, n + 1, Len(s))))
      BY <2>2, <3>1, NormalizedEnd
    <3> QED BY <2>4, <3>1, <3>2
  <2> QED BY <2>3, <2>5, <2>6, <2>7 DEF s
<1>5. /\ Includes(item, read) /\ a = p => BeginsWith(item, read)
      /\ b = e => EndsWith(item, read)
  BY <1>4
<1>6. /\ Includes(quote, read) /\ a = from => BeginsWith(quote, read)
      /\ b = to => EndsWith(quote, read)
  BY <1>4
<1>7. /\ a = p /\ b = e => read = item
      /\ a = from /\ b = to => read = quote
  OBVIOUS
<1>8. Includes(item, read) /\ Includes(quote, read)
  BY <1>4
<1>9. /\ a = p => BeginsWith(item, read)
      /\ a = from => BeginsWith(quote, read)
      /\ b = e => EndsWith(item, read)
      /\ b = to => EndsWith(quote, read)
  BY <1>4
<1> HIDE DEF item, quote, read
<1>10. \/ a = p /\ b = e
       \/ a = p /\ b = to
       \/ a = from /\ b = e
       \/ a = from /\ b = to
  OBVIOUS
<1>11. \/ read = quote /\ Includes(item, quote)
       \/ read = item /\ Includes(quote, item)
       \/ BeginsWith(quote, read) /\ EndsWith(item, read)
       \/ EndsWith(quote, read) /\ BeginsWith(item, read)
  BY <1>7, <1>8, <1>9, <1>10
<1> QED BY <1>3, <1>11 DEF item, quote, read

(* A line that has enough of the quote is marked.                          *)
LEMMA EvidentIsMarked ==
  ASSUME NEW T, Space \in T, NEW lines \in Seq(Seq(T)), NEW i \in 1..Len(lines),
         NEW from \in Nat \ {0}, NEW to \in Nat, to <= Len(PageText(lines)),
         Evident(lines, i, from, to)
  PROVE  highlightQuote(lines[i], normalize(SubSeq(PageText(lines), from, to)))
<1> DEFINE text == PageText(lines)
           before == Len(PageText(SubSeq(lines, 1, i - 1))) + 1
           line == lines[i]
           p == before + 1
           e == before + Len(line)
           shared == (p..e) \cap (from..to)
           item == normalize(line)
           quote == normalize(SubSeq(text, from, to))
           a == Min(shared)
           b == Max(shared)
           read == normalize(SubSeq(text, a, b))
<1>1. /\ text \in Seq(T) /\ line \in Seq(T) /\ before \in Nat /\ Len(line) \in Nat
      /\ before + Len(line) <= Len(text) /\ \A j \in 1..Len(line) : text[before + j] = line[j]
  BY LineIsInPlace
<1>2. PlaceOf(lines, i) = p..e
  BY DEF PlaceOf
<1>3. /\ Len(quote) >= MinOverlap
      /\ LET r == IF shared = {} THEN <<>> ELSE read
         IN \/ Len(r) >= MinOverlap
            \/ Len(r) >= MinItem /\ r = item
            \/ r = quote
  BY <1>2 DEF Evident
<1>4. MinOverlap \in Nat \ {0} /\ MinItem \in Nat \ {0} /\ Len(<<>>) = 0
  BY OverlapAssumption
<1> HIDE DEF text, before, line, item, quote, read
<1>5. shared # {}
  <2> HIDE DEF shared
  <2>1. ASSUME shared = {} PROVE FALSE
    BY <1>3, <1>4, <2>1
  <2> QED BY <2>1
<1>6. p \in Nat \ {0} /\ e \in Nat /\ e <= Len(text) /\ to <= Len(text)
  BY <1>1 DEF text
<1> HIDE DEF p, e
<1>7. /\ a \in {p, from} /\ b \in {e, to}
      /\ p <= a /\ from <= a /\ a <= b /\ b <= e /\ b <= to
  BY <1>5, <1>6, StretchesShare
<1>8. a \in Nat /\ b \in Nat
  BY <1>6, <1>7
<1>9. SubSeq(text, p, e) = line
  <2>1. SubSeq(text, before + 1, before + Len(line)) = line
    BY <1>1, IncludesAt
  <2> QED BY <2>1 DEF p, e
<1> HIDE DEF shared
<1>10. \/ Len(read) >= MinOverlap
       \/ Len(read) >= MinItem /\ read = item
       \/ read = quote
  BY <1>3, <1>5
<1> HIDE DEF a, b
<1>11. item = normalize(SubSeq(text, p, e))
  BY <1>9 DEF item
<1>12. /\ item \in Seq(T) /\ quote \in Seq(T) /\ read \in Seq(T)
       /\ \/ read = quote /\ Includes(item, quote)
          \/ read = item /\ Includes(quote, item)
          \/ BeginsWith(quote, read) /\ EndsWith(item, read)
          \/ EndsWith(quote, read) /\ BeginsWith(item, read)
  <2> DEFINE t == normalize(SubSeq(text, p, e))
             q == normalize(SubSeq(text, from, to))
             r == normalize(SubSeq(text, a, b))
  <2>1. /\ t \in Seq(T) /\ q \in Seq(T) /\ r \in Seq(T)
        /\ \/ r = q /\ Includes(t, q)
           \/ r = t /\ Includes(q, t)
           \/ BeginsWith(q, r) /\ EndsWith(t, r)
           \/ EndsWith(q, r) /\ BeginsWith(t, r)
    BY <1>1, <1>6, <1>7, <1>8, SharedIsFound
  <2>2. item = t /\ quote = q /\ read = r
    BY <1>11 DEF quote, read
  <2> HIDE DEF t, q, r
  <2> QED BY <2>1, <2>2
<1>13. itemMatchesQuote(item, quote)
  BY <1>3, <1>10, <1>12, OverlapIsMarked
<1>14. item # <<>>
  <2>1. PICK k \in 1..Len(item) : TRUE
    BY <1>3, <1>12, <1>13, MarkedShares
  <2>2. Len(item) \in Nat /\ Len(item) # 0
    BY <1>12, <2>1, LenProperties
  <2> QED BY <1>4, <2>2
<1> QED BY <1>3, <1>13, <1>14 DEF highlightQuote, item, quote, text, line

(* What a layer has is a page, and a stretch of it.                        *)
LEMMA LayerTypes ==
  ASSUME NEW l \in Layers
  PROVE  /\ l.lines \in Seq(Seq(STRING \cup {Space})) /\ l.from \in Nat \ {0} /\ l.to \in Nat
         /\ l.to <= Len(PageText(l.lines))
<1> DEFINE lines == l.lines
           S == Seq(STRING)
           U == Seq(STRING \cup {Space})
<1>1. lines \in Seq(S) /\ l.from \in Nat \ {0} /\ l.to \in Nat /\ l.to <= Len(PageText(l.lines))
  BY ViewerAssumption
<1>2. \A s \in S : s \in U
  <2> SUFFICES ASSUME NEW s \in Seq(STRING) PROVE s \in Seq(STRING \cup {Space})
    OBVIOUS
  <2>1. Len(s) \in Nat /\ \A k \in 1..Len(s) : s[k] \in STRING
    BY LenProperties, ElementOfSeq
  <2>2. s = [k \in 1..Len(s) |-> s[k]]
    BY LenProperties
  <2> QED BY <2>1, <2>2
<1> HIDE DEF S, U, lines
<1>3. lines \in Seq(U)
  <2>1. /\ Len(lines) \in Nat /\ \A k \in 1..Len(lines) : lines[k] \in S
        /\ lines = [k \in 1..Len(lines) |-> lines[k]]
    BY <1>1, LenProperties, ElementOfSeq
  <2>2. \A k \in 1..Len(lines) : lines[k] \in U
    BY <1>2, <2>1
  <2> QED BY <2>1, <2>2
<1> QED BY <1>1, <1>3 DEF lines, U

(* Whatever the layer, its lines are marked as they must be.                *)
LEMMA LayerIsMarked == ViewerTypes => QuoteIsMarked
<1> SUFFICES ASSUME ViewerTypes, layer # NoLayer,
                    NEW i \in 1..Len(layer.lines)
             PROVE  LET quote == normalize(SubSeq(PageText(layer.lines), layer.from, layer.to))
                    IN /\ Evident(layer.lines, i, layer.from, layer.to) =>
                            highlightQuote(layer.lines[i], quote)
                       /\ highlightQuote(layer.lines[i], quote) => Shares(layer.lines[i], quote)
  BY DEF QuoteIsMarked
<1> DEFINE T == STRING \cup {Space}
           lines == layer.lines
           from == layer.from
           to == layer.to
           text == PageText(lines)
           stretch == SubSeq(text, from, to)
           quote == normalize(stretch)
           item == normalize(lines[i])
<1>1. Space \in T /\ lines \in Seq(Seq(T)) /\ from \in Nat \ {0} /\ to \in Nat /\ to <= Len(text)
  <2>1. layer \in Layers
    BY DEF ViewerTypes
  <2> QED BY <2>1, LayerTypes
<1> HIDE DEF T, lines, from, to
<1>2. i \in 1..Len(lines)
  BY DEF lines
<1>3. Evident(lines, i, from, to) => highlightQuote(lines[i], quote)
  BY <1>1, <1>2, EvidentIsMarked
<1>4. \A s \in Seq(T) : normalize(s) \in Seq(T)
  BY NormalizedTypes
<1>5. text \in Seq(T) /\ lines[i] \in Seq(T)
  BY <1>1, <1>2, LineIsInPlace
<1>6. stretch \in Seq(T)
  BY <1>1, <1>5, PieceIs
<1>7. item \in Seq(T) /\ quote \in Seq(T)
  BY <1>4, <1>5, <1>6
<1>8. highlightQuote(lines[i], quote) => Shares(lines[i], quote)
  <2> HIDE DEF quote
  <2>1. SUFFICES ASSUME highlightQuote(lines[i], quote) PROVE Shares(lines[i], quote)
    OBVIOUS
  <2>2. Len(quote) >= MinOverlap /\ itemMatchesQuote(item, quote)
    BY <2>1 DEF highlightQuote
  <2> HIDE DEF item
  <2>3. \E a \in 1..Len(item) :
          a + MinItem - 1 <= Len(item) /\ Includes(quote, SubSeq(item, a, a + MinItem - 1))
    BY <1>7, <2>2, MarkedShares
  <2> QED BY <2>3 DEF Shares, item
<1> QED BY <1>3, <1>8 DEF lines, from, to

(* pdf-viewer.tsx:21: a line that has enough of the quote is marked,       *)
(* however the quote runs over lines and wherever blanks are, and a line   *)
(* that is marked has enough characters of it.                             *)
THEOREM QuotesAreMarked == ViewerSpec => []QuoteIsMarked
<1> QED BY ViewerIsTyped, LayerIsMarked, PTL

=============================================================================
