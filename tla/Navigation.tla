------------------------------ MODULE Navigation ------------------------------
(***************************************************************************)
(* How the user of the web client gets about: the command palette over     *)
(* every page, the ask bar of the dashboard, the links, and the workspace  *)
(* page with its tabs and the question of its Ask tab.                     *)
(*                                                                         *)
(* A navigation is pushed at once and shown later; the one pushed last is  *)
(* the one that will be shown.  The list of workspaces is what the query   *)
(* cache has (Workspaces), newest first, and changes at any time.          *)
(***************************************************************************)
EXTENDS Naturals, Sequences, FiniteSets, SequencesExt

CONSTANTS
  Listable,     (* workspaces                                               *)
  Listings,     (* sequences of them that the list may show                 *)
  Questions,    (* what is typed, without blanks around it                  *)
  Blank,
  Matching,     (* of a text, the workspaces and commands whose name has it *)
  MaxShown,     (* matching workspaces in the palette                       *)
  NoWorkspace,
  Tabs          (* of a workspace's page                                    *)

Dashboard == "dashboard"
Commands == {"Go to Dashboard", "Open Evidence Map"}

ASSUME NavigationAssumption ==
  /\ {"documents", "ask", "evidence"} \subseteq Tabs /\ "none" \notin Tabs
  /\ Listings \subseteq Seq(Listable) /\ <<>> \in Listings
  /\ Blank \notin Questions
  /\ Matching \in [Questions -> SUBSET (Listable \cup Commands)]
  /\ MaxShown \in Nat \ {0}
  /\ NoWorkspace \notin Listable /\ Dashboard \notin Listable

Texts == Questions \cup {Blank}
Places == Listable \cup {Dashboard}

(* A location: the page, and the parameters tab and q or what stands for   *)
(* their absence.                                                          *)
Location == [page: Places, tab: Tabs \cup {"none"}, question: Texts]

At(p) == [page |-> p, tab |-> "none", question |-> Blank]
AskAt(w, question) == [page |-> w, tab |-> "ask", question |-> question]

NoRoute == [page |-> "none"]

VARIABLES
  listed,       (* the workspaces of the cache, or none yet                 *)
  page,         (* on display                                               *)
  route,        (* the location pushed last, until it is shown              *)
  open, query, active,      (* the palette                                  *)
  bar,          (* the ask bar's question                                   *)
  linked,       (* the question its link has                                *)
  tab, input,   (* the workspace page's tab and the question of Ask AI      *)
  streaming,    (* an answer is under way there                             *)
  panels,       (* are the tabs there: not while the workspace is not found *)
  generation,   (* on, or off if /health has said so last                   *)
  moved,        (* history: the highlight was moved since the last typing   *)
  carried       (* history: the question sent to another page, until it is  *)
                (* changed or asked there or another page is sent for       *)

palette_vars == <<open, query, active, moved>>
panel_vars == <<linked, tab, input, streaming, panels>>
navigation_vars ==
  <<listed, page, route, palette_vars, bar, panel_vars, generation, carried>>

Nowhere == At(Dashboard)

NavigationInit ==
  /\ listed = <<>> /\ page = Dashboard /\ route = NoRoute
  /\ open = FALSE /\ query = Blank /\ active = 0
  /\ bar = Blank
  /\ linked = Blank /\ tab = "documents" /\ input = Blank
  /\ streaming = FALSE /\ panels = TRUE
  /\ generation = "on"
  /\ moved = FALSE /\ carried = Nowhere

-----------------------------------------------------------------------------
(* The router.                                                             *)

Push(location) ==
  /\ route' = location
  /\ carried' = IF location.question # Blank /\ location.page # page
                THEN location ELSE Nowhere

(* Fault: one page of a workspace becomes another's.                       *)
ShowPageInPlace(location) ==
  IF location.page # Dashboard /\ page # Dashboard
  THEN linked' = location.question /\ UNCHANGED <<bar, tab, input, streaming, panels>>
  ELSE /\ linked' = location.question
       /\ bar' = Blank /\ streaming' = FALSE /\ panels' = TRUE
       /\ tab' = IF location.tab \in Tabs THEN location.tab ELSE "documents"
       /\ input' = location.question

(* What of the old page is lost with it, and what the new one begins with. *)
(* A workspace's page that is shown already keeps its state, whatever the  *)
(* parameters say; the stream of one that goes is closed.                  *)
ShowPage(location) ==
  /\ linked' = location.question
  /\ IF location.page = page THEN UNCHANGED <<bar, tab, input, streaming, panels>>
     ELSE /\ bar' = Blank /\ streaming' = FALSE /\ panels' = TRUE
          /\ tab' = IF location.tab \in Tabs THEN location.tab ELSE "documents"
          /\ input' = location.question

ShowRoute ==
  /\ route # NoRoute /\ route' = NoRoute
  /\ page' = route.page /\ ShowPage(route)
  /\ UNCHANGED <<listed, palette_vars, generation, carried>>

(* Links: the header's and the page's to the dashboard, a card's own, its  *)
(* Open and its Ask.                                                       *)
FollowLink(location) ==
  /\ \/ location = At(Dashboard)
     \/ /\ page = Dashboard /\ location.page \in ToSet(listed)
        /\ location.tab \in {"none", "ask"} /\ location.question = Blank
  /\ ~open /\ Push(location)
  /\ UNCHANGED <<listed, page, palette_vars, bar, panel_vars, generation>>

-----------------------------------------------------------------------------
(* The palette.                                                            *)

Item == [kind: {"ask", "open"} \cup Commands, page: Places \cup {NoWorkspace}]

Entry(kind, p) == [kind |-> kind, page |-> p]

Has(needle, name) == needle = Blank \/ name \in Matching[needle]

(* Ask AI whenever there is a question, the workspaces found, the commands *)
(* found.                                                                  *)
Items(needle, list) ==
  LET ask == IF needle = Blank THEN <<>> ELSE <<Entry("ask", NoWorkspace)>>
      found == SelectSeq(list, LAMBDA w : Has(needle, w))
      matches == Cardinality({i \in 1..Len(list) : Has(needle, list[i])})
      shown == 1..IF matches < MaxShown THEN matches ELSE MaxShown
      dashboard == IF Has(needle, "Go to Dashboard")
                   THEN <<Entry("Go to Dashboard", Dashboard)>> ELSE <<>>
      evidence == IF list # <<>> /\ Has(needle, "Open Evidence Map")
                  THEN <<Entry("Open Evidence Map", list[1])>> ELSE <<>>
  IN ask \o [i \in shown |-> Entry("open", found[i])] \o dashboard \o evidence

items == Items(query, listed)

(* Ctrl-K or Cmd-K, wherever the focus is: the palette is only hidden.     *)
Toggle ==
  /\ open' = ~open
  /\ UNCHANGED <<listed, page, route, query, active, moved, bar, panel_vars, generation, carried>>

OpenPalette ==
  /\ ~open /\ open' = TRUE
  /\ UNCHANGED <<listed, page, route, query, active, moved, bar, panel_vars, generation, carried>>

(* handleOpenChange(false)                                                 *)
ClosePalette == open' = FALSE /\ query' = Blank /\ active' = 0 /\ moved' = FALSE

Dismiss ==
  /\ open /\ ClosePalette
  /\ UNCHANGED <<listed, page, route, bar, panel_vars, generation, carried>>

(* Fault: the highlight stays where it was.                                *)
TypeKeepingPlace(text) ==
  /\ open /\ query' = text /\ moved' = FALSE
  /\ UNCHANGED <<listed, page, route, open, active, bar, panel_vars, generation, carried>>

(* handleQueryChange                                                       *)
Type(text) ==
  /\ open /\ query' = text /\ active' = 0 /\ moved' = FALSE
  /\ UNCHANGED <<listed, page, route, open, bar, panel_vars, generation, carried>>

MoveTo(i) ==
  /\ open /\ active' = i /\ moved' = TRUE
  /\ UNCHANGED <<listed, page, route, open, query, bar, panel_vars, generation, carried>>

Count == Len(items)

ArrowDown == MoveTo(IF Count = 0 THEN 0 ELSE (active + 1) % Count)
ArrowUp == MoveTo(IF Count = 0 THEN 0 ELSE (active + Count - 1) % Count)
Hover(i) == i < Count /\ MoveTo(i)

(* Where a row leads.  With no workspace to ask, Ask AI only says so.      *)
Leads(item) ==
  CASE item.kind = "ask" -> AskAt(listed[1], query)
    [] item.kind = "open" -> At(item.page)
    [] item.kind = "Go to Dashboard" -> At(Dashboard)
    [] item.kind = "Open Evidence Map" -> [page |-> item.page, tab |-> "evidence", question |-> Blank]

Run(item) ==
  /\ IF item.kind = "ask" /\ listed = <<>> THEN UNCHANGED <<route, palette_vars, carried>>
     ELSE Push(Leads(item)) /\ ClosePalette
  /\ UNCHANGED <<listed, page, bar, panel_vars, generation>>

Click(i) == open /\ i < Count /\ Run(items[i + 1])

(* The highlight may be below the last row: the list has become shorter.   *)
Enter == open /\ active < Count /\ Run(items[active + 1])

-----------------------------------------------------------------------------
(* The pages.                                                              *)

(* The ask bar's text, typed or a suggested prompt.                        *)
EditBar(text) ==
  /\ page = Dashboard /\ ~open /\ bar' = text
  /\ UNCHANGED <<listed, page, route, palette_vars, panel_vars, generation, carried>>

(* With several workspaces it is left to the user to choose one.           *)
SubmitBar ==
  /\ page = Dashboard /\ ~open /\ bar # Blank /\ Len(listed) = 1
  /\ Push(AskAt(listed[1], bar))
  /\ UNCHANGED <<listed, page, palette_vars, bar, panel_vars, generation>>

InPanels == page # Dashboard /\ panels /\ ~open

ChooseTab(t) ==
  /\ InPanels /\ tab' = t
  /\ carried' = IF page = carried.page THEN Nowhere ELSE carried
  /\ UNCHANGED <<listed, page, route, palette_vars, bar, linked, input, streaming, panels, generation>>

GenerationOff == generation = "off"

(* Typed, or a sample question, which there is before the first exchange.  *)
EditInput(text) ==
  /\ InPanels /\ ~GenerationOff /\ input' = text
  /\ carried' = IF page = carried.page THEN Nowhere ELSE carried
  /\ UNCHANGED <<listed, page, route, palette_vars, bar, linked, tab, streaming, panels, generation>>

SubmitQuestion ==
  /\ InPanels /\ input # Blank /\ ~streaming /\ ~GenerationOff
  /\ input' = Blank /\ streaming' = TRUE
  /\ carried' = IF page = carried.page THEN Nowhere ELSE carried
  /\ UNCHANGED <<listed, page, route, palette_vars, bar, linked, tab, panels, generation>>

AnswerEnds ==
  /\ streaming /\ streaming' = FALSE
  /\ UNCHANGED <<listed, page, route, palette_vars, bar, linked, tab, input, panels, generation, carried>>

(* Any fetch of the workspace that fails takes the tabs away, with what is *)
(* asked and typed in them; one that succeeds brings new ones, with the    *)
(* question of the link.                                                   *)
WorkspaceFails ==
  /\ page # Dashboard /\ panels /\ panels' = FALSE
  /\ input' = Blank /\ streaming' = FALSE
  /\ UNCHANGED <<listed, page, route, palette_vars, bar, linked, tab, generation, carried>>

WorkspaceLoads ==
  /\ page # Dashboard /\ ~panels /\ panels' = TRUE
  /\ input' = linked
  /\ UNCHANGED <<listed, page, route, palette_vars, bar, linked, tab, streaming, generation, carried>>

(* The list is loaded, or changes under the page or the open palette.      *)
ListChanges(list) ==
  /\ listed' = list
  /\ UNCHANGED <<page, route, palette_vars, bar, panel_vars, generation, carried>>

(* The health query, every half minute.                                    *)
HealthSays(g) ==
  /\ generation' = g
  /\ UNCHANGED <<listed, page, route, palette_vars, bar, panel_vars, carried>>

NavigationNext ==
  \/ ShowRoute \/ \E l \in Location : FollowLink(l)
  \/ Toggle \/ OpenPalette \/ Dismiss \/ ArrowDown \/ ArrowUp \/ Enter
  \/ \E text \in Texts : Type(text) \/ EditBar(text) \/ EditInput(text)
  \/ \E i \in 0..Count : Hover(i) \/ Click(i)
  \/ SubmitBar \/ SubmitQuestion \/ AnswerEnds \/ WorkspaceFails \/ WorkspaceLoads
  \/ \E t \in Tabs : ChooseTab(t)
  \/ \E l \in Listings : ListChanges(l)
  \/ \E g \in {"on", "off"} : HealthSays(g)

NavigationSpec == NavigationInit /\ [][NavigationNext]_navigation_vars

-----------------------------------------------------------------------------
(* Properties.                                                             *)

(* command-palette.tsx:28 and 74: who types a question and presses Enter   *)
(* asks that question in a workspace, whatever becomes of the results      *)
(* below it between the two keys, and however the palette was hidden and   *)
(* shown again.                                                            *)
EnterAsksWhatWasTyped ==
  [][(Enter /\ ~moved /\ query # Blank /\ listed # <<>>)
       => route' = AskAt(listed[1], query)]_navigation_vars

(* command-palette.tsx:80, ask-bar: a question sent to another page than   *)
(* the one on display arrives there, in the Ask tab, as it was typed and   *)
(* not yet asked, however long the page takes, whatever is typed or opened *)
(* meanwhile, and if the workspace could not be loaded, as soon as it is.  *)
QuestionsArrive ==
  (carried # Nowhere /\ route = NoRoute) =>
    page = carried.page /\ tab = "ask" /\ (panels => input = carried.question)

=============================================================================
