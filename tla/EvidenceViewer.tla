---------------------------- MODULE EvidenceViewer ----------------------------
(***************************************************************************)
(* The PDF viewer that is opened from citations, search results, evidence  *)
(* cards and the review drawer.  What it is to show is global to the client*)
(* (useEvidenceViewer); the panel that shows it belongs to a workspace's   *)
(* page, and the viewer in it to one document, page and quote.             *)
(***************************************************************************)
EXTENDS QuoteHighlight

CONSTANTS
  Documents,
  Pages,        (* how many each document has                               *)
  Targets,      (* what can be opened                                       *)
  NoTarget, NoCount, NoLayer,
  Layers,       (* fragments a page may have, and where in them the quote is*)
  MaxPage       (* bound: nobody turns beyond it before the file is there   *)

ASSUME ViewerAssumption ==
  /\ Pages \in [Documents -> Nat \ {0}]
  /\ Targets \subseteq [document: Documents, page: Nat, quote: STRING]
  /\ NoTarget \notin Targets /\ NoCount \notin Nat
  /\ \A l \in Layers :
       /\ l.lines \in Seq(Seq(STRING)) /\ l.from \in Nat \ {0} /\ l.to \in Nat
       /\ l.to <= Len(PageText(l.lines))

VARIABLES
  panel,        (* is a workspace's page there                              *)
  target,
  numPages,     (* known once the file is loaded                            *)
  pageNumber,
  layer,        (* the text layer of the page on display                    *)
  turned        (* history: the reader has turned pages, away from the      *)
                (* evidence                                                 *)

pdf_vars == <<numPages, pageNumber, layer, turned>>
viewer_vars == <<panel, target, pdf_vars>>

AtLeastOne(p) == IF p < 1 THEN 1 ELSE p

OnShow == panel /\ target # NoTarget

ViewerInit ==
  /\ panel = FALSE /\ target = NoTarget
  /\ numPages = NoCount /\ pageNumber = 1 /\ layer = NoLayer /\ turned = FALSE

(* A viewer mounts, and loads its file; an unmounted one leaves nothing.   *)
ShowAt(p) ==
  numPages' = NoCount /\ pageNumber' = p /\ layer' = NoLayer /\ turned' = FALSE

Mounts(t) == ShowAt(AtLeastOne(t.page))
Unmounts == ShowAt(1)

(* Fault: the viewer is told apart by its document alone.                  *)
SameDocument(t, u) == t.document = u.document

(* Its key: one that is open stays if nothing of it changes.               *)
SameViewer(t, u) == t = u

openEvidence(t) ==
  /\ panel /\ target' = t
  /\ IF target # NoTarget /\ SameViewer(target, t) THEN UNCHANGED pdf_vars ELSE Mounts(t)
  /\ UNCHANGED panel

(* Escape, the backdrop or the button.                                     *)
closeEvidence ==
  /\ OnShow /\ target' = NoTarget /\ Unmounts
  /\ UNCHANGED panel

(* Nothing closes the viewer when its page goes: it is back on the next.   *)
LeaveWorkspace ==
  /\ panel /\ panel' = FALSE /\ Unmounts
  /\ UNCHANGED target

EnterWorkspace ==
  /\ ~panel /\ panel' = TRUE
  /\ IF target # NoTarget THEN Mounts(target) ELSE UNCHANGED pdf_vars
  /\ UNCHANGED target

-----------------------------------------------------------------------------
(* PdfViewer.                                                              *)

Loaded == numPages # NoCount

clampPage(p) == IF Loaded /\ AtLeastOne(p) > numPages THEN numPages ELSE AtLeastOne(p)

citedPage == clampPage(AtLeastOne(target.page))

onLoadSuccess ==
  /\ OnShow /\ ~Loaded
  /\ numPages' = Pages[target.document]
  /\ pageNumber' = IF pageNumber > numPages' THEN numPages' ELSE pageNumber
  /\ UNCHANGED <<panel, target, layer, turned>>

TurnTo(p, away) ==
  /\ pageNumber' = p /\ turned' = away /\ layer' = NoLayer
  /\ UNCHANGED <<panel, target, numPages>>

PreviousPage == OnShow /\ pageNumber > 1 /\ TurnTo(clampPage(pageNumber - 1), TRUE)

NextPage ==
  /\ OnShow /\ ~(Loaded /\ pageNumber >= numPages) /\ pageNumber < MaxPage
  /\ TurnTo(clampPage(pageNumber + 1), TRUE)

BackToEvidence == OnShow /\ pageNumber # citedPage /\ TurnTo(citedPage, FALSE)

(* The page is drawn and its text layer laid over it.  Bound: it is looked *)
(* at before the reader turns pages.                                       *)
RenderPage ==
  /\ OnShow /\ Loaded /\ layer = NoLayer /\ ~turned
  /\ layer' \in Layers
  /\ UNCHANGED <<panel, target, numPages, pageNumber, turned>>

ViewerNext ==
  \/ \E t \in Targets : openEvidence(t)
  \/ closeEvidence \/ LeaveWorkspace \/ EnterWorkspace
  \/ onLoadSuccess \/ PreviousPage \/ NextPage \/ BackToEvidence \/ RenderPage

ViewerSpec == ViewerInit /\ [][ViewerNext]_viewer_vars

-----------------------------------------------------------------------------
(* Properties.                                                             *)

(* Every variable has the shape of what it stands for.                     *)
ViewerTypes ==
  /\ panel \in BOOLEAN /\ target \in Targets \cup {NoTarget}
  /\ numPages \in Nat \cup {NoCount} /\ pageNumber \in Nat
  /\ layer \in Layers \cup {NoLayer} /\ turned \in BOOLEAN

(* In whatever order evidence is opened, closed and left with the page it  *)
(* was on, and files load, the viewer has the page of the evidence it is   *)
(* headed with before the reader, until they turn pages; and once the file *)
(* is there the page is one of it.                                         *)
ViewerShowsEvidence ==
  OnShow =>
    LET cited == AtLeastOne(target.page)
        last == Pages[target.document]
    IN /\ Loaded => numPages = last /\ pageNumber \in 1..last
       /\ ~turned => pageNumber = IF Loaded /\ cited > last THEN last ELSE cited

(* Of a quote that runs over the lines of the page, each line that has     *)
(* enough of it is marked, and no line is marked that has nothing of it.   *)
QuoteIsMarked ==
  layer # NoLayer =>
    LET quote == normalize(SubSeq(PageText(layer.lines), layer.from, layer.to))
    IN \A i \in 1..Len(layer.lines) :
         /\ Evident(layer.lines, i, layer.from, layer.to) => highlightQuote(layer.lines[i], quote)
         /\ highlightQuote(layer.lines[i], quote) => Shares(layer.lines[i], quote)

=============================================================================
