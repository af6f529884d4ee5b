---------------------------- MODULE EvidenceExport ----------------------------
(***************************************************************************)
(* Reading items together with their history, while requests write: the    *)
(* exports of the Evidence Map and the detail of one item select the rows  *)
(* first and the events afterwards, each from what is committed by then.   *)
(* They take no locks; one of them at a time is followed.                  *)
(***************************************************************************)
EXTENDS EvidenceReview

CONSTANT MaxExportSeq   (* bound: no export begins past this event number  *)

ASSUME ExportAssumption == MaxExportSeq \in Nat

VARIABLE exported       (* rows selected, of an export that has no history *)

export_vars == <<vars, exported>>

NoRows == [i \in {} |-> Gone]

ExportInit == Init /\ exported = NoRows

Select(chosen) ==
  /\ exported = NoRows /\ chosen # {} /\ next_seq <= MaxExportSeq
  /\ exported' = [i \in chosen |-> row[i]]
  /\ UNCHANGED vars

(* Live items, of one review status if the request says so.  Without any   *)
(* no events are asked for.                                                *)
export(review_status) ==
  Select({i \in stored :
            ~row[i].archived /\ review_status \in {NotGiven, row[i].review_status}})

(* One item, archived or not.                                              *)
detail(i) == Select(stored \cap {i})

(* Fault: the history is one of decisions.                                 *)
DecisionsOf(i) == Decisions(i)

History(i) == EventsOn(i)

(* The events are selected and the response is built of both.              *)
Respond ==
  /\ exported # NoRows /\ exported' = NoRows
  /\ UNCHANGED vars

ExportNext ==
  \/ Next /\ UNCHANGED exported
  \/ \E s \in ReviewStatus \cup {NotGiven} : export(s)
  \/ \E i \in Items : detail(i)
  \/ Respond

ExportSpec == ExportInit /\ [][ExportNext]_export_vars

-----------------------------------------------------------------------------
(* Properties.                                                             *)

(* What a row looks like after the events es.                              *)
LooksLike(old, es) ==
  /\ Replays({e \in es : e.previous_status # e.next_status}, old.review_status)
  /\ RatingsFollow(es, old)
  /\ Cardinality({e \in es : e.action = "EXTRACTION_ARCHIVED"}) = IF old.archived THEN 1 ELSE 0

(* Whatever commits between the two statements, an item that is still      *)
(* there looks as it did at some point of the history returned with it: no *)
(* decision, rating or archiving on display is missing from that history,  *)
(* and archiving is in it once.                                            *)
ExportIsExplained ==
  [][Respond =>
       \A i \in DOMAIN exported \cap stored :
         \E s \in 1..next_seq : LooksLike(exported[i], {e \in History(i) : e.seq < s})]_export_vars

=============================================================================
