---------------------------- MODULE ReviewWorkflow ----------------------------
(***************************************************************************)
(* What the review of a document's evidence promises its users: an item is *)
(* live until a re-extraction archives or replaces it, reviewers move it   *)
(* along the review graph one decision at a time, and a re-extraction      *)
(* takes effect as a whole.  No requests, no locks, no versions.           *)
(***************************************************************************)
CONSTANTS Items, Risks, Statuses

VARIABLES
  phase,  (* absent, live, archived or deleted                              *)
  view    (* what a reader sees of the item                                 *)

vars == <<phase, view>>

Graph ==
  {<<"NEW", "IN_REVIEW">>, <<"NEEDS_REVISION", "IN_REVIEW">>,
   <<"APPROVED", "IN_REVIEW">>, <<"REJECTED", "IN_REVIEW">>,
   <<"IN_REVIEW", "APPROVED">>, <<"IN_REVIEW", "REJECTED">>,
   <<"IN_REVIEW", "NEEDS_REVISION">>}

Fresh == [review_status |-> "NEW", risk |-> "UNRATED", status |-> "OPEN"]

Init ==
  /\ phase = [i \in Items |-> "absent"]
  /\ view = [i \in Items |-> Fresh]

(* A reviewer decides, on a live item only.                                *)
Decide(i) ==
  /\ phase[i] = "live"
  /\ \E s \in {edge[2] : edge \in {g \in Graph : g[1] = view[i].review_status}} :
       view' = [view EXCEPT ![i].review_status = s]
  /\ UNCHANGED phase

(* Risk and compliance status are the reviewer's to set at any time.       *)
Rate(i) ==
  /\ phase[i] \in {"live", "archived"}
  /\ \E k \in Risks, s \in Statuses : view' = [view EXCEPT ![i].risk = k, ![i].status = s]
  /\ UNCHANGED phase

(* One extraction, all at once: only items still NEW are dropped, archived *)
(* ones stay for good.                                                     *)
Extract(new, superseded, dropped) ==
  /\ \A i \in new : phase[i] = "absent"
  /\ \A i \in superseded : phase[i] = "live"
  /\ \A i \in dropped : phase[i] = "live" /\ view[i].review_status = "NEW"
  /\ superseded \cap dropped = {}
  /\ phase' = [i \in Items |-> CASE i \in new -> "live"
                                 [] i \in superseded -> "archived"
                                 [] i \in dropped -> "deleted"
                                 [] OTHER -> phase[i]]
  /\ view' = [i \in Items |-> IF i \in new \cup dropped THEN Fresh ELSE view[i]]

Next ==
  \/ \E i \in Items : Decide(i) \/ Rate(i)
  \/ \E new, superseded, dropped \in SUBSET Items : Extract(new, superseded, dropped)

Spec == Init /\ [][Next]_vars

=============================================================================
