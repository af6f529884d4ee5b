--------------------------- MODULE MCEvidenceReview ---------------------------
(* Finite instances of EvidenceReview.                                     *)
EXTENDS EvidenceReview, TLC

CONSTANTS i1, i2, r1, r2, x1, x2

OneItem == {i1}
OneReviewer == {r1}
MCItems == {i1, i2}
MCReviewers == {r1, r2}
MCExtractors == {x1, x2}
OneExtractor == {x1}
MCRisks == {"UNRATED", "HIGH"}
OnlyUnrated == {"UNRATED"}
MCStatuses == {"OPEN", "COMPLIANT"}
OnlyOpen == {"OPEN"}

(* Every request there is.                                                 *)
AllBodies == Body

Decide(action) == [action |-> action, risk |-> NotGiven, status |-> NotGiven]
Patch(risk, status) == [action |-> "PATCH", risk |-> risk, status |-> status]

(* One way through the state machine and back, and each kind of edit.      *)
MCBodies ==
  {Decide(a) : a \in {"START_REVIEW", "APPROVE", "REQUEST_REVISION", "COMMENT"}}
    \cup {[action |-> "SET_RISK", risk |-> "HIGH", status |-> NotGiven],
          Patch(NotGiven, "COMPLIANT"), Patch("HIGH", "COMPLIANT"), Patch("UNRATED", NotGiven)}

(* What makes an item reviewed: a decision, a remark, an inline edit.      *)
FewBodies ==
  {Decide(a) : a \in {"START_REVIEW", "APPROVE", "COMMENT"}} \cup {Patch(NotGiven, "COMPLIANT")}

(* Requests are interchangeable, and so are items.                        *)
ReviewerSymmetry == Permutations(MCReviewers)
ExtractionSymmetry == Permutations(MCItems) \cup Permutations(MCExtractors)

=============================================================================
