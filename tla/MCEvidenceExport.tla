--------------------------- MODULE MCEvidenceExport ---------------------------
(* The finite instances of EvidenceReview, with one export at a time.      *)
EXTENDS MCEvidenceReview, EvidenceExport
=============================================================================
