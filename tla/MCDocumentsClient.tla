--------------------------- MODULE MCDocumentsClient ---------------------------
(* Finite instances of DocumentsClient.                                    *)
EXTENDS DocumentsClient

CONSTANTS d1, o1

OneDocument == {d1}
OtherRequests == {o1}
MCRequests == {"documents", d1, o1}

=============================================================================
