-------------------------- MODULE MCIngestionOrderly --------------------------
(* Finite instances of OrderlyIngestion.                                   *)
EXTENDS MCIngestion, OrderlyIngestion

=============================================================================
