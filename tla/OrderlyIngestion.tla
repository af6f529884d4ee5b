--------------------------- MODULE OrderlyIngestion ---------------------------
(* Ingestion with a record of whether deliveries have been orderly.        *)
EXTENDS Ingestion

(* History: so far every job was delivered once and none went stale.       *)
VARIABLE orderly

OrderlyInit == Init /\ orderly = TRUE

OrderlyNext ==
  /\ Next
  /\ orderly' = (orderly /\ \A j \in Jobs : ~stale'[j] /\ ~(j \in handed' /\ queue'[j] # "absent"))

OrderlySpec == OrderlyInit /\ [][OrderlyNext]_<<vars, orderly>>

OrderlyFairSpec == OrderlySpec /\ Fairness

(* As long as each job is run by one process at a time and none goes       *)
(* stale, the document's only job and the document tell the same story,    *)
(* between any two commits: retries, crashes, time-outs, failed commits    *)
(* and a deletion never settle or begin one without the other.             *)
JobMirrorsDocument ==
  orderly => \A j \in Jobs : job[j] # "none" => job[j] = document

=============================================================================
