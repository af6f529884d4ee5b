----------------------------- MODULE MCIngestion -----------------------------
(* Finite instances of Ingestion.                                          *)
EXTENDS Ingestion, TLC

CONSTANTS j1, j2, r1, r2

OneJob == {j1}
MCJobs == {j1, j2}
OneRun == {r1}
MCRuns == {r1, r2}

AnyEnqueue == {"queued", "inline", "both"}
Queued == {"queued"}

AnyFault == {"crash", "timeout", "database", "delete", "stall"}
NoFault == {}

(* Runs are interchangeable.                                               *)
RunSymmetry == Permutations(MCRuns)

=============================================================================
