----------------------------- MODULE MCWorkerJobs -----------------------------
(* Small instances of WorkerJobs for TLC.                                  *)
EXTENDS WorkerJobsRefinement, WorkerBackoff, TLC

CONSTANTS r1, r2

\* One scope, two jobs: the jobs of a store's projection.
MCOneScope == {"store"}
MCOneKind == [s \in MCOneScope |-> "projection"]
MCInOneScope == [j \in Jobs |-> "store"]

MCTwoAttempts == [j \in Jobs |-> 2]
MCSecondHasOne == [j \in Jobs |-> IF j = 2 THEN 1 ELSE 2]
MCSecondHasThree == [j \in Jobs |-> IF j = 2 THEN 3 ELSE 2]

\* A policy configured with no base delay still waits one second, then two.
MCRetryDelay == [n \in 1..3 |-> BackoffDelay(0, 2, n)]

\* One capped at a second waits one each time.
MCShortDelay == [n \in 1..3 |-> BackoffDelay(0, 1, n)]

MCBothPolicies == {TRUE, FALSE}
MCWithPolicy == {TRUE}

Symmetry == Permutations(Runners)
===============================================================================
