------------------------ MODULE WorkerJobsRefinement ------------------------
(***************************************************************************)
(* The tables and runners of WorkerJobs implement JobLifecycle.            *)
(***************************************************************************)
EXTENDS WorkerJobs

PhaseOf(status) ==
  CASE status \in {"queued", "retry_scheduled"} -> "waiting"
    [] status = "dead_lettered" -> "dead"
    [] OTHER -> status

HolderOf(j) ==
  IF \E r \in Runners : Works(r) /\ runner[r].job = j
  THEN CHOOSE r \in Runners : Works(r) /\ runner[r].job = j
  ELSE NoRunner

Lifecycle == INSTANCE JobLifecycle WITH
  phase  <- [j \in Jobs |-> PhaseOf(job[j].status)],
  starts <- [j \in Jobs |-> job[j].attemptCount],
  holder <- [j \in Jobs |-> HolderOf(j)]

\* Whatever fails or gets lost, a job is started at most max_attempts times, by one holder
\* at a time; only that holder settles it, and a settled job nobody holds stays settled.
ImplementsLifecycle == Lifecycle!Spec
==============================================================================
