------------------------------ MODULE WorkerJobs ------------------------------
(***************************************************************************)
(* The durable worker jobs of data-dyna: the PostgreSQL job repository     *)
(* (worker_jobs, worker_job_attempts, worker_checkpoints,                  *)
(* worker_dead_letters), the bounded runners that claim and execute jobs   *)
(* concurrently, the failure policy they apply, and the output store each  *)
(* checkpoint scope owns.                                                  *)
(*                                                                         *)
(* Every SQL statement of the repository commits on its own, so a runner   *)
(* is a process that takes one step per statement.  A statement may fail   *)
(* before it commits, commit while its acknowledgement is lost, and a      *)
(* runner may stop between any two of them.                                *)
(***************************************************************************)
EXTENDS Integers, Sequences, FiniteSets

CONSTANTS
  Jobs,         \* job ids; numbers, whose order stands for the order of the text ids
  Kinds,        \* worker kinds
  Scopes,       \* checkpoint scopes: kind, merchant, store, source, service, environment
  KindOf,       \* the worker kind of a scope
  Derived,      \* the kinds whose input is an earlier worker's output, not the raw events
  ScopeOf,      \* the scope of a job
  MaxAttempts,  \* max_attempts of a job
  Runners,      \* processes that call runClaimedWorkerJob
  NoRunner,     \* locked_by IS NULL
  Lease,        \* leaseSeconds
  RetryDelay,   \* the backoff after the n-th attempt, at least a second
  Policies,     \* whether a call may come with (TRUE) or without (FALSE) a failurePolicy
  Orders,       \* in which order a caller may take the two inputs of a call: see OrderKinds
  Drift,        \* how far the clock of a process may be off
  Faults,       \* what may go wrong: see FaultKinds
  MaxTime,      \* bound on the clock
  MaxEvents     \* bound on the accepted raw events

FaultKinds == {"build", "statement", "ack", "crash"}
OrderKinds == {"clock_first", "input_first"}

ASSUME ConstantsAssumption ==
  /\ Jobs \subseteq Nat
  /\ Kinds # {}
  /\ KindOf \in [Scopes -> Kinds]
  /\ Derived \subseteq Kinds
  /\ ScopeOf \in [Jobs -> Scopes]
  /\ MaxAttempts \in [Jobs -> Nat \ {0}]
  /\ NoRunner \notin Runners
  /\ Lease \in Nat
  /\ \A j \in Jobs : \A n \in 1..MaxAttempts[j] : RetryDelay[n] \in Nat \ {0}
  /\ Policies \subseteq BOOLEAN
  /\ Orders \subseteq OrderKinds
  /\ Drift \in Nat
  /\ Faults \subseteq FaultKinds
  /\ MaxTime \in Nat
  /\ MaxEvents \in Nat

VARIABLES
  job,         \* worker_jobs, by job id
  attempt,     \* worker_job_attempts: the attempts of a job by attempt_number
  deadLetter,  \* worker_dead_letters: the attempt of a job's row, 0 if none
  checkpoint,  \* worker_checkpoints, by scope
  store,       \* how many raw events the current output of a scope was built from
  runner,      \* where each process is in runClaimedWorkerJob
  events,      \* how many raw events have been accepted
  now,         \* the clock
  acceptedBy   \* how many raw events had been accepted when the clock reached t

tables == <<job, attempt, deadLetter, checkpoint>>
environment == <<events, now, acceptedBy>>
vars == <<tables, store, runner, environment>>

NoJob == -1
NoTime == -1
NoWatermark == -1

JobStatus == {"absent", "queued", "running", "succeeded", "retry_scheduled", "dead_lettered"}
AttemptStatus == {"started", "checkpointed", "succeeded", "retryable_failed", "dead_lettered"}
RunStatus == {"none", "idle", "completed", "retry_scheduled", "dead_lettered", "threw"}

JobRow == [status : JobStatus, attemptCount : Nat, lockedBy : Runners \cup {NoRunner},
           lockedUntil : Int, nextRunAt : Int, createdAt : Int]
AttemptRow == [status : AttemptStatus, watermark : Int, startedAt : Int]
CheckpointRow == [watermark : Int, jobId : Jobs \cup {NoJob}, attemptId : Nat, committedAt : Int]

\* What a process does next: its caller has the clock and is "reading" the input, or has the
\* input and reads the clock ("timing"); then one statement after the other: "claim" selects
\* and locks a row, "lock" updates it and commits, "write" is buildOutput and writeOutput,
\* "checkpoint" the runner's own call, "recheckpoint" the one inside complete, "complete" its
\* update, "catch" persistWorkerFailure.
Preparing == {"reading", "timing"}
Working == {"write", "checkpoint", "recheckpoint", "complete", "catch"}
Step == {"returned", "claim", "lock"} \cup Preparing \cup Working

RunnerState == [step : Step, kind : Kinds, now : Int, seen : Nat, policy : BOOLEAN,
                job : Jobs \cup {NoJob}, attempt : Nat, retryable : BOOLEAN, result : RunStatus]

AbsentJob == [status |-> "absent", attemptCount |-> 0, lockedBy |-> NoRunner,
              lockedUntil |-> NoTime, nextRunAt |-> NoTime, createdAt |-> NoTime]
AtRest == [step |-> "returned", kind |-> CHOOSE k \in Kinds : TRUE, now |-> NoTime, seen |-> 0,
           policy |-> FALSE, job |-> NoJob, attempt |-> 0, retryable |-> FALSE,
           result |-> "none"]
NoCheckpoint == [watermark |-> NoWatermark, jobId |-> NoJob, attemptId |-> 0,
                 committedAt |-> NoTime]

Init ==
  /\ job = [j \in Jobs |-> AbsentJob]
  /\ attempt = [j \in Jobs |-> <<>>]
  /\ deadLetter = [j \in Jobs |-> 0]
  /\ checkpoint = [s \in Scopes |-> NoCheckpoint]
  /\ store = [s \in Scopes |-> NoWatermark]
  /\ runner = [r \in Runners |-> AtRest]
  /\ events = 0
  /\ now = 0
  /\ acceptedBy = [t \in 0..MaxTime |-> 0]

-------------------------------------------------------------------------------
(* The environment: raw events arrive, time passes, jobs are enqueued.     *)

\* What the clock of a process may read: nobody keeps the processes' clocks together.
ClockReadings == {t \in 0..MaxTime : now - Drift <= t /\ t <= now + Drift}

AcceptRawEvent ==
  /\ events < MaxEvents
  /\ events' = events + 1
  /\ UNCHANGED <<tables, store, runner, now, acceptedBy>>

Tick ==
  /\ now < MaxTime
  /\ now' = now + 1
  /\ acceptedBy' = [acceptedBy EXCEPT ![now + 1] = events]
  /\ UNCHANGED <<tables, store, runner, events>>

\* INSERT ... ON CONFLICT (job_id) DO NOTHING: a job that exists is returned as it is.
Enqueue(j) ==
  /\ job[j].status = "absent"
  /\ \E t \in ClockReadings :
       job' = [job EXCEPT ![j] = [AbsentJob EXCEPT !.status = "queued",
                                                   !.nextRunAt = t, !.createdAt = t]]
  /\ UNCHANGED <<attempt, deadLetter, checkpoint, store, runner, environment>>

-------------------------------------------------------------------------------
(* The runner's control.                                                   *)

Goto(r, step) == runner' = [runner EXCEPT ![r].step = step]

\* The call resolves; its result names the job and the attempt it was about.
Return(r, result) ==
  runner' = [runner EXCEPT ![r] = [AtRest EXCEPT !.job = runner[r].job,
                                                 !.attempt = runner[r].attempt,
                                                 !.result = result]]

\* The call rejects, or the process stops: nothing is reported about any job.
Throw(r) == runner' = [runner EXCEPT ![r] = [AtRest EXCEPT !.result = "threw"]]

Catch(r, retryable) ==
  runner' = [runner EXCEPT ![r].step = "catch", ![r].retryable = retryable]

-------------------------------------------------------------------------------
(* The caller.  A worker is called with two inputs that nothing ties       *)
(* together, a Date and the data to work on; both stay fixed for the whole *)
(* run, however long its statements take.                                  *)

\* Mutant of Inputs: the raw events come from a replica that lags.
LaggingInputs(k) == 0..events

\* How many raw events the data given to a worker of kind k covers: all there are when it is
\* read, or those an earlier output of whatever age was built from.
Inputs(k) == IF k \in Derived THEN 0..events ELSE {events}

ClockFirst(r) ==
  /\ "clock_first" \in Orders
  /\ runner[r].step = "returned"
  /\ \E k \in Kinds, policy \in Policies, t \in ClockReadings :
       runner' = [runner EXCEPT ![r] = [AtRest EXCEPT !.step = "reading", !.kind = k,
                                                      !.policy = policy, !.now = t]]
  /\ UNCHANGED <<tables, store, environment>>

ReadInput(r) ==
  /\ runner[r].step = "reading"
  /\ \E seen \in Inputs(runner[r].kind) :
       runner' = [runner EXCEPT ![r].step = "claim", ![r].seen = seen]
  /\ UNCHANGED <<tables, store, environment>>

InputFirst(r) ==
  /\ "input_first" \in Orders
  /\ runner[r].step = "returned"
  /\ \E k \in Kinds, policy \in Policies :
       \E seen \in Inputs(k) :
         runner' = [runner EXCEPT ![r] = [AtRest EXCEPT !.step = "timing", !.kind = k,
                                                        !.policy = policy, !.seen = seen]]
  /\ UNCHANGED <<tables, store, environment>>

ReadClock(r) ==
  /\ runner[r].step = "timing"
  /\ \E t \in ClockReadings :
       runner' = [runner EXCEPT ![r].step = "claim", ![r].now = t]
  /\ UNCHANGED <<tables, store, environment>>

-------------------------------------------------------------------------------
(* claim: SELECT ... FOR UPDATE SKIP LOCKED LIMIT 1, then the update.      *)

\* Mutant of RowLocked: the SELECT takes no row lock.
NeverLocked(j) == FALSE

RowLocked(j) == \E r \in Runners : runner[r].step = "lock" /\ runner[r].job = j

\* Mutant of Claimable: running jobs whose lease expired are taken over.
ClaimableWhenExpired(j, r) ==
  /\ KindOf[ScopeOf[j]] = runner[r].kind
  /\ job[j].status \in {"queued", "retry_scheduled", "running"}
  /\ job[j].nextRunAt <= runner[r].now
  /\ job[j].lockedUntil <= runner[r].now
  /\ job[j].attemptCount < MaxAttempts[j]

\* Mutant of Claimable: the lock is checked instead of the status.
ClaimableUnlessLocked(j, r) ==
  /\ KindOf[ScopeOf[j]] = runner[r].kind
  /\ job[j].status # "absent" /\ job[j].lockedBy = NoRunner
  /\ job[j].nextRunAt <= runner[r].now
  /\ job[j].attemptCount < MaxAttempts[j]

Claimable(j, r) ==
  /\ KindOf[ScopeOf[j]] = runner[r].kind
  /\ job[j].status \in {"queued", "retry_scheduled"}
  /\ job[j].nextRunAt <= runner[r].now
  /\ job[j].lockedUntil <= runner[r].now
  /\ job[j].attemptCount < MaxAttempts[j]

\* ORDER BY next_run_at, created_at, job_id
Before(j, k) ==
  \/ job[j].nextRunAt < job[k].nextRunAt
  \/ job[j].nextRunAt = job[k].nextRunAt /\ job[j].createdAt < job[k].createdAt
  \/ job[j].nextRunAt = job[k].nextRunAt /\ job[j].createdAt = job[k].createdAt /\ j < k

Candidates(r) == {j \in Jobs : Claimable(j, r) /\ ~RowLocked(j)}

SelectJob(r) ==
  /\ runner[r].step = "claim"
  /\ \E j \in Candidates(r) :
       /\ \A k \in Candidates(r) \ {j} : Before(j, k)
       /\ runner' = [runner EXCEPT ![r].step = "lock", ![r].job = j]
  /\ UNCHANGED <<tables, store, environment>>

ClaimNothing(r) ==
  /\ runner[r].step = "claim"
  /\ Candidates(r) = {}
  /\ Return(r, "idle")
  /\ UNCHANGED <<tables, store, environment>>

\* The committed effect of claim on the locked row.
ClaimRow(j, r) ==
  /\ job' = [job EXCEPT ![j].status = "running",
                        ![j].lockedBy = r,
                        ![j].lockedUntil = runner[r].now + Lease,
                        ![j].attemptCount = @ + 1]
  /\ attempt' = [attempt EXCEPT ![j] = Append(@, [status |-> "started",
                                                  watermark |-> NoWatermark,
                                                  startedAt |-> runner[r].now])]
  /\ UNCHANGED <<deadLetter, checkpoint>>

Claim(r) ==
  /\ runner[r].step = "lock"
  /\ ClaimRow(runner[r].job, r)
  /\ runner' = [runner EXCEPT ![r].step = "write",
                              ![r].attempt = job[runner[r].job].attemptCount + 1]
  /\ UNCHANGED <<store, environment>>

\* claim runs outside the try block: its failure reaches the caller and nothing is recorded.
ClaimFails(r) ==
  /\ "statement" \in Faults
  /\ runner[r].step \in {"claim", "lock"}
  /\ Throw(r)
  /\ UNCHANGED <<tables, store, environment>>

ClaimAckLost(r) ==
  /\ "ack" \in Faults
  /\ runner[r].step = "lock"
  /\ ClaimRow(runner[r].job, r)
  /\ Throw(r)
  /\ UNCHANGED <<store, environment>>

-------------------------------------------------------------------------------
(* The try block: build and write the output, checkpoint, complete.        *)

ScopeOfRun(r) == ScopeOf[runner[r].job]

\* Mutant of WriteOutput: the write is not awaited and gets lost.
WriteNothing(r) ==
  /\ runner[r].step = "write"
  /\ Goto(r, "checkpoint")
  /\ UNCHANGED <<tables, store, environment>>

\* replaceAll: the whole output of the scope is replaced by what this run computed.
WriteOutput(r) ==
  /\ runner[r].step = "write"
  /\ store' = [store EXCEPT ![ScopeOfRun(r)] = runner[r].seen]
  /\ Goto(r, "checkpoint")
  /\ UNCHANGED <<tables, environment>>

\* buildOutput throws, or writeOutput rejects with or without having replaced the output.
\* A WorkerExecutionError says itself whether it is retryable.
BuildOrWriteFails(r) ==
  /\ "build" \in Faults
  /\ runner[r].step = "write"
  /\ \E retryable \in BOOLEAN : Catch(r, retryable)
  /\ \E written \in {store[ScopeOfRun(r)], runner[r].seen} :
       store' = [store EXCEPT ![ScopeOfRun(r)] = written]
  /\ UNCHANGED <<tables, environment>>

\* The committed effect of checkpoint: the attempt row and the upsert of the scope's row.
CommitCheckpoint(j, a, watermark, at) ==
  /\ attempt' = [attempt EXCEPT ![j][a] = [@ EXCEPT !.status = "checkpointed",
                                                   !.watermark = watermark]]
  /\ checkpoint' = [checkpoint EXCEPT ![ScopeOf[j]] =
                      [watermark |-> watermark, jobId |-> j, attemptId |-> a, committedAt |-> at]]
  /\ UNCHANGED <<job, deadLetter>>

\* Mutant of CommitComplete: the attempt row is left as it is.
CompleteJobOnly(j, a, watermark) ==
  /\ job' = [job EXCEPT ![j].status = "succeeded", ![j].lockedBy = NoRunner,
                        ![j].lockedUntil = NoTime]
  /\ UNCHANGED <<attempt, deadLetter, checkpoint>>

\* The committed effect of complete's second statement.
CommitComplete(j, a, watermark) ==
  /\ attempt' = [attempt EXCEPT ![j][a] = [@ EXCEPT !.status = "succeeded",
                                                   !.watermark = watermark]]
  /\ job' = [job EXCEPT ![j].status = "succeeded", ![j].lockedBy = NoRunner,
                        ![j].lockedUntil = NoTime]
  /\ UNCHANGED <<deadLetter, checkpoint>>

\* Mutant of CheckpointOfRun: committed_at is the time of the statement.
CheckpointAtStatementTime(r) ==
  CommitCheckpoint(runner[r].job, runner[r].attempt, runner[r].seen, now)

CheckpointOfRun(r) ==
  CommitCheckpoint(runner[r].job, runner[r].attempt, runner[r].seen, runner[r].now)
CompleteOfRun(r) == CommitComplete(runner[r].job, runner[r].attempt, runner[r].seen)

Checkpoint(r) ==
  /\ runner[r].step = "checkpoint"
  /\ CheckpointOfRun(r)
  /\ Goto(r, "recheckpoint")
  /\ UNCHANGED <<store, environment>>

CompleteCheckpoint(r) ==
  /\ runner[r].step = "recheckpoint"
  /\ CheckpointOfRun(r)
  /\ Goto(r, "complete")
  /\ UNCHANGED <<store, environment>>

Complete(r) ==
  /\ runner[r].step = "complete"
  /\ CompleteOfRun(r)
  /\ Return(r, "completed")
  /\ UNCHANGED <<store, environment>>

\* A driver error is no WorkerExecutionError: it is classified "unexpected", retryable.
StatementFails(r) ==
  /\ "statement" \in Faults
  /\ runner[r].step \in {"checkpoint", "recheckpoint", "complete"}
  /\ Catch(r, TRUE)
  /\ UNCHANGED <<tables, store, environment>>

\* The statement committed but the runner sees an error; an observability sink that throws
\* after it has the same effect.
AckLost(r) ==
  /\ "ack" \in Faults
  /\ \/ runner[r].step \in {"checkpoint", "recheckpoint"} /\ CheckpointOfRun(r)
     \/ runner[r].step = "complete" /\ CompleteOfRun(r)
  /\ Catch(r, TRUE)
  /\ UNCHANGED <<store, environment>>

-------------------------------------------------------------------------------
(* The catch block: classifyWorkerFailure, then retry or deadLetter.       *)

\* Mutant of ShouldRetry: off by one.
RetryOnceMore(r) ==
  runner[r].retryable /\ runner[r].attempt <= MaxAttempts[runner[r].job]

\* classifyWorkerFailure compares the attempt count read at claim time.
ShouldRetry(r) ==
  runner[r].retryable /\ runner[r].attempt < MaxAttempts[runner[r].job]

\* retry: refused when the row has no attempt left.
RetryAllowed(j) == job[j].attemptCount < MaxAttempts[j]

\* Mutant of CommitRetry: the job takes the status of its attempt.
RetryWithAttemptStatus(j, a, nextRunAt) ==
  /\ attempt' = [attempt EXCEPT ![j][a].status = "retryable_failed"]
  /\ job' = [job EXCEPT ![j].status = "retryable_failed", ![j].lockedBy = NoRunner,
                        ![j].lockedUntil = NoTime, ![j].nextRunAt = nextRunAt]
  /\ UNCHANGED <<deadLetter, checkpoint>>

\* Mutant of CommitRetry: the attempt row stays open.
RetryJobOnly(j, a, nextRunAt) ==
  /\ job' = [job EXCEPT ![j].status = "retry_scheduled", ![j].lockedBy = NoRunner,
                        ![j].lockedUntil = NoTime, ![j].nextRunAt = nextRunAt]
  /\ UNCHANGED <<attempt, deadLetter, checkpoint>>

\* Mutant of CommitRetry: the lease is not cleared.
RetryKeepingLease(j, a, nextRunAt) ==
  /\ attempt' = [attempt EXCEPT ![j][a].status = "retryable_failed"]
  /\ job' = [job EXCEPT ![j].status = "retry_scheduled", ![j].lockedBy = NoRunner,
                        ![j].nextRunAt = nextRunAt]
  /\ UNCHANGED <<deadLetter, checkpoint>>

CommitRetry(j, a, nextRunAt) ==
  /\ attempt' = [attempt EXCEPT ![j][a].status = "retryable_failed"]
  /\ job' = [job EXCEPT ![j].status = "retry_scheduled", ![j].lockedBy = NoRunner,
                        ![j].lockedUntil = NoTime, ![j].nextRunAt = nextRunAt]
  /\ UNCHANGED <<deadLetter, checkpoint>>

\* Mutant of CommitDeadLetter: no dead-letter row is inserted.
DeadLetterWithoutRow(j, a) ==
  /\ attempt' = [attempt EXCEPT ![j][a].status = "dead_lettered"]
  /\ job' = [job EXCEPT ![j].status = "dead_lettered", ![j].lockedBy = NoRunner,
                        ![j].lockedUntil = NoTime]
  /\ UNCHANGED <<deadLetter, checkpoint>>

CommitDeadLetter(j, a) ==
  /\ attempt' = [attempt EXCEPT ![j][a].status = "dead_lettered"]
  /\ job' = [job EXCEPT ![j].status = "dead_lettered", ![j].lockedBy = NoRunner,
                        ![j].lockedUntil = NoTime]
  /\ deadLetter' = [deadLetter EXCEPT ![j] = a]
  /\ UNCHANGED checkpoint

\* Mutant of RetryOfRun: no backoff.
RetryAtOnce(r) ==
  /\ ShouldRetry(r)
  /\ RetryAllowed(runner[r].job)
  /\ CommitRetry(runner[r].job, runner[r].attempt, runner[r].now)

RetryOfRun(r) ==
  /\ ShouldRetry(r)
  /\ RetryAllowed(runner[r].job)
  /\ CommitRetry(runner[r].job, runner[r].attempt,
                 runner[r].now + RetryDelay[runner[r].attempt])

DeadLetterOfRun(r) ==
  /\ ~ShouldRetry(r)
  /\ CommitDeadLetter(runner[r].job, runner[r].attempt)

Retry(r) ==
  /\ runner[r].step = "catch" /\ runner[r].policy
  /\ RetryOfRun(r)
  /\ Return(r, "retry_scheduled")
  /\ UNCHANGED <<store, environment>>

DeadLetter(r) ==
  /\ runner[r].step = "catch" /\ runner[r].policy
  /\ DeadLetterOfRun(r)
  /\ Return(r, "dead_lettered")
  /\ UNCHANGED <<store, environment>>

\* The failure stays unrecorded: no failurePolicy was given, retry found no attempt left,
\* or the statement that records it failed.
FailureUnrecorded(r) ==
  /\ runner[r].step = "catch"
  /\ \/ ~runner[r].policy
     \/ ShouldRetry(r) /\ ~RetryAllowed(runner[r].job)
     \/ "statement" \in Faults
  /\ Throw(r)
  /\ UNCHANGED <<tables, store, environment>>

FailureAckLost(r) ==
  /\ "ack" \in Faults
  /\ runner[r].step = "catch" /\ runner[r].policy
  /\ RetryOfRun(r) \/ DeadLetterOfRun(r)
  /\ Throw(r)
  /\ UNCHANGED <<store, environment>>

\* The process stops; a statement not yet committed is rolled back.
Crash(r) ==
  /\ "crash" \in Faults
  /\ runner[r].step # "returned"
  /\ Throw(r)
  /\ UNCHANGED <<tables, store, environment>>

-------------------------------------------------------------------------------
Prepare(r) == ClockFirst(r) \/ ReadInput(r) \/ InputFirst(r) \/ ReadClock(r)

Continue(r) ==
  \/ SelectJob(r) \/ ClaimNothing(r) \/ Claim(r)
  \/ WriteOutput(r) \/ Checkpoint(r) \/ CompleteCheckpoint(r) \/ Complete(r)
  \/ Retry(r) \/ DeadLetter(r) \/ FailureUnrecorded(r)

GoWrong(r) ==
  \/ ClaimFails(r) \/ ClaimAckLost(r) \/ BuildOrWriteFails(r)
  \/ StatementFails(r) \/ AckLost(r) \/ FailureAckLost(r) \/ Crash(r)

Next ==
  \/ AcceptRawEvent
  \/ Tick
  \/ \E j \in Jobs : Enqueue(j)
  \/ \E r \in Runners : Prepare(r) \/ Continue(r) \/ GoWrong(r)

Spec == Init /\ [][Next]_vars

\* A run that was started is driven to its end by the event loop that awaits its statements.
FairSpec == Spec /\ \A r \in Runners : WF_vars(Continue(r))

-------------------------------------------------------------------------------
(* What the jobs promise.                                                  *)

\* Every variable holds rows and processes of the declared shape.
TypeOK ==
  /\ job \in [Jobs -> JobRow]
  /\ attempt \in [Jobs -> Seq(AttemptRow)]
  /\ deadLetter \in [Jobs -> Nat]
  /\ checkpoint \in [Scopes -> CheckpointRow]
  /\ store \in [Scopes -> Int]
  /\ runner \in [Runners -> RunnerState]
  /\ events \in Nat
  /\ now \in 0..MaxTime
  /\ acceptedBy \in [0..MaxTime -> Nat]

Works(r) == runner[r].step \in Working
LastAttempt(j) == attempt[j][Len(attempt[j])]

\* Two runs never work on the same job at once, and the attempt a run works on is the last
\* one of its job: a run can never write into an attempt that a later claim has superseded
\* (claim, and no status or owner check in checkpoint, complete, retry and deadLetter).
ExclusiveAttempt ==
  \A r \in Runners : Works(r) =>
    /\ runner[r].attempt = job[runner[r].job].attemptCount
    /\ \A q \in Runners \ {r} : Works(q) => runner[q].job # runner[r].job

\* The attempts of a job as its own row and the dead letters tell them.
RowsTellOneStory ==
  \A j \in Jobs :
    /\ job[j].status \in {"absent", "queued"} <=> attempt[j] = <<>>
    /\ job[j].status = "running" =>
         LastAttempt(j).status \in {"started", "checkpointed"} /\ job[j].lockedBy \in Runners
    /\ \A s \in {"succeeded", "dead_lettered"} :
         job[j].status = s => LastAttempt(j).status = s
    /\ job[j].status = "retry_scheduled" => LastAttempt(j).status = "retryable_failed"
    /\ deadLetter[j] = IF job[j].status = "dead_lettered" THEN Len(attempt[j]) ELSE 0

\* The attempt a scope's checkpoint names, with what the checkpoint says of it.
CheckpointNamesItsAttempt ==
  \A s \in Scopes : checkpoint[s] # NoCheckpoint =>
    LET j == checkpoint[s].jobId
        a == checkpoint[s].attemptId IN
    /\ j \in Jobs /\ ScopeOf[j] = s /\ a \in 1..Len(attempt[j])
    /\ attempt[j][a].status # "started"
    /\ attempt[j][a].watermark = checkpoint[s].watermark
    /\ attempt[j][a].startedAt = checkpoint[s].committedAt

\* The four tables always tell one story, whatever statement failed or was acknowledged to
\* nobody: the "current job state must also reflect the next action", dead letters exist for
\* exactly the dead-lettered jobs, and the checkpoint of a scope is the one some attempt of a
\* job of that scope committed, although a failed attempt leaves its checkpoint behind.
LedgerAgrees == RowsTellOneStory /\ CheckpointNamesItsAttempt

\* What a run may assume of the row it holds, although no statement checks it: a locked row
\* is waiting and locked once; the row of a run in its try block is running and leased to it;
\* a run in its catch block finds its row so too, or succeeded when an acknowledgement was lost.
RunMatchesRow ==
  \A r \in Runners :
    LET j == runner[r].job IN
    /\ runner[r].step = "lock" =>
         /\ j \in Jobs
         /\ job[j].status \in {"queued", "retry_scheduled"}
         /\ \A q \in Runners \ {r} : runner[q].step = "lock" => runner[q].job # j
    /\ Works(r) =>
         /\ j \in Jobs
         /\ \/ job[j].status = "running" /\ job[j].lockedBy = r
            \/ job[j].status = "succeeded" /\ runner[r].step = "catch"

\* Attempts are numbered without gaps up to attempt_count, never more than max_attempts, and
\* every attempt but the last is closed as a retryable failure.
AttemptsAccounted ==
  \A j \in Jobs :
    /\ Len(attempt[j]) = job[j].attemptCount
    /\ job[j].attemptCount <= MaxAttempts[j]
    /\ \A n \in 1..(Len(attempt[j]) - 1) : attempt[j][n].status = "retryable_failed"

\* A job waiting to be claimed has an attempt left and no leftover lock, so it can be claimed
\* as soon as it is due: no retry parks a job where claim would never look at it again.
WaitingIsClaimable ==
  \A j \in Jobs : job[j].status \in {"queued", "retry_scheduled"} =>
    /\ job[j].attemptCount < MaxAttempts[j]
    /\ job[j].lockedBy = NoRunner /\ job[j].lockedUntil = NoTime

\* A run that reports an outcome tells the durable truth, from then until its process is
\* invoked again: the attempt it names ended exactly that way.
ReportedOutcomeIsDurable ==
  \A r \in Runners :
    LET ended == attempt[runner[r].job][runner[r].attempt].status IN
    /\ runner[r].result = "completed" => ended = "succeeded"
    /\ runner[r].result = "retry_scheduled" => ended = "retryable_failed"
    /\ runner[r].result = "dead_lettered" => ended = "dead_lettered"

\* The scopes whose workers read the raw events themselves.
FromEvents(s) == KindOf[s] \notin Derived

\* No caller reads its input before its clock.
ClocksFirst == Orders \subseteq {"clock_first"}

\* committed_at is honest when callers take the clock before they read: a checkpoint committed
\* "at" t covers every raw event accepted before any clock can have read t, although it may
\* reach the table long after (runners pass the Date they were called with to every
\* statement).  The agent's staleness gate compares that Date with a minimum.
FreshnessIsHonest ==
  ClocksFirst =>
    \A s \in Scopes : FromEvents(s) /\ checkpoint[s].committedAt >= Drift =>
      checkpoint[s].watermark >= acceptedBy[checkpoint[s].committedAt - Drift]

\* Between two attempts of a job lies the backoff the policy asks for, by the time each of them
\* is recorded under, whoever claims the second one, with whatever clock, and however long ago
\* it was called: a process whose Date is older than the failure cannot take the job early.
BackoffIsHonoured ==
  \A j \in Jobs : \A n \in 1..(Len(attempt[j]) - 1) :
    attempt[j][n + 1].startedAt >= attempt[j][n].startedAt + RetryDelay[n]

\* "A checkpoint is a durable promise about processed input": what a committed watermark
\* covers is in the output store, of every scope that is fed by the raw events.
CheckpointBackedByStore ==
  \A s \in Scopes : FromEvents(s) => store[s] >= checkpoint[s].watermark

\* The committed watermark of a scope fed by the raw events never moves backwards.
WatermarkNeverRegresses ==
  [][\A s \in Scopes : FromEvents(s) =>
       checkpoint'[s].watermark >= checkpoint[s].watermark]_vars

\* A job that succeeded or was dead-lettered is never touched again - not reclaimed, not
\* retried, not dead-lettered after its success - once no run holds it: only a run that never
\* learned that its complete was committed may still record a failure over it.
TerminalIsFinal ==
  [][\A j \in Jobs :
       /\ job[j].status \in {"succeeded", "dead_lettered"}
       /\ ~\E r \in Runners : Works(r) /\ runner[r].job = j
       => job'[j] = job[j] /\ attempt'[j] = attempt[j]]_vars

\* Every claimed job settles: it succeeds, is scheduled for a retry or is dead-lettered.
ClaimedJobSettles ==
  \A j \in Jobs : job[j].status = "running" ~>
    job[j].status \in {"succeeded", "retry_scheduled", "dead_lettered"}
===============================================================================
