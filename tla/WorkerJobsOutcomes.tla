-------------------------- MODULE WorkerJobsOutcomes --------------------------
(***************************************************************************)
(* How fresh the checkpoints of the runs are, that the tables agree, what  *)
(* runs report, that a settled job stays settled, that tables and runners  *)
(* implement JobLifecycle, and what a sole runner adds: theorems about     *)
(* WorkerJobs on top of its inductive invariant.  Every step is first      *)
(* reduced to its shape (RunStep, TablesStep, CommitShape): which run      *)
(* moves, and which of five statements, if any, was committed.             *)
(***************************************************************************)
EXTENDS WorkerJobsRefinement, WorkerJobsProofs

\* A step of the run r once it was called.
StepOf(r) == Continue(r) \/ GoWrong(r)

\* A run that holds a job and whose statement on it was committed.
Commits(r) ==
  \/ runner[r].step = "lock" /\ ClaimRow(runner[r].job, r)
  \/ Works(r) /\ runner[r].step # "catch" /\ CheckpointOfRun(r)
  \/ Works(r) /\ runner[r].step # "catch" /\ CompleteOfRun(r)
  \/ Works(r) /\ runner[r].step = "catch" /\ RetryOfRun(r)
  \/ Works(r) /\ runner[r].step = "catch" /\ DeadLetterOfRun(r)

-------------------------------------------------------------------------------
(* The shape of a step.                                                    *)

\* A run commits one of its statements, or the tables stay as they are.
LEMMA TablesStep ==
  ASSUME NEW r \in Runners, StepOf(r)
  PROVE  UNCHANGED tables \/ Commits(r)
<1>1. CASE SelectJob(r) \/ ClaimNothing(r) \/ WriteOutput(r) \/ FailureUnrecorded(r)
           \/ ClaimFails(r) \/ BuildOrWriteFails(r) \/ StatementFails(r) \/ Crash(r)
  BY <1>1 DEF SelectJob, ClaimNothing, WriteOutput, FailureUnrecorded, ClaimFails,
              BuildOrWriteFails, StatementFails, Crash
<1>2. CASE Claim(r) \/ ClaimAckLost(r)
  BY <1>2 DEF Claim, ClaimAckLost, Commits
<1>3. CASE Checkpoint(r) \/ CompleteCheckpoint(r) \/ Complete(r) \/ AckLost(r)
  BY <1>3 DEF Checkpoint, CompleteCheckpoint, Complete, AckLost, Commits, Works, Working
<1>4. CASE Retry(r) \/ DeadLetter(r) \/ FailureAckLost(r)
  BY <1>4 DEF Retry, DeadLetter, FailureAckLost, Commits, Works, Working
<1>5. QED
  BY <1>1, <1>2, <1>3, <1>4 DEF StepOf, Continue, GoWrong

\* The other runs stay where they are; the run ends, or goes on with what it read when it was
\* invoked and with the job it holds.
RunGoesOn(r) ==
  /\ runner[r].step # "returned"
  /\ runner'[r].now = runner[r].now /\ runner'[r].seen = runner[r].seen
  /\ runner'[r].kind = runner[r].kind /\ runner'[r].result = runner[r].result
  /\ IF runner[r].step = "claim" THEN runner'[r].step = "lock"
     ELSE Holds(r) /\ runner'[r].job = runner[r].job /\ Works(r)'

LEMMA RunStep ==
  ASSUME IInv, NEW r \in Runners, StepOf(r)
  PROVE  /\ UNCHANGED environment
         /\ \A q \in Runners \ {r} : runner'[q] = runner[q]
         /\ runner'[r].step = "returned" \/ RunGoesOn(r)
<1>1. runner \in [Runners -> RunnerState] /\ runner[r] \in RunnerState
  BY DEF IInv, TypeOK
<1>2. UNCHANGED environment
  BY DEF StepOf, Continue, GoWrong, SelectJob, ClaimNothing, WriteOutput, FailureUnrecorded,
         ClaimFails, BuildOrWriteFails, StatementFails, Crash, Claim, ClaimAckLost, Checkpoint,
         CompleteCheckpoint, Complete, AckLost, Retry, DeadLetter, FailureAckLost
<1>3. ASSUME Throw(r) \/ \E result \in RunStatus : Return(r, result)
      PROVE  runner'[r].step = "returned" /\ \A q \in Runners \ {r} : runner'[q] = runner[q]
  BY <1>3, ReturnMoves, ThrowMoves DEF OnlyMoves
<1>4. ASSUME NEW step \in Working, Goto(r, step), Works(r)
      PROVE  RunGoesOn(r) /\ \A q \in Runners \ {r} : runner'[q] = runner[q]
  BY <1>1, <1>4 DEF Goto, RunGoesOn, Holds, Works, Working, RunnerState
<1>5. ASSUME NEW retryable \in BOOLEAN, Catch(r, retryable), Works(r)
      PROVE  RunGoesOn(r) /\ \A q \in Runners \ {r} : runner'[q] = runner[q]
  BY <1>1, <1>5 DEF Catch, RunGoesOn, Holds, Works, Working, RunnerState
<1>6. CASE SelectJob(r)
  BY <1>1, <1>2, <1>6 DEF SelectJob, RunGoesOn, RunnerState
<1>7. CASE Claim(r)
  BY <1>1, <1>2, <1>7 DEF Claim, RunGoesOn, Holds, Works, Working, RunnerState
<1>8. CASE ClaimNothing(r) \/ ClaimFails(r) \/ ClaimAckLost(r) \/ FailureUnrecorded(r)
           \/ Crash(r) \/ Complete(r) \/ Retry(r) \/ DeadLetter(r) \/ FailureAckLost(r)
  BY <1>2, <1>3, <1>8 DEF ClaimNothing, ClaimFails, ClaimAckLost, FailureUnrecorded, Crash,
                          Complete, Retry, DeadLetter, FailureAckLost, RunStatus
<1>9. CASE WriteOutput(r) \/ Checkpoint(r) \/ CompleteCheckpoint(r)
  BY <1>2, <1>4, <1>9 DEF WriteOutput, Checkpoint, CompleteCheckpoint, Works, Working
<1>10. CASE BuildOrWriteFails(r) \/ StatementFails(r) \/ AckLost(r)
  <2>1. Works(r)
    BY <1>10 DEF BuildOrWriteFails, StatementFails, AckLost, Works, Working
  <2>2. PICK retryable \in BOOLEAN : Catch(r, retryable)
    BY <1>10 DEF BuildOrWriteFails, StatementFails, AckLost
  <2>3. QED
    BY <1>2, <1>5, <2>1, <2>2
<1>11. QED
  BY <1>6, <1>7, <1>8, <1>9, <1>10 DEF StepOf, Continue, GoWrong

\* Of the attempts of job j only the a-th is rewritten.
AttemptBecomes(j, a, row) ==
  /\ Len(attempt'[j]) = Len(attempt[j])
  /\ \A n \in 1..Len(attempt[j]) : attempt'[j][n] = IF n = a THEN row ELSE attempt[j][n]

LEMMA AttemptRewritten ==
  ASSUME IInv, NEW j \in Jobs, NEW a \in 1..Len(attempt[j]), NEW row \in AttemptRow,
         attempt' = [attempt EXCEPT ![j][a] = row]
  PROVE  AttemptBecomes(j, a, row) /\ \A k \in Jobs \ {j} : attempt'[k] = attempt[k]
<1>1. attempt \in [Jobs -> Seq(AttemptRow)] /\ attempt[j] \in Seq(AttemptRow)
  BY DEF IInv, TypeOK
<1>2. attempt'[j] = [attempt[j] EXCEPT ![a] = row]
  BY <1>1
<1>3. /\ Len(attempt'[j]) = Len(attempt[j])
      /\ \A n \in 1..Len(attempt[j]) : attempt'[j][n] = IF n = a THEN row ELSE attempt[j][n]
  BY <1>1, <1>2, ExceptSeq
<1>4. QED
  BY <1>1, <1>3 DEF AttemptBecomes

\* The five statements, as a reader of the rows sees them: the attempt of the run is opened,
\* or rewritten with the run's watermark, or closed with the watermark it has.
Opens(r) ==
  LET j == runner[r].job IN
  /\ runner[r].step = "lock" /\ job[j].status \in {"queued", "retry_scheduled"}
  /\ job'[j].status = "running" /\ job'[j].attemptCount = job[j].attemptCount + 1
  /\ attempt'[j] = Append(attempt[j], [status |-> "started", watermark |-> NoWatermark,
                                                startedAt |-> runner[r].now])
  /\ checkpoint' = checkpoint

Checkpoints(r) ==
  LET j == runner[r].job
      a == runner[r].attempt IN
  /\ Works(r) /\ runner[r].step # "catch" /\ job' = job /\ job[j].status = "running"
  /\ AttemptBecomes(j, a, WrittenRow(attempt[j][a], "checkpointed", runner[r].seen))
  /\ checkpoint' = [checkpoint EXCEPT ![ScopeOf[j]] =
       [watermark |-> runner[r].seen, jobId |-> j, attemptId |-> a,
        committedAt |-> runner[r].now]]

Succeeds(r) ==
  LET j == runner[r].job
      a == runner[r].attempt IN
  /\ Works(r) /\ runner[r].step # "catch"
  /\ job'[j].status = "succeeded" /\ job'[j].attemptCount = job[j].attemptCount
  /\ AttemptBecomes(j, a, WrittenRow(attempt[j][a], "succeeded", runner[r].seen))
  /\ checkpoint' = checkpoint

ClosesAs(r, status) ==
  LET j == runner[r].job
      a == runner[r].attempt IN
  /\ AttemptBecomes(j, a, WrittenRow(attempt[j][a], status, attempt[j][a].watermark))
  /\ job'[j].attemptCount = job[j].attemptCount
  /\ checkpoint' = checkpoint

Reschedules(r) ==
  LET j == runner[r].job IN
  /\ Works(r) /\ runner[r].step = "catch" /\ ShouldRetry(r) /\ RetryAllowed(j)
  /\ ClosesAs(r, "retryable_failed")
  /\ job'[j].status = "retry_scheduled"
  /\ job'[j].nextRunAt = runner[r].now + RetryDelay[runner[r].attempt]

Buries(r) ==
  /\ Works(r) /\ runner[r].step = "catch" /\ ~ShouldRetry(r)
  /\ ClosesAs(r, "dead_lettered")
  /\ job'[runner[r].job].status = "dead_lettered"

\* A commit is one of the five, on the job its run holds, and leaves every other job alone.
LEMMA CommitShape ==
  ASSUME IInv, NEW r \in Runners, Commits(r)
  PROVE  /\ runner[r].job \in Jobs /\ Holds(r)
         /\ \A k \in Jobs \ {runner[r].job} : job'[k] = job[k] /\ attempt'[k] = attempt[k]
         /\ Opens(r) \/ Checkpoints(r) \/ Succeeds(r) \/ Reschedules(r) \/ Buries(r)
<1> DEFINE j == runner[r].job
           a == runner[r].attempt
<1>1. /\ j \in Jobs /\ Holds(r) /\ job \in [Jobs -> JobRow]
      /\ attempt \in [Jobs -> Seq(AttemptRow)] /\ job[j] \in JobRow
      /\ runner[r].now \in Int
  <2>1. Holds(r)
    BY DEF Commits, Holds
  <2>2. j \in Jobs
    BY <2>1 DEF IInv, RunOk, Holds
  <2>3. QED
    BY <2>1, <2>2, RunnerTypes DEF IInv, TypeOK
<1>2. CASE runner[r].step = "lock" /\ ClaimRow(j, r)
  <2>1. job[j].status \in {"queued", "retry_scheduled"}
    BY <1>2 DEF IInv, RunOk
  <2>2. /\ \A k \in Jobs \ {j} : job'[k] = job[k]
        /\ job'[j].status = "running" /\ job'[j].attemptCount = job[j].attemptCount + 1
    BY <1>1, <1>2, ClaimEffect
  <2>3. QED
    BY <1>1, <1>2, <2>1, <2>2 DEF ClaimRow, Opens
<1>3. ASSUME Works(r)
      PROVE  /\ a \in 1..Len(attempt[j]) /\ attempt[j][a] \in AttemptRow
             /\ runner[r].seen \in Nat /\ a \in 1..MaxAttempts[j]
  BY <1>3, WorkingRow, WorkingTypes
<1>4. ASSUME Works(r), NEW row \in AttemptRow, attempt' = [attempt EXCEPT ![j][a] = row]
      PROVE  AttemptBecomes(j, a, row) /\ \A k \in Jobs \ {j} : attempt'[k] = attempt[k]
  <2> HIDE DEF j, a
  <2>1. QED
    BY <1>1, <1>3, <1>4, AttemptRewritten
<1>5. CASE Works(r) /\ runner[r].step # "catch" /\ CheckpointOfRun(r)
  <2> DEFINE row == WrittenRow(attempt[j][a], "checkpointed", runner[r].seen)
  <2>0. /\ row \in AttemptRow
        /\ row = [attempt[j][a] EXCEPT !.status = "checkpointed", !.watermark = runner[r].seen]
    <3>1. "checkpointed" \in AttemptStatus /\ attempt[j][a] \in AttemptRow /\ runner[r].seen \in Int
      BY <1>3, <1>5 DEF AttemptStatus
    <3> HIDE DEF j, a
    <3>2. QED
      BY <3>1, AttemptRowWritten
  <2>1. row \in AttemptRow /\ job[j].status = "running"
    BY <1>5, <2>0, WorkingRow
  <2>2. attempt' = [attempt EXCEPT ![j][a] = row]
    <3> HIDE DEF row
    <3>1. QED
      BY <1>5, <2>0 DEF CheckpointOfRun, CommitCheckpoint
  <2>3. AttemptBecomes(j, a, row) /\ \A k \in Jobs \ {j} : attempt'[k] = attempt[k]
    <3> HIDE DEF row, j, a
    <3>1. QED
      BY <1>4, <1>5, <2>1, <2>2
  <2>4. QED
    BY <1>1, <1>5, <2>1, <2>3 DEF CheckpointOfRun, CommitCheckpoint, Checkpoints
<1>6. CASE Works(r) /\ runner[r].step # "catch" /\ CompleteOfRun(r)
  <2> DEFINE row == WrittenRow(attempt[j][a], "succeeded", runner[r].seen)
  <2>0. /\ row \in AttemptRow
        /\ row = [attempt[j][a] EXCEPT !.status = "succeeded", !.watermark = runner[r].seen]
    <3>1. "succeeded" \in AttemptStatus /\ attempt[j][a] \in AttemptRow /\ runner[r].seen \in Int
      BY <1>3, <1>6 DEF AttemptStatus
    <3> HIDE DEF j, a
    <3>2. QED
      BY <3>1, AttemptRowWritten
  <2>1. row \in AttemptRow
    BY <2>0
  <2>2. attempt' = [attempt EXCEPT ![j][a] = row] /\ checkpoint' = checkpoint
    <3> HIDE DEF row
    <3>1. QED
      BY <1>6, <2>0 DEF CompleteOfRun, CommitComplete
  <2>3. AttemptBecomes(j, a, row) /\ \A k \in Jobs \ {j} : attempt'[k] = attempt[k]
    <3> HIDE DEF row, j, a
    <3>1. QED
      BY <1>4, <1>6, <2>1, <2>2
  <2>4. QED
    BY <1>1, <1>6, <2>2, <2>3, CompleteEffect DEF Succeeds
<1>7. ASSUME NEW status \in AttemptStatus, Works(r), checkpoint' = checkpoint,
             attempt' = [attempt EXCEPT ![j][a].status = status],
             job'[j].attemptCount = job[j].attemptCount
      PROVE  ClosesAs(r, status) /\ \A k \in Jobs \ {j} : attempt'[k] = attempt[k]
  <2> DEFINE row == WrittenRow(attempt[j][a], status, attempt[j][a].watermark)
  <2>1. row \in AttemptRow /\ [attempt[j][a] EXCEPT !.status = status] = row
    <3>1. ASSUME NEW new, new = [attempt[j][a] EXCEPT !.status = status] PROVE new = row
      BY <1>3, <1>7, <3>1 DEF WrittenRow, AttemptRow
    <3>2. row \in AttemptRow
      BY <1>3, <1>7 DEF WrittenRow, AttemptRow
    <3>3. QED
      BY <3>1, <3>2
  <2>2. attempt' = [attempt EXCEPT ![j][a] = row]
    BY <1>7, <2>1
  <2>3. AttemptBecomes(j, a, row) /\ \A k \in Jobs \ {j} : attempt'[k] = attempt[k]
    <3> HIDE DEF row, j, a
    <3>1. QED
      BY <1>4, <1>7, <2>1, <2>2
  <2>4. QED
    BY <1>7, <2>3 DEF ClosesAs
<1>8. CASE Works(r) /\ runner[r].step = "catch" /\ RetryOfRun(r)
  <2>2. /\ job'[j].status = "retry_scheduled"
        /\ job'[j].nextRunAt = runner[r].now + RetryDelay[a]
        /\ job'[j].attemptCount = job[j].attemptCount
        /\ \A k \in Jobs \ {j} : job'[k] = job[k]
    BY <1>1, <1>8 DEF RetryOfRun, CommitRetry, JobRow
  <2>4. ClosesAs(r, "retryable_failed") /\ \A k \in Jobs \ {j} : attempt'[k] = attempt[k]
    BY <1>7, <1>8, <2>2 DEF RetryOfRun, CommitRetry, AttemptStatus
  <2>5. QED
    BY <1>1, <1>8, <2>2, <2>4 DEF RetryOfRun, Reschedules
<1>9. CASE Works(r) /\ runner[r].step = "catch" /\ DeadLetterOfRun(r)
  <2>1. /\ job'[j].status = "dead_lettered" /\ job'[j].attemptCount = job[j].attemptCount
        /\ \A k \in Jobs \ {j} : job'[k] = job[k]
    BY <1>1, <1>9 DEF DeadLetterOfRun, CommitDeadLetter, JobRow
  <2>2. ClosesAs(r, "dead_lettered") /\ \A k \in Jobs \ {j} : attempt'[k] = attempt[k]
    BY <1>7, <1>9, <2>1 DEF DeadLetterOfRun, CommitDeadLetter, AttemptStatus
  <2>3. QED
    BY <1>1, <1>9, <2>1, <2>2 DEF DeadLetterOfRun, Buries
<1>10. QED
  BY <1>2, <1>5, <1>6, <1>8, <1>9 DEF Commits

-------------------------------------------------------------------------------
(* Fresh input.  A process that took its clock before its input has read   *)
(* all that was accepted before its clock can have shown that time; the    *)
(* promise stays true of its run, and of the checkpoint the run commits.   *)

\* Input w covers every event accepted before any clock read t.
Promises(t, w) == t >= Drift => acceptedBy[t - Drift] <= w

HistoryOk == \A t \in 0..now : acceptedBy[t] <= events

\* A reading no clock can show before its time.
Readable(t) == t <= MaxTime /\ t <= now + Drift

\* How far the process r has got with its inputs.
Reads(r) == runner[r].step \notin Preparing \cup {"returned"}

RunIsFresh(r) ==
  /\ runner[r].step # "returned" => runner[r].seen <= events /\ Readable(runner[r].now)
  /\ ClocksFirst => runner[r].step # "timing"
  /\ ClocksFirst /\ Reads(r) /\ runner[r].kind \notin Derived =>
       Promises(runner[r].now, runner[r].seen)
  /\ Holds(r) => KindOf[ScopeOf[runner[r].job]] = runner[r].kind

CheckpointIsFresh(s) ==
  /\ Readable(checkpoint[s].committedAt)
  /\ ClocksFirst /\ FromEvents(s) =>
       Promises(checkpoint[s].committedAt, checkpoint[s].watermark)

FreshInv ==
  /\ HistoryOk
  /\ \A s \in Scopes : CheckpointIsFresh(s)
  /\ \A r \in Runners : RunIsFresh(r)

\* The types the arithmetic of the clock and of the watermarks needs.
LEMMA FreshTypes ==
  ASSUME IInv
  PROVE  /\ events \in Nat /\ now \in Nat /\ now <= MaxTime /\ MaxTime \in Nat /\ Drift \in Nat
         /\ \A t \in 0..MaxTime : acceptedBy[t] \in Nat
         /\ \A r \in Runners : runner[r].seen \in Nat /\ runner[r].now \in Int
         /\ \A s \in Scopes : checkpoint[s].watermark \in Int /\ checkpoint[s].committedAt \in Int
         /\ \A j \in Jobs : job[j].nextRunAt \in Int /\ Len(attempt[j]) \in Nat
<1>1. ASSUME NEW j \in Jobs
      PROVE  job[j].nextRunAt \in Int /\ Len(attempt[j]) \in Nat
  <2>1. job[j] \in JobRow /\ attempt[j] \in Seq(AttemptRow)
    BY DEF IInv, TypeOK
  <2>2. QED
    BY <2>1 DEF JobRow
<1>2. QED
  BY <1>1, ConstantsAssumption DEF IInv, TypeOK, RunnerState, CheckpointRow

LEMMA InitFresh == Init => FreshInv
<1> SUFFICES ASSUME Init PROVE FreshInv
  OBVIOUS
<1>1. HistoryOk
  BY ConstantsAssumption DEF Init, HistoryOk
<1>2. \A s \in Scopes : CheckpointIsFresh(s)
  BY ConstantsAssumption DEF Init, CheckpointIsFresh, Readable, Promises, NoCheckpoint, NoTime
<1>3. \A r \in Runners : RunIsFresh(r)
  BY DEF Init, AtRest, RunIsFresh, Reads, Holds, Works, Working
<1>4. QED
  BY <1>1, <1>2, <1>3 DEF FreshInv

\* A promise about a time some clock can show is about the past: nothing adds to it.
LEMMA PromiseKept ==
  ASSUME IInv, AcceptRawEvent \/ Tick, NEW t \in Int, NEW w \in Int, Readable(t)
  PROVE  Readable(t)' /\ (Promises(t, w) => Promises(t, w)')
<1>1. /\ now \in Nat /\ now <= MaxTime /\ MaxTime \in Nat /\ Drift \in Nat
      /\ acceptedBy \in [0..MaxTime -> Nat]
  BY FreshTypes DEF IInv, TypeOK
<1>2. now' \in {now, now + 1} /\ \A u \in 0..now : acceptedBy'[u] = acceptedBy[u]
  BY <1>1 DEF AcceptRawEvent, Tick
<1>3. t >= Drift => t - Drift \in 0..now
  BY <1>1 DEF Readable
<1>4. t >= Drift => acceptedBy'[t - Drift] = acceptedBy[t - Drift]
  BY <1>2, <1>3
<1>5. Readable(t)'
  <2>1. t <= MaxTime /\ t <= now + Drift /\ now' \in {now, now + 1}
    BY <1>2 DEF Readable
  <2>2. PICK d \in {0, 1} : now' = now + d
    BY <1>1, <2>1
  <2>3. t <= now' + Drift
    <3>1. t <= now + Drift /\ now + Drift <= now + d + Drift
      BY <1>1, <2>1, <2>2
    <3>2. QED
      BY <1>1, <2>2, <3>1
  <2>4. QED
    BY <2>1, <2>3 DEF Readable
<1>6. QED
  BY <1>4, <1>5 DEF Promises

\* Events arriving and time passing.
LEMMA FreshInput ==
  ASSUME IInv, FreshInv, AcceptRawEvent \/ Tick
  PROVE  FreshInv'
<1>1. /\ events \in Nat /\ now \in Nat /\ now <= MaxTime /\ MaxTime \in Nat
      /\ acceptedBy \in [0..MaxTime -> Nat]
  BY FreshTypes DEF IInv, TypeOK
<1>2. /\ UNCHANGED <<checkpoint, runner>> /\ events' \in Nat /\ events <= events'
      /\ \A t \in 0..now : acceptedBy'[t] = acceptedBy[t]
      /\ now' = now \/ (now' = now + 1 /\ events' = events /\ acceptedBy'[now'] = events)
  BY <1>1 DEF AcceptRawEvent, Tick, tables
<1>3. HistoryOk'
  BY <1>1, <1>2 DEF FreshInv, HistoryOk
<1>4. ASSUME NEW s \in Scopes PROVE CheckpointIsFresh(s)'
  <2>1. /\ checkpoint[s].watermark \in Int /\ checkpoint[s].committedAt \in Int
        /\ CheckpointIsFresh(s)
    BY FreshTypes DEF FreshInv
  <2>2. Readable(checkpoint[s].committedAt)
    BY <2>1 DEF CheckpointIsFresh
  <2>3. /\ Readable(checkpoint[s].committedAt)'
        /\ Promises(checkpoint[s].committedAt, checkpoint[s].watermark) =>
             Promises(checkpoint[s].committedAt, checkpoint[s].watermark)'
    <3> DEFINE t == checkpoint[s].committedAt
               w == checkpoint[s].watermark
    <3>1. t \in Int /\ w \in Int /\ Readable(t) /\ t' = t /\ w' = w
      BY <1>2, <2>1, <2>2
    <3>2. Readable(t)' /\ (Promises(t, w) => Promises(t, w)')
      <4>1. ASSUME NEW tt \in Int, NEW ww \in Int, tt = t, ww = w
            PROVE  Readable(t)' /\ (Promises(t, w) => Promises(t, w)')
        <5>1. Readable(tt)' /\ (Promises(tt, ww) => Promises(tt, ww)')
          BY <3>1, <4>1, PromiseKept
        <5>2. QED
          BY <3>1, <4>1, <5>1 DEF Readable, Promises
      <4>2. QED
        BY <3>1, <4>1
    <3>3. QED
      BY <3>2
  <2>4. QED
    BY <2>1, <2>3 DEF CheckpointIsFresh, FromEvents, ClocksFirst
<1>5. ASSUME NEW r \in Runners PROVE RunIsFresh(r)'
  <2>1. /\ runner[r].seen \in Int /\ runner[r].now \in Int /\ RunIsFresh(r)
        /\ runner'[r] = runner[r]
    BY <1>2, FreshTypes DEF FreshInv
  <2>2. CASE runner[r].step = "returned"
    BY <2>1, <2>2 DEF RunIsFresh, Reads, Holds, Works, Working
  <2>3. CASE runner[r].step # "returned"
    <3>1. PICK t \in Int, w \in Int : t = runner[r].now /\ w = runner[r].seen
      BY <2>1
    <3>2. Readable(t) /\ w <= events
      BY <2>1, <2>3, <3>1 DEF RunIsFresh
    <3>3. Readable(t)' /\ (Promises(t, w) => Promises(t, w)')
      BY <3>2, PromiseKept
    <3>4. Readable(runner[r].now)' /\ (Promises(runner[r].now, runner[r].seen) =>
                                          Promises(runner[r].now, runner[r].seen)')
      BY <2>1, <3>1, <3>3 DEF Readable, Promises
    <3>5. runner'[r].seen <= events'
      BY <1>1, <1>2, <2>1, <3>1, <3>2
    <3>6. QED
      BY <2>1, <3>4, <3>5 DEF RunIsFresh, Reads, Holds, Works, ClocksFirst
  <2>4. QED
    BY <2>2, <2>3
<1>6. QED
  BY <1>3, <1>4, <1>5 DEF FreshInv

\* A run that is left alone, and a checkpoint, stay fresh while the environment does.
LEMMA FreshKept ==
  ASSUME FreshInv, UNCHANGED environment
  PROVE  /\ HistoryOk'
         /\ \A s \in Scopes : checkpoint'[s] = checkpoint[s] => CheckpointIsFresh(s)'
         /\ \A r \in Runners : runner'[r] = runner[r] => RunIsFresh(r)'
  BY DEF FreshInv, HistoryOk, CheckpointIsFresh, RunIsFresh, Readable, Promises, Reads, Holds,
         Works, environment

\* Input read after the clock keeps the clock's promise.
LEMMA InputIsFresh ==
  ASSUME IInv, FreshInv, NEW t \in Int, Readable(t), NEW w \in Int, w = events
  PROVE  Promises(t, w)
<1>1. t >= Drift => t - Drift \in 0..now
  BY FreshTypes DEF Readable
<1>2. QED
  BY <1>1 DEF FreshInv, HistoryOk, Promises

\* A process that takes its inputs.
LEMMA FreshCalls ==
  ASSUME IInv, FreshInv, NEW r \in Runners, Prepare(r)
  PROVE  FreshInv'
<1>1. /\ UNCHANGED environment /\ checkpoint' = checkpoint
      /\ \A q \in Runners \ {r} : runner'[q] = runner[q]
      /\ runner'[r] \in RunnerState
      /\ runner'[r].step \in Preparing \cup {"claim"}
  BY PrepareMoves DEF tables, OnlyMoves
<1>2. /\ runner'[r].kind \in Kinds /\ runner'[r].now \in Int /\ runner'[r].seen \in Nat
      /\ runner'[r].step # "returned" /\ ~Holds(r)'
  BY <1>1 DEF RunnerState, Preparing, Holds, Works, Working
<1>3. /\ now \in Nat /\ MaxTime \in Nat /\ now <= MaxTime /\ Drift \in Nat /\ events \in Nat
      /\ \A t \in ClockReadings : Readable(t)
      /\ \A seen \in Inputs(runner'[r].kind) :
           seen <= events /\ (runner'[r].kind \notin Derived => seen = events)
  BY <1>2, FreshTypes, InputTypes DEF ClockReadings, Readable
<1>4. RunIsFresh(r)
  BY DEF FreshInv
<1>5. runner'[r].seen <= events /\ Readable(runner'[r].now)
  <2>1. CASE runner'[r].step = "reading"
    BY <1>3, <2>1, PrepareMoves
  <2>2. CASE runner'[r].step = "timing"
    <3>1. runner'[r].seen <= events
      BY <1>3, <2>2, PrepareMoves
    <3>2. Readable(runner'[r].now)
      BY <1>3, <2>2, PrepareMoves DEF Readable, NoTime
    <3>3. QED
      BY <3>1, <3>2
  <2>3. CASE runner'[r].step = "claim"
    BY <1>3, <1>4, <2>3, PrepareMoves DEF RunIsFresh
  <2>4. QED
    BY <1>1, <2>1, <2>2, <2>3 DEF Preparing
<1>6. ClocksFirst => runner'[r].step # "timing"
  BY PrepareMoves DEF ClocksFirst
<1>7. ASSUME ClocksFirst, runner'[r].step = "claim", runner'[r].kind \notin Derived
      PROVE  Promises(runner'[r].now, runner'[r].seen)
  <2>1. runner'[r].seen = events
    BY <1>3, <1>4, <1>7, PrepareMoves DEF RunIsFresh
  <2>2. PICK t \in Int, w \in Int : t = runner'[r].now /\ w = runner'[r].seen
    BY <1>2
  <2>3. Promises(t, w)
    BY <1>5, <2>1, <2>2, InputIsFresh
  <2>4. QED
    BY <2>2, <2>3
<1>8. RunIsFresh(r)'
  <2>1. Readable(runner[r].now)' /\ runner'[r].seen <= events'
    BY <1>1, <1>5 DEF Readable, environment
  <2>2. ASSUME ClocksFirst, Reads(r)', runner'[r].kind \notin Derived
        PROVE  Promises(runner[r].now, runner[r].seen)'
    <3>1. Promises(runner'[r].now, runner'[r].seen)
      BY <1>1, <1>7, <2>2 DEF Reads
    <3>2. QED
      BY <1>1, <3>1 DEF Promises, environment
  <2>3. QED
    BY <1>2, <1>6, <2>1, <2>2 DEF RunIsFresh, ClocksFirst
<1>9. QED
  BY <1>1, <1>8, FreshKept DEF FreshInv

\* A run that locks a row found it claimable by its own clock.
LEMMA LockedIsClaimable ==
  ASSUME IInv, NEW r \in Runners, StepOf(r),
         runner[r].step = "claim", runner'[r].step # "returned"
  PROVE  runner'[r].job \in Jobs /\ Claimable(runner'[r].job, r) /\ UNCHANGED tables
<1>1. SelectJob(r)
  <2>1. ~(ClaimNothing(r) \/ ClaimFails(r) \/ Crash(r))
    BY ReturnMoves, ThrowMoves DEF ClaimNothing, ClaimFails, Crash, RunStatus
  <2>2. QED
    BY <2>1
    DEF StepOf, Continue, GoWrong, Claim, WriteOutput, Checkpoint, CompleteCheckpoint, Complete,
        Retry, DeadLetter, FailureUnrecorded, ClaimAckLost, BuildOrWriteFails, StatementFails,
        AckLost, FailureAckLost
<1>2. PICK j \in Candidates(r) : runner' = [runner EXCEPT ![r].step = "lock", ![r].job = j]
  BY <1>1 DEF SelectJob
<1>3. runner'[r].job = j
  BY <1>2 DEF IInv, TypeOK, RunnerState
<1>4. QED
  BY <1>1, <1>2, <1>3 DEF SelectJob, Candidates

\* A step of a run keeps its promise, and puts it into the checkpoint it commits.
LEMMA FreshStep ==
  ASSUME IInv, FreshInv, NEW r \in Runners, StepOf(r)
  PROVE  FreshInv'
<1>1. /\ UNCHANGED environment
      /\ \A q \in Runners \ {r} : runner'[q] = runner[q]
      /\ runner'[r].step = "returned" \/ RunGoesOn(r)
  BY RunStep
<1>2. RunIsFresh(r) /\ checkpoint \in [Scopes -> CheckpointRow]
  BY DEF FreshInv, IInv, TypeOK
<1>3. RunIsFresh(r)'
  <2>1. CASE runner'[r].step = "returned"
    BY <2>1 DEF RunIsFresh, Reads, Holds, Works, Working
  <2>2. CASE runner'[r].step # "returned"
    <3>1. /\ RunGoesOn(r) /\ Reads(r) /\ runner[r].step # "returned"
          /\ runner'[r].step # "timing"
      BY <1>1, <2>2 DEF RunGoesOn, Reads, Preparing, Holds, Works, Working
    <3>2. Holds(r)' => KindOf[ScopeOf[runner'[r].job]] = runner'[r].kind
      <4>1. CASE runner[r].step = "claim"
        BY <2>2, <3>1, <4>1, LockedIsClaimable DEF Claimable, RunGoesOn
      <4>2. CASE runner[r].step # "claim"
        BY <1>2, <3>1, <4>2 DEF RunIsFresh, RunGoesOn
      <4>3. QED
        BY <4>1, <4>2
    <3>3. QED
      BY <1>1, <1>2, <3>1, <3>2
      DEF RunIsFresh, RunGoesOn, Readable, Promises, environment, ClocksFirst
  <2>3. QED
    BY <2>1, <2>2
<1>4. ASSUME NEW s \in Scopes PROVE CheckpointIsFresh(s)'
  <2>1. CASE checkpoint'[s] = checkpoint[s]
    BY <1>1, <2>1, FreshKept
  <2>2. CASE checkpoint'[s] # checkpoint[s]
    <3>1. Checkpoints(r)
      BY <2>2, TablesStep, CommitShape
      DEF Opens, Succeeds, Reschedules, Buries, ClosesAs, tables
    <3>2. /\ s = ScopeOf[runner[r].job]
          /\ checkpoint'[s].watermark = runner[r].seen
          /\ checkpoint'[s].committedAt = runner[r].now
      BY <1>2, <2>2, <3>1 DEF Checkpoints
    <3>3. Holds(r) /\ Reads(r) /\ runner[r].step # "returned"
      BY <3>1 DEF Checkpoints, Holds, Works, Working, Reads, Preparing
    <3>4. /\ Readable(runner[r].now) /\ KindOf[s] = runner[r].kind
          /\ ClocksFirst /\ runner[r].kind \notin Derived =>
               Promises(runner[r].now, runner[r].seen)
      BY <1>2, <3>2, <3>3 DEF RunIsFresh
    <3>5. QED
      BY <1>1, <3>2, <3>4
      DEF CheckpointIsFresh, FromEvents, Readable, Promises, environment, ClocksFirst
  <2>3. QED
    BY <2>1, <2>2
<1>5. QED
  BY <1>1, <1>3, <1>4, FreshKept DEF FreshInv

LEMMA FreshNext == IInv /\ FreshInv /\ [Next]_vars => FreshInv'
<1> SUFFICES ASSUME IInv, FreshInv, [Next]_vars PROVE FreshInv'
  OBVIOUS
<1>1. CASE UNCHANGED vars \/ \E j \in Jobs : Enqueue(j)
  <2>1. UNCHANGED <<environment, checkpoint, runner>>
    BY <1>1 DEF vars, tables, Enqueue
  <2>2. QED
    BY <2>1, FreshKept DEF FreshInv
<1>2. CASE AcceptRawEvent \/ Tick
  BY <1>2, FreshInput
<1>3. ASSUME NEW r \in Runners, Prepare(r) PROVE FreshInv'
  BY <1>3, FreshCalls
<1>4. ASSUME NEW r \in Runners, StepOf(r) PROVE FreshInv'
  BY <1>4, FreshStep
<1>5. QED
  BY <1>1, <1>2, <1>3, <1>4 DEF Next, StepOf

\* FreshInv holds in every reachable state, next to IInv.
THEOREM FreshHolds == Spec => [](IInv /\ FreshInv)
<1>1. Init => IInv /\ FreshInv
  BY InitInvariant, InitFresh
<1>2. IInv /\ FreshInv /\ [Next]_vars => (IInv /\ FreshInv)'
  BY NextInvariant, FreshNext
<1>3. QED
  BY <1>1, <1>2, PTL DEF Spec

\* When every caller takes its clock before its input, a checkpoint of a scope fed by the raw
\* events that is committed "at" t covers every event accepted before any clock read t, however
\* late its statement reaches the table and however far the clocks are apart.
THEOREM CheckpointsAreFresh == Spec => []FreshnessIsHonest
<1>1. IInv /\ FreshInv => FreshnessIsHonest
  <2> SUFFICES ASSUME IInv, FreshInv, ClocksFirst, NEW s \in Scopes, FromEvents(s),
                      checkpoint[s].committedAt >= Drift
               PROVE  checkpoint[s].watermark >= acceptedBy[checkpoint[s].committedAt - Drift]
    BY DEF FreshnessIsHonest
  <2>1. /\ Readable(checkpoint[s].committedAt)
        /\ acceptedBy[checkpoint[s].committedAt - Drift] <= checkpoint[s].watermark
    BY DEF FreshInv, CheckpointIsFresh, Promises
  <2>2. /\ checkpoint[s].committedAt - Drift \in 0..MaxTime /\ checkpoint[s].watermark \in Int
    BY <2>1, FreshTypes DEF Readable
  <2>3. QED
    BY <2>1, <2>2, FreshTypes
<1>2. QED
  BY <1>1, FreshHolds, PTL

-------------------------------------------------------------------------------
(* The rows' own clock and watermark.  An attempt is recorded under the    *)
(* Date of the run that holds it, a retry is due a backoff after it, and a *)
(* run that locks a row has found it due; what an attempt says it covers   *)
(* is what its run has seen, so the checkpoint it left agrees with it.     *)

OwnRow(r) ==
  Works(r) =>
    LET row == LastAttempt(runner[r].job) IN
    /\ row.startedAt = runner[r].now
    /\ row.status # "started" => row.watermark = runner[r].seen

DueWhenLocked(r) ==
  runner[r].step = "lock" => job[runner[r].job].nextRunAt <= runner[r].now

Waits(j) ==
  job[j].status = "retry_scheduled" =>
    job[j].nextRunAt = LastAttempt(j).startedAt + RetryDelay[Len(attempt[j])]

Spaced(j) ==
  \A n \in 1..(Len(attempt[j]) - 1) :
    attempt[j][n + 1].startedAt >= attempt[j][n].startedAt + RetryDelay[n]

Named(s) ==
  checkpoint[s] # NoCheckpoint =>
    LET j == checkpoint[s].jobId
        a == checkpoint[s].attemptId IN
    /\ j \in Jobs /\ ScopeOf[j] = s /\ a \in 1..Len(attempt[j])
    /\ attempt[j][a].status # "started"
    /\ attempt[j][a].watermark = checkpoint[s].watermark
    /\ attempt[j][a].startedAt = checkpoint[s].committedAt

LedgerInv ==
  /\ \A j \in Jobs : Waits(j) /\ Spaced(j)
  /\ \A s \in Scopes : Named(s)
  /\ \A r \in Runners : OwnRow(r) /\ DueWhenLocked(r)

LEMMA InitLedger == Init => LedgerInv
<1> SUFFICES ASSUME Init PROVE LedgerInv
  OBVIOUS
<1>1. ASSUME NEW j \in Jobs PROVE Waits(j) /\ Spaced(j)
  <2>1. job[j].status = "absent" /\ attempt[j] = <<>> /\ Len(attempt[j]) = 0
    BY DEF Init, AbsentJob
  <2>2. QED
    BY <2>1 DEF Waits, Spaced
<1>2. QED
  BY <1>1 DEF Init, LedgerInv, Named, OwnRow, DueWhenLocked, AtRest, Works, Working

\* Steps that commit nothing: whoever works still works on the same row with the same inputs.
LEMMA LedgerQuiet ==
  ASSUME LedgerInv, UNCHANGED tables,
         \A r \in Runners :
           /\ Works(r)' => /\ Works(r) /\ runner'[r].job = runner[r].job
                           /\ runner'[r].now = runner[r].now /\ runner'[r].seen = runner[r].seen
           /\ runner'[r].step = "lock" =>
                job[runner'[r].job].nextRunAt <= runner'[r].now
  PROVE  LedgerInv'
<1>1. \A j \in Jobs : (Waits(j) /\ Spaced(j))'
  BY DEF LedgerInv, Waits, Spaced, LastAttempt, tables
<1>2. \A s \in Scopes : Named(s)'
  BY DEF LedgerInv, Named, tables
<1>3. ASSUME NEW r \in Runners PROVE (OwnRow(r) /\ DueWhenLocked(r))'
  <2>1. OwnRow(r)
    BY DEF LedgerInv
  <2>2. QED
    BY <2>1 DEF OwnRow, DueWhenLocked, LastAttempt, tables
<1>4. QED
  BY <1>1, <1>2, <1>3 DEF LedgerInv

LEMMA LedgerQuietStep ==
  ASSUME IInv, IInv', LedgerInv, NEW r \in Runners, StepOf(r), UNCHANGED tables
  PROVE  LedgerInv'
<1>1. /\ \A q \in Runners \ {r} : runner'[q] = runner[q]
      /\ runner'[r].step = "returned" \/ RunGoesOn(r)
  BY RunStep
<1>2. ASSUME Works(r)'
      PROVE  /\ Works(r) /\ runner'[r].job = runner[r].job
             /\ runner'[r].now = runner[r].now /\ runner'[r].seen = runner[r].seen
  <2>1. RunGoesOn(r) /\ Holds(r) /\ runner'[r].job = runner[r].job
    BY <1>1, <1>2 DEF RunGoesOn, Works, Working
  <2>2. runner[r].step # "lock"
    BY <1>2, <2>1 DEF IInv, RunOk, tables
  <2>3. QED
    BY <2>1, <2>2 DEF RunGoesOn, Holds
<1>3. ASSUME runner'[r].step = "lock"
      PROVE  job[runner'[r].job].nextRunAt <= runner'[r].now
  <2>1. RunGoesOn(r) /\ runner[r].step = "claim"
    BY <1>1, <1>3 DEF RunGoesOn, Works, Working
  <2>2. QED
    BY <1>3, <2>1, LockedIsClaimable DEF Claimable, RunGoesOn
<1>4. ASSUME NEW q \in Runners \ {r}
      PROVE  /\ Works(q)' => /\ Works(q) /\ runner'[q].job = runner[q].job
                             /\ runner'[q].now = runner[q].now /\ runner'[q].seen = runner[q].seen
             /\ runner'[q].step = "lock" => job[runner'[q].job].nextRunAt <= runner'[q].now
  BY <1>1 DEF LedgerInv, DueWhenLocked, Works
<1>5. QED
  BY <1>2, <1>3, <1>4, LedgerQuiet

\* What a commit does to the attempts of its job: one more is opened, under the run's Date, or
\* the last is rewritten, with the run's watermark or the one it has.
LEMMA AttemptsOfCommit ==
  ASSUME IInv, NEW r \in Runners, Commits(r)
  PROVE  LET j == runner[r].job
             n == Len(attempt[j]) IN
         /\ \A m \in 1..n :
              /\ attempt'[j][m].startedAt = attempt[j][m].startedAt
              /\ attempt'[j][m] # attempt[j][m] =>
                   /\ Works(r) /\ m = n /\ attempt'[j][m].status # "started"
                   /\ attempt'[j][m].watermark \in {attempt[j][m].watermark, runner[r].seen}
         /\ \/ Works(r) /\ Len(attempt'[j]) = n
            \/ /\ Opens(r) /\ Len(attempt'[j]) = n + 1
               /\ attempt'[j][n + 1] = [status |-> "started", watermark |-> NoWatermark,
                                        startedAt |-> runner[r].now]
<1> DEFINE j == runner[r].job
           row == [status |-> "started", watermark |-> NoWatermark,
                   startedAt |-> runner[r].now]
<1>1. /\ j \in Jobs /\ attempt[j] \in Seq(AttemptRow) /\ Len(attempt[j]) \in Nat
      /\ runner[r].now \in Int
  BY CommitShape, RunnerTypes DEF IInv, TypeOK
<1>2. CASE Opens(r)
  <2>1. attempt'[j] = Append(attempt[j], row) /\ row \in AttemptRow
    BY <1>1, <1>2 DEF Opens, AttemptRow, AttemptStatus, NoWatermark
  <2>2. /\ Len(attempt'[j]) = Len(attempt[j]) + 1
        /\ \A n \in 1..Len(attempt[j]) : attempt'[j][n] = attempt[j][n]
        /\ attempt'[j][Len(attempt[j]) + 1] = row
    <3> HIDE DEF row, j
    <3>1. QED
      BY <1>1, <2>1, AppendProperties
  <2>3. QED
    BY <1>1, <1>2, <2>2
<1>3. ASSUME NEW status \in AttemptStatus \ {"started"}, Works(r),
             NEW w \in {attempt[j][runner[r].attempt].watermark, runner[r].seen},
             AttemptBecomes(j, runner[r].attempt,
                            WrittenRow(attempt[j][runner[r].attempt], status, w))
      PROVE  /\ Len(attempt'[j]) = Len(attempt[j])
             /\ \A m \in 1..Len(attempt[j]) :
                  /\ attempt'[j][m].startedAt = attempt[j][m].startedAt
                  /\ attempt'[j][m] # attempt[j][m] =>
                       /\ m = Len(attempt[j]) /\ attempt'[j][m].status # "started"
                       /\ attempt'[j][m].watermark \in {attempt[j][m].watermark, runner[r].seen}
  <2>1. runner[r].attempt = Len(attempt[j])
    BY <1>3, WorkingRow
  <2>2. QED
    BY <1>1, <1>3, <2>1 DEF AttemptBecomes, WrittenRow
<1>4. CASE Checkpoints(r)
  BY <1>3, <1>4 DEF Checkpoints, AttemptStatus
<1>5. CASE Succeeds(r)
  BY <1>3, <1>5 DEF Succeeds, AttemptStatus
<1>6. CASE Reschedules(r) \/ Buries(r)
  BY <1>3, <1>6 DEF Reschedules, Buries, ClosesAs, AttemptStatus
<1>7. QED
  BY <1>2, <1>4, <1>5, <1>6, CommitShape

\* A committed statement keeps the job it is about spaced, and its next claim too.
LEMMA LedgerJob ==
  ASSUME IInv, LedgerInv, NEW r \in Runners, StepOf(r), Commits(r),
         NEW j \in Jobs, j = runner[r].job
  PROVE  (Waits(j) /\ Spaced(j))'
<1>1. /\ Waits(j) /\ Spaced(j) /\ OwnRow(r) /\ DueWhenLocked(r) /\ RowOk(j)
      /\ attempt[j] \in Seq(AttemptRow) /\ Len(attempt[j]) \in Nat
  BY DEF LedgerInv, IInv, TypeOK
<1>2. \A m \in 1..Len(attempt[j]) : attempt'[j][m].startedAt = attempt[j][m].startedAt
  BY AttemptsOfCommit
<1>3. ASSUME NEW n \in Nat, n \in 1..(Len(attempt[j]) - 1)
      PROVE  attempt'[j][n + 1].startedAt >= attempt'[j][n].startedAt + RetryDelay[n]
  <2>1. n \in 1..Len(attempt[j]) /\ n + 1 \in 1..Len(attempt[j])
    BY <1>1, <1>3
  <2>2. attempt[j][n + 1].startedAt >= attempt[j][n].startedAt + RetryDelay[n]
    BY <1>1, <1>3 DEF Spaced
  <2>3. QED
    BY <1>2, <2>1, <2>2
<1>4. CASE Opens(r)
  <2>1. /\ runner[r].step = "lock" /\ job'[j].status = "running"
        /\ job[j].status \in {"queued", "retry_scheduled"}
    BY <1>4 DEF Opens
  <2>2. ~Works(r)
    BY <2>1 DEF Works, Working
  <2>3. /\ Len(attempt'[j]) = Len(attempt[j]) + 1
        /\ attempt'[j][Len(attempt[j]) + 1].startedAt = runner[r].now
    <3>1. /\ Len(attempt'[j]) = Len(attempt[j]) + 1
          /\ attempt'[j][Len(attempt[j]) + 1] =
               [status |-> "started", watermark |-> NoWatermark, startedAt |-> runner[r].now]
      BY <2>2, AttemptsOfCommit
    <3>2. QED
      BY <3>1
  <2>4. ASSUME Len(attempt[j]) > 0
        PROVE  runner[r].now >= attempt'[j][Len(attempt[j])].startedAt
                                  + RetryDelay[Len(attempt[j])]
    <3>1. attempt[j] # <<>>
      BY <2>4
    <3>2. job[j].status = "retry_scheduled"
      BY <1>1, <2>1, <3>1 DEF RowOk
    <3>3. /\ job[j].nextRunAt = attempt[j][Len(attempt[j])].startedAt
                                  + RetryDelay[Len(attempt[j])]
          /\ job[j].nextRunAt <= runner[r].now
      BY <1>1, <2>1, <3>2 DEF Waits, DueWhenLocked, LastAttempt
    <3>4. attempt'[j][Len(attempt[j])].startedAt = attempt[j][Len(attempt[j])].startedAt
      BY <1>1, <1>2, <2>4
    <3>5. QED
      BY <3>3, <3>4
  <2>5. ASSUME NEW n \in 1..(Len(attempt'[j]) - 1)
        PROVE  attempt'[j][n + 1].startedAt >= attempt'[j][n].startedAt + RetryDelay[n]
    <3>1. n \in Nat /\ (n \in 1..(Len(attempt[j]) - 1) \/ (n = Len(attempt[j]) /\ n > 0))
      BY <1>1, <2>3
    <3>2. QED
      BY <1>3, <2>3, <2>4, <3>1
  <2>6. QED
    BY <2>1, <2>5 DEF Waits, Spaced
<1>5. ASSUME Len(attempt'[j]) = Len(attempt[j]) PROVE Spaced(j)'
  <2> SUFFICES ASSUME NEW n \in 1..(Len(attempt'[j]) - 1)
               PROVE  attempt'[j][n + 1].startedAt >= attempt'[j][n].startedAt + RetryDelay[n]
    BY DEF Spaced
  <2>1. n \in Nat /\ n \in 1..(Len(attempt[j]) - 1)
    BY <1>1, <1>5
  <2>2. QED
    BY <1>3, <2>1
<1>6. ASSUME Works(r)
      PROVE  /\ Len(attempt'[j]) = Len(attempt[j]) /\ runner[r].attempt = Len(attempt[j])
             /\ Len(attempt[j]) \in 1..Len(attempt[j])
  <2>1. ~Opens(r)
    BY <1>6 DEF Opens, Works, Working
  <2>2. QED
    BY <1>6, <2>1, AttemptsOfCommit, WorkingRow
<1>7. CASE Reschedules(r)
  <2>1. Works(r) /\ job'[j].nextRunAt = runner[r].now + RetryDelay[runner[r].attempt]
    BY <1>7 DEF Reschedules
  <2>2. attempt'[j][Len(attempt[j])].startedAt = runner[r].now
    BY <1>1, <1>2, <1>6, <2>1 DEF OwnRow, LastAttempt
  <2>3. Waits(j)'
    BY <1>6, <2>1, <2>2 DEF Waits, LastAttempt
  <2>4. QED
    BY <1>5, <1>6, <2>1, <2>3
<1>8. CASE Checkpoints(r) \/ Succeeds(r) \/ Buries(r)
  <2>1. Works(r) /\ job'[j].status # "retry_scheduled"
    BY <1>8 DEF Checkpoints, Succeeds, Buries
  <2>2. QED
    BY <1>5, <1>6, <2>1 DEF Waits
<1>9. QED
  BY <1>4, <1>7, <1>8, CommitShape

\* ... and the row of the run that goes on, with what the run knows.
LEMMA LedgerOwn ==
  ASSUME IInv, IInv', LedgerInv, NEW r \in Runners, StepOf(r), Commits(r)
  PROVE  (OwnRow(r) /\ DueWhenLocked(r))'
<1>1. PICK j \in Jobs : j = runner[r].job
  BY CommitShape
<1>2. /\ Holds(r) /\ OwnRow(r) /\ attempt[j] \in Seq(AttemptRow) /\ Len(attempt[j]) \in Nat
      /\ runner'[r].step = "returned" \/ RunGoesOn(r)
  BY <1>1, CommitShape, RunStep DEF LedgerInv, IInv, TypeOK
<1>3. runner'[r].step # "lock"
  BY <1>2 DEF RunGoesOn, Holds, Works, Working
<1>4. CASE ~Works(r)'
  BY <1>3, <1>4 DEF OwnRow, DueWhenLocked
<1>5. CASE Works(r)'
  <2>1. /\ runner'[r].job = j /\ runner'[r].now = runner[r].now
        /\ runner'[r].seen = runner[r].seen
    BY <1>1, <1>2, <1>5 DEF RunGoesOn, Works, Working, Holds
  <2>2. CASE Opens(r)
    <3>1. LastAttempt(j)' = [status |-> "started", watermark |-> NoWatermark,
                             startedAt |-> runner[r].now]
      BY <1>1, <1>2, <2>2, AttemptsOfCommit DEF Opens, LastAttempt, Works, Working
    <3>2. QED
      BY <1>3, <2>1, <3>1 DEF OwnRow, DueWhenLocked
  <2>3. CASE Checkpoints(r) \/ Succeeds(r)
    <3>1. /\ Works(r) /\ runner[r].attempt = Len(attempt[j]) /\ Len(attempt[j]) > 0
      BY <1>1, <2>3, WorkingRow DEF Checkpoints, Succeeds
    <3>2. /\ LastAttempt(j)'.watermark = runner[r].seen
          /\ LastAttempt(j)'.startedAt = LastAttempt(j).startedAt
      BY <1>1, <1>2, <2>3, <3>1
      DEF Checkpoints, Succeeds, AttemptBecomes, WrittenRow, LastAttempt
    <3>3. QED
      BY <1>1, <1>2, <1>3, <2>1, <3>1, <3>2 DEF OwnRow, DueWhenLocked
  <2>4. CASE Reschedules(r) \/ Buries(r)
    <3>1. job'[j].status \in {"retry_scheduled", "dead_lettered"}
      BY <1>1, <2>4 DEF Reschedules, Buries
    <3>2. QED
      BY <1>5, <2>1, <3>1 DEF IInv, RunOk
  <2>5. QED
    BY <2>2, <2>3, <2>4, CommitShape
<1>6. QED
  BY <1>4, <1>5

\* ... and every checkpoint, with the attempt that committed it.
LEMMA LedgerNamed ==
  ASSUME IInv, LedgerInv, NEW r \in Runners, Commits(r), NEW s \in Scopes
  PROVE  Named(s)'
<1>1. PICK j \in Jobs : j = runner[r].job
  BY CommitShape
<1>2. /\ Named(s) /\ OwnRow(r) /\ attempt[j] \in Seq(AttemptRow) /\ Len(attempt[j]) \in Nat
      /\ checkpoint \in [Scopes -> CheckpointRow]
      /\ \A k \in Jobs \ {j} : attempt'[k] = attempt[k]
  BY <1>1, CommitShape DEF LedgerInv, IInv, TypeOK
<1>3. /\ Len(attempt'[j]) >= Len(attempt[j]) /\ Len(attempt'[j]) \in Nat
      /\ \A m \in 1..Len(attempt[j]) :
           /\ attempt'[j][m].startedAt = attempt[j][m].startedAt
           /\ attempt'[j][m] # attempt[j][m] =>
                /\ Works(r) /\ m = Len(attempt[j]) /\ attempt'[j][m].status # "started"
                /\ attempt'[j][m].watermark \in {attempt[j][m].watermark, runner[r].seen}
  <2>1. /\ \A m \in 1..Len(attempt[j]) :
             /\ attempt'[j][m].startedAt = attempt[j][m].startedAt
             /\ attempt'[j][m] # attempt[j][m] =>
                  /\ Works(r) /\ m = Len(attempt[j]) /\ attempt'[j][m].status # "started"
                  /\ attempt'[j][m].watermark \in {attempt[j][m].watermark, runner[r].seen}
        /\ Len(attempt'[j]) = Len(attempt[j]) \/ Len(attempt'[j]) = Len(attempt[j]) + 1
    BY <1>1, AttemptsOfCommit
  <2>2. QED
    BY <1>2, <2>1
<1>4. CASE checkpoint'[s] = checkpoint[s]
  <2> SUFFICES ASSUME checkpoint[s] # NoCheckpoint
               PROVE  Named(s)'
    BY <1>4 DEF Named
  <2> DEFINE k == checkpoint[s].jobId
             a == checkpoint[s].attemptId
  <2>1. /\ k \in Jobs /\ ScopeOf[k] = s /\ a \in 1..Len(attempt[k])
        /\ attempt[k][a].status # "started"
        /\ attempt[k][a].watermark = checkpoint[s].watermark
        /\ attempt[k][a].startedAt = checkpoint[s].committedAt
    BY <1>2 DEF Named
  <2>2. CASE k # j
    BY <1>2, <1>4, <2>1, <2>2 DEF Named
  <2>3. CASE k = j
    <3>0. /\ a \in 1..Len(attempt[j]) /\ attempt[j][a].status # "started"
          /\ attempt'[j][a].startedAt = attempt[j][a].startedAt
      <4> HIDE DEF k, a
      <4>1. QED
        BY <1>3, <2>1, <2>3
    <3>1. /\ attempt'[j][a].status # "started"
          /\ attempt'[j][a].watermark = attempt[j][a].watermark
          /\ attempt'[j][a].startedAt = attempt[j][a].startedAt
      <4> HIDE DEF k, a
      <4>1. CASE attempt'[j][a] = attempt[j][a]
        BY <3>0, <4>1
      <4>2. CASE attempt'[j][a] # attempt[j][a]
        <5>1. /\ Works(r) /\ a = Len(attempt[j]) /\ attempt'[j][a].status # "started"
              /\ attempt'[j][a].watermark \in {attempt[j][a].watermark, runner[r].seen}
          BY <1>3, <3>0, <4>2
        <5>2. attempt[j][a].watermark = runner[r].seen
          BY <1>1, <1>2, <3>0, <5>1 DEF OwnRow, LastAttempt
        <5>3. QED
          BY <3>0, <5>1, <5>2
      <4>3. QED
        BY <4>1, <4>2
    <3>2. a \in 1..Len(attempt'[j])
      BY <1>2, <1>3, <2>1, <2>3
    <3>3. QED
      BY <1>4, <2>1, <2>3, <3>1, <3>2 DEF Named
  <2>4. QED
    BY <2>2, <2>3
<1>5. CASE checkpoint'[s] # checkpoint[s]
  <2>1. Checkpoints(r)
    BY <1>5, CommitShape DEF Opens, Succeeds, Reschedules, Buries, ClosesAs
  <2>2. /\ Works(r) /\ runner[r].attempt = Len(attempt[j]) /\ Len(attempt[j]) > 0
    BY <1>1, <2>1, WorkingRow DEF Checkpoints
  <2>3. /\ s = ScopeOf[j]
        /\ checkpoint'[s] = [watermark |-> runner[r].seen, jobId |-> j,
                             attemptId |-> runner[r].attempt, committedAt |-> runner[r].now]
    BY <1>1, <1>2, <1>5, <2>1 DEF Checkpoints
  <2>4. /\ Len(attempt'[j]) = Len(attempt[j])
        /\ attempt'[j][Len(attempt[j])].status = "checkpointed"
        /\ attempt'[j][Len(attempt[j])].watermark = runner[r].seen
    BY <1>1, <1>2, <2>1, <2>2 DEF Checkpoints, AttemptBecomes, WrittenRow
  <2>5. attempt'[j][Len(attempt[j])].startedAt = runner[r].now
    BY <1>1, <1>2, <1>3, <2>2 DEF OwnRow, LastAttempt
  <2>6. QED
    BY <1>2, <2>2, <2>3, <2>4, <2>5 DEF Named
<1>6. QED
  BY <1>4, <1>5

LEMMA LedgerCommit ==
  ASSUME IInv, IInv', LedgerInv, NEW r \in Runners, StepOf(r), Commits(r)
  PROVE  LedgerInv'
<1>1. /\ Holds(r) /\ runner[r].job \in Jobs
      /\ \A k \in Jobs \ {runner[r].job} : job'[k] = job[k] /\ attempt'[k] = attempt[k]
      /\ \A q \in Runners \ {r} : runner'[q] = runner[q]
  BY CommitShape, RunStep
<1>2. ASSUME NEW k \in Jobs PROVE (Waits(k) /\ Spaced(k))'
  <2>1. CASE k = runner[r].job
    BY <2>1, LedgerJob
  <2>2. CASE k # runner[r].job
    BY <1>1, <2>2 DEF LedgerInv, Waits, Spaced, LastAttempt
  <2>3. QED
    BY <2>1, <2>2
<1>3. ASSUME NEW q \in Runners PROVE (OwnRow(q) /\ DueWhenLocked(q))'
  <2>1. CASE q = r
    BY <2>1, LedgerOwn
  <2>2. CASE q # r
    <3>1. runner'[q] = runner[q] /\ OwnRow(q) /\ DueWhenLocked(q) /\ RunOk(q)
      BY <1>1, <2>2 DEF LedgerInv, IInv
    <3>2. CASE Holds(q)
      <4>1. runner[q].job \in Jobs \ {runner[r].job}
        BY <1>1, <2>2, <3>1, <3>2, HeldApart DEF RunOk, Holds
      <4>2. QED
        BY <1>1, <3>1, <4>1 DEF OwnRow, DueWhenLocked, LastAttempt, Works
    <3>3. CASE ~Holds(q)
      BY <3>1, <3>3 DEF Holds, OwnRow, DueWhenLocked, Works
    <3>4. QED
      BY <3>2, <3>3
  <2>3. QED
    BY <2>1, <2>2
<1>4. QED
  BY <1>2, <1>3, LedgerNamed DEF LedgerInv

LEMMA LedgerNext == IInv /\ IInv' /\ LedgerInv /\ [Next]_vars => LedgerInv'
<1> SUFFICES ASSUME IInv, IInv', LedgerInv, [Next]_vars PROVE LedgerInv'
  OBVIOUS
<1>1. CASE UNCHANGED vars \/ AcceptRawEvent \/ Tick
  <2>1. UNCHANGED <<tables, runner>>
    BY <1>1 DEF vars, AcceptRawEvent, Tick
  <2>2. QED
    BY <2>1, LedgerQuiet DEF LedgerInv, DueWhenLocked, Works
<1>2. ASSUME NEW j \in Jobs, Enqueue(j) PROVE LedgerInv'
  <2>1. /\ job[j].status = "absent" /\ job'[j].status = "queued"
        /\ \A k \in Jobs \ {j} : job'[k] = job[k]
        /\ UNCHANGED <<attempt, checkpoint, runner>>
    BY <1>2 DEF Enqueue, IInv, TypeOK, AbsentJob
  <2>2. ASSUME NEW k \in Jobs PROVE (Waits(k) /\ Spaced(k))'
    <3>1. Waits(k) /\ Spaced(k) /\ attempt'[k] = attempt[k]
      BY <2>1 DEF LedgerInv
    <3>2. job'[k] = job[k] \/ job'[k].status = "queued"
      BY <2>1
    <3>3. QED
      BY <3>1, <3>2 DEF Waits, Spaced, LastAttempt
  <2>3. ASSUME NEW r \in Runners PROVE (OwnRow(r) /\ DueWhenLocked(r))'
    BY <2>1 DEF LedgerInv, OwnRow, DueWhenLocked, LastAttempt, Works, IInv, RunOk
  <2>4. QED
    BY <2>1, <2>2, <2>3 DEF LedgerInv, Named
<1>3. ASSUME NEW r \in Runners, Prepare(r) PROVE LedgerInv'
  <2>1. /\ UNCHANGED tables /\ \A q \in Runners \ {r} : runner'[q] = runner[q]
        /\ ~Works(r)' /\ runner'[r].step # "lock"
    BY <1>3, PrepareMoves DEF OnlyMoves, Works, Working, Preparing
  <2>2. QED
    BY <2>1, LedgerQuiet DEF LedgerInv, DueWhenLocked, Works, tables
<1>4. ASSUME NEW r \in Runners, StepOf(r) PROVE LedgerInv'
  BY <1>4, TablesStep, LedgerQuietStep, LedgerCommit
<1>5. QED
  BY <1>1, <1>2, <1>3, <1>4 DEF Next, StepOf

\* LedgerInv holds in every reachable state.
THEOREM LedgerHolds == Spec => []LedgerInv
<1>1. Init => LedgerInv
  BY InitLedger
<1>2. IInv /\ IInv' /\ LedgerInv /\ [Next]_vars => LedgerInv'
  BY LedgerNext
<1>3. QED
  BY <1>1, <1>2, InvariantHolds, PTL DEF Spec

\* Jobs, attempts, dead letters and checkpoints agree in every reachable state, whichever
\* statements failed or were committed without acknowledgement: a checkpoint is always what
\* the attempt it names says of itself.
THEOREM LedgersAgree == Spec => []LedgerAgrees
<1>1. IInv /\ LedgerInv => LedgerAgrees
  <2> SUFFICES ASSUME IInv, LedgerInv PROVE LedgerAgrees
    OBVIOUS
  <2>1. RowsTellOneStory
    BY InvariantImplies
  <2>2. CheckpointNamesItsAttempt
    BY DEF LedgerInv, Named, CheckpointNamesItsAttempt
  <2>3. QED
    BY <2>1, <2>2 DEF LedgerAgrees
<1>2. QED
  BY <1>1, InvariantHolds, LedgerHolds, PTL

\* Between two recorded attempts of a job lies the backoff of the first, whoever made the
\* second and whatever its clock.
THEOREM BackoffsAreHonoured == Spec => []BackoffIsHonoured
<1>1. LedgerInv => BackoffIsHonoured
  BY DEF LedgerInv, Spaced, BackoffIsHonoured
<1>2. QED
  BY <1>1, LedgerHolds, PTL
-------------------------------------------------------------------------------
(* Reported outcomes.  A run that reported how its attempt ended has let   *)
(* go of the job; what can still happen to the job must leave that attempt *)
(* alone: nobody claims a settled job, and a rescheduled one is claimed    *)
(* for an attempt of its own.                                              *)

Outcomes == {"completed", "retry_scheduled", "dead_lettered"}

Ended(r) ==
  LET j == runner[r].job
      n == runner[r].attempt IN
  runner[r].result \in Outcomes =>
    /\ runner[r].step = "returned" /\ j \in Jobs /\ n \in 1..Len(attempt[j])
    /\ runner[r].result = "completed" =>
         /\ n = Len(attempt[j]) /\ job[j].status = "succeeded"
         /\ \A q \in Runners : Works(q) => runner[q].job # j
    /\ runner[r].result = "dead_lettered" =>
         n = Len(attempt[j]) /\ job[j].status = "dead_lettered"
    /\ runner[r].result = "retry_scheduled" =>
         n < Len(attempt[j]) \/ job[j].status = "retry_scheduled"

OutcomeInv == \A r \in Runners : Ended(r)

LEMMA InitOutcome == Init => OutcomeInv
  BY DEF Init, OutcomeInv, Ended, AtRest, Outcomes

\* A run that returns an outcome has just committed it.
LEMMA ReturnsOutcome ==
  ASSUME IInv, NEW r \in Runners, StepOf(r),
         runner'[r].step = "returned", runner'[r].result \in Outcomes
  PROVE  /\ runner'[r].job = runner[r].job /\ runner'[r].attempt = runner[r].attempt
         /\ Commits(r) /\ Works(r)
         /\ runner'[r].result = "completed" => Succeeds(r)
         /\ runner'[r].result = "retry_scheduled" => Reschedules(r)
         /\ runner'[r].result = "dead_lettered" => Buries(r)
<1>1. ASSUME NEW step \in Working, Goto(r, step) PROVE FALSE
  BY <1>1, GotoMoves DEF Working, Step
<1>2. ASSUME NEW retryable \in BOOLEAN, Catch(r, retryable) PROVE FALSE
  BY <1>2, CatchMoves
<1>3. ~Throw(r) /\ ~Return(r, "idle")
  BY ThrowMoves, ReturnMoves DEF Outcomes, RunStatus, Throw, Return, IInv, TypeOK, AtRest
<1>4. ~SelectJob(r) /\ ~Claim(r)
  BY DEF SelectJob, Claim, IInv, TypeOK, RunnerState
<1>5. Complete(r) \/ Retry(r) \/ DeadLetter(r)
  BY <1>1, <1>2, <1>3, <1>4
  DEF StepOf, Continue, GoWrong, ClaimNothing, WriteOutput, Checkpoint, CompleteCheckpoint,
      FailureUnrecorded, ClaimFails, ClaimAckLost, BuildOrWriteFails, StatementFails, AckLost,
      FailureAckLost, Crash, Working
<1>6. \A result \in RunStatus : Return(r, result) =>
        /\ runner'[r].job = runner[r].job /\ runner'[r].attempt = runner[r].attempt
        /\ runner'[r].result = result
  BY DEF Return, IInv, TypeOK, AtRest
<1>7. CASE Complete(r)
  <2>1. Works(r) /\ runner[r].step # "catch" /\ CompleteOfRun(r) /\ Return(r, "completed")
    BY <1>7 DEF Complete, Works, Working
  <2>2. Commits(r) /\ job'[runner[r].job].status = "succeeded"
    BY <2>1, CompleteEffect DEF Commits
  <2>3. Succeeds(r)
    <3>1. ~Opens(r) /\ ~Reschedules(r) /\ ~Buries(r)
      BY <2>1 DEF Opens, Reschedules, Buries, Works, Working
    <3>2. ~Checkpoints(r)
      BY <2>2 DEF Checkpoints
    <3>3. QED
      BY <2>2, <3>1, <3>2, CommitShape
  <2>4. QED
    BY <1>6, <2>1, <2>2, <2>3 DEF RunStatus
<1>8. CASE Retry(r) \/ DeadLetter(r)
  <2>1. Works(r) /\ runner[r].step = "catch" /\ Commits(r)
    BY <1>8 DEF Retry, DeadLetter, Works, Working, Commits
  <2>2. Reschedules(r) \/ Buries(r)
    BY <2>1, CommitShape DEF Opens, Checkpoints, Succeeds
  <2>3. CASE Retry(r)
    BY <1>6, <2>1, <2>2, <2>3 DEF Retry, RetryOfRun, Buries, RunStatus
  <2>4. CASE DeadLetter(r)
    BY <1>6, <2>1, <2>2, <2>4 DEF DeadLetter, DeadLetterOfRun, Reschedules, RunStatus
  <2>5. QED
    BY <1>8, <2>3, <2>4
<1>9. QED
  BY <1>5, <1>7, <1>8

\* A run leaves the jobs alone that it does not hold, and does not start to work on them.
LEMMA Untouched ==
  ASSUME IInv, NEW r \in Runners, StepOf(r), NEW j \in Jobs,
         ~(Holds(r) /\ runner[r].job = j)
  PROVE  /\ job'[j] = job[j] /\ attempt'[j] = attempt[j]
         /\ ~(Works(r)' /\ runner'[r].job = j)
<1>1. job'[j] = job[j] /\ attempt'[j] = attempt[j]
  BY TablesStep, CommitShape DEF tables
<1>2. ~(Works(r)' /\ runner'[r].job = j)
  BY RunStep DEF RunGoesOn, Works, Working
<1>3. QED
  BY <1>1, <1>2

\* The attempts of a job are never removed.
LEMMA AttemptsGrow ==
  ASSUME IInv, NEW r \in Runners, StepOf(r), NEW j \in Jobs
  PROVE  Len(attempt'[j]) \in Nat /\ Len(attempt[j]) \in Nat /\ Len(attempt[j]) <= Len(attempt'[j])
<1>1. Len(attempt[j]) \in Nat
  BY FreshTypes
<1>2. CASE Commits(r) /\ runner[r].job = j
  <2>1. Len(attempt'[j]) = Len(attempt[j]) \/ Len(attempt'[j]) = Len(attempt[j]) + 1
    BY <1>2, AttemptsOfCommit
  <2>2. QED
    BY <1>1, <2>1
<1>3. CASE ~(Commits(r) /\ runner[r].job = j)
  BY <1>1, <1>3, TablesStep, CommitShape DEF tables
<1>4. QED
  BY <1>2, <1>3

\* What one run does leaves the outcomes of the others true.
LEMMA OutcomeOfOthers ==
  ASSUME IInv, OutcomeInv, NEW r \in Runners, StepOf(r), NEW q \in Runners \ {r}
  PROVE  Ended(q)'
<1>1. runner'[q] = runner[q] /\ \A p \in Runners \ {r} : runner'[p] = runner[p]
  BY RunStep
<1> SUFFICES ASSUME runner[q].result \in Outcomes PROVE Ended(q)'
  BY <1>1 DEF Ended
<1>2. PICK j \in Jobs, n \in 1..Len(attempt[runner[q].job]) :
        j = runner[q].job /\ n = runner[q].attempt
  BY DEF OutcomeInv, Ended
<1>3. n \in 1..Len(attempt'[j])
  BY <1>2, AttemptsGrow
<1>4. runner[q].step = "returned"
  BY DEF OutcomeInv, Ended
<1>5. CASE ~(Holds(r) /\ runner[r].job = j)
  <2>1. /\ job'[j] = job[j] /\ attempt'[j] = attempt[j]
        /\ ~(Works(r)' /\ runner'[r].job = j)
    BY <1>5, Untouched
  <2>2. (\A p \in Runners : Works(p) => runner[p].job # j) =>
           \A p \in Runners : Works(p)' => runner'[p].job # j
    BY <1>1, <2>1 DEF Works
  <2>3. QED
    BY <1>1, <1>2, <1>4, <2>1, <2>2 DEF OutcomeInv, Ended, Outcomes
<1>6. CASE Holds(r) /\ runner[r].job = j
  <2>1. job[j].status # "dead_lettered"
        /\ (job[j].status = "retry_scheduled" => runner[r].step = "lock")
    BY <1>6 DEF IInv, RunOk, Holds
  <2>2. runner[q].result = "retry_scheduled"
    <3>1. runner[q].result # "dead_lettered"
      BY <1>2, <2>1 DEF OutcomeInv, Ended
    <3>2. runner[q].result # "completed"
      BY <1>2, <1>6 DEF OutcomeInv, Ended, IInv, RunOk, Holds
    <3>3. QED
      BY <3>1, <3>2 DEF Outcomes
  <2>3. n < Len(attempt'[j]) \/ job'[j].status = "retry_scheduled"
    <3>1. CASE n < Len(attempt[j])
      BY <1>2, <3>1, AttemptsGrow
    <3>2. CASE job[j].status = "retry_scheduled" /\ UNCHANGED tables
      BY <3>2 DEF tables
    <3>3. CASE job[j].status = "retry_scheduled" /\ Commits(r)
      <4>1. Opens(r)
        BY <1>6, <2>1, <3>3, CommitShape
        DEF Checkpoints, Succeeds, Reschedules, Buries, Works, Working
      <4>2. /\ attempt'[j] = Append(attempt[j], [status |-> "started", watermark |-> NoWatermark,
                                                startedAt |-> runner[r].now])
            /\ attempt[j] \in Seq(AttemptRow)
        BY <1>6, <4>1 DEF Opens, IInv, TypeOK
      <4>3. Len(attempt'[j]) = Len(attempt[j]) + 1 /\ Len(attempt[j]) \in Nat
        BY <4>2
      <4>4. QED
        BY <1>2, <4>3
    <3>4. QED
      BY <1>2, <2>2, <3>1, <3>2, <3>3, TablesStep DEF OutcomeInv, Ended, Outcomes
  <2>4. QED
    BY <1>1, <1>2, <1>3, <1>4, <2>2, <2>3 DEF Ended
<1>7. QED
  BY <1>5, <1>6

\* What a run returns is true when it returns it.
LEMMA OutcomeOfRun ==
  ASSUME IInv, IInv', OutcomeInv, NEW r \in Runners, StepOf(r)
  PROVE  Ended(r)'
<1>1. CASE runner'[r].step # "returned"
  BY <1>1, RunStep DEF RunGoesOn, OutcomeInv, Ended
<1>2. CASE runner'[r].step = "returned" /\ runner'[r].result \in Outcomes
  <2>1. PICK j \in Jobs : j = runner[r].job /\ j = runner'[r].job
    BY <1>2, ReturnsOutcome, CommitShape
  <2>2. PICK n \in 1..Len(attempt[j]) :
          n = runner[r].attempt /\ n = runner'[r].attempt /\ n = Len(attempt[j])
    BY <1>2, <2>1, ReturnsOutcome, WorkingRow
  <2>3. ASSUME NEW row, AttemptBecomes(j, n, row) PROVE Len(attempt'[j]) = Len(attempt[j])
    BY <2>3 DEF AttemptBecomes
  <2>4. /\ Len(attempt'[j]) = Len(attempt[j])
        /\ runner'[r].result = "completed" => job'[j].status = "succeeded"
        /\ runner'[r].result = "retry_scheduled" => job'[j].status = "retry_scheduled"
        /\ runner'[r].result = "dead_lettered" => job'[j].status = "dead_lettered"
    BY <1>2, <2>1, <2>2, <2>3, ReturnsOutcome
    DEF Outcomes, Succeeds, Reschedules, Buries, ClosesAs
  <2>5. \A q \in Runners : Works(q)' => runner'[q].job # j
    <3>1. ~Works(r)'
      BY <1>2 DEF Works, Working
    <3>2. ASSUME NEW q \in Runners \ {r} PROVE Works(q)' => runner'[q].job # j
      BY <1>2, <2>1, RunStep, ReturnsOutcome DEF IInv, RunOk, Works
    <3>3. QED
      BY <3>1, <3>2
  <2>6. QED
    BY <1>2, <2>1, <2>2, <2>4, <2>5 DEF Ended, Outcomes
<1>3. CASE runner'[r].result \notin Outcomes
  BY <1>3 DEF Ended
<1>4. QED
  BY <1>1, <1>2, <1>3

\* Enqueueing takes an absent job, of which nobody has reported anything.
LEMMA EnqueueOutcome ==
  ASSUME IInv, OutcomeInv, NEW j \in Jobs, Enqueue(j)
  PROVE  OutcomeInv'
<1>1. /\ runner' = runner /\ attempt' = attempt
      /\ \A k \in Jobs \ {j} : job'[k] = job[k]
      /\ job[j].status = "absent" /\ Len(attempt[j]) = 0
  BY DEF Enqueue, IInv, TypeOK, RowOk
<1>2. ASSUME NEW r \in Runners, runner[r].result \in Outcomes PROVE runner[r].job \in Jobs \ {j}
  BY <1>1, <1>2 DEF OutcomeInv, Ended
<1>3. QED
  BY <1>1, <1>2 DEF OutcomeInv, Ended, Works

\* A process that is invoked again no longer reports anything.
LEMMA PrepareOutcome ==
  ASSUME IInv, OutcomeInv, NEW r \in Runners, Prepare(r)
  PROVE  OutcomeInv'
<1>1. /\ \A q \in Runners \ {r} : runner'[q] = runner[q]
      /\ job' = job /\ attempt' = attempt
      /\ runner'[r].step \in Preparing \cup {"claim"}
      /\ runner[r].step \in Preparing \cup {"returned"}
      /\ runner'[r].result = IF runner[r].step = "returned" THEN "none" ELSE runner[r].result
  BY PrepareMoves DEF OnlyMoves, tables
<1>2. runner'[r].result \notin Outcomes
  BY <1>1 DEF OutcomeInv, Ended, Outcomes, Preparing
<1>3. ~Works(r)' /\ Ended(r)'
  BY <1>1, <1>2 DEF Works, Working, Preparing, Ended
<1>4. QED
  BY <1>1, <1>3 DEF OutcomeInv, Ended, Works

LEMMA OutcomeNext == IInv /\ IInv' /\ OutcomeInv /\ [Next]_vars => OutcomeInv'
<1> SUFFICES ASSUME IInv, IInv', OutcomeInv, [Next]_vars PROVE OutcomeInv'
  OBVIOUS
<1>1. CASE UNCHANGED vars \/ AcceptRawEvent \/ Tick
  <2>1. UNCHANGED <<job, attempt, runner>>
    BY <1>1 DEF vars, tables, AcceptRawEvent, Tick
  <2>2. QED
    BY <2>1 DEF OutcomeInv, Ended, Works
<1>2. ASSUME NEW r \in Runners, StepOf(r) PROVE OutcomeInv'
  BY <1>2, OutcomeOfRun, OutcomeOfOthers DEF OutcomeInv
<1>3. QED
  BY <1>1, <1>2, EnqueueOutcome, PrepareOutcome DEF Next, StepOf

\* A caller that was told how its attempt ended was told the durable truth: no later step of
\* any run changes how the attempt it names ended.
THEOREM OutcomesAreDurable == Spec => []ReportedOutcomeIsDurable
<1>1. IInv /\ OutcomeInv => ReportedOutcomeIsDurable
  <2> SUFFICES ASSUME IInv, OutcomeInv, NEW r \in Runners, runner[r].result \in Outcomes
               PROVE  LET ended == attempt[runner[r].job][runner[r].attempt].status IN
                      /\ runner[r].result = "completed" => ended = "succeeded"
                      /\ runner[r].result = "retry_scheduled" => ended = "retryable_failed"
                      /\ runner[r].result = "dead_lettered" => ended = "dead_lettered"
    BY DEF ReportedOutcomeIsDurable, Outcomes
  <2>1. PICK j \in Jobs, n \in 1..Len(attempt[runner[r].job]) :
        j = runner[r].job /\ n = runner[r].attempt
    BY DEF OutcomeInv, Ended
  <2>2. RowOk(j) /\ Len(attempt[j]) \in Nat
    BY FreshTypes DEF IInv
  <2>3. CASE runner[r].result \in {"completed", "dead_lettered"}
    BY <2>1, <2>2, <2>3 DEF OutcomeInv, Ended, Outcomes, RowOk, LastAttempt
  <2>4. CASE runner[r].result = "retry_scheduled"
    <3>1. CASE n < Len(attempt[j])
      <4>1. n \in 1..(Len(attempt[j]) - 1)
        BY <2>1, <2>2, <3>1
      <4>2. attempt[j][n].status = "retryable_failed"
        BY <2>2, <4>1 DEF RowOk
      <4>3. QED
        BY <2>1, <2>4, <4>2
    <3>2. CASE ~(n < Len(attempt[j]))
      <4>1. n = Len(attempt[j]) /\ job[j].status = "retry_scheduled"
        BY <2>1, <2>2, <2>4, <3>2 DEF OutcomeInv, Ended, Outcomes
      <4>2. QED
        BY <2>1, <2>2, <2>4, <4>1 DEF RowOk, LastAttempt
    <3>3. QED
      BY <3>1, <3>2
  <2>5. QED
    BY <2>3, <2>4 DEF Outcomes
<1>2. Init => IInv /\ OutcomeInv
  BY InitInvariant, InitOutcome
<1>3. IInv /\ OutcomeInv /\ [Next]_vars => (IInv /\ OutcomeInv)'
  BY NextInvariant, OutcomeNext
<1>4. QED
  BY <1>1, <1>2, <1>3, PTL DEF Spec

-------------------------------------------------------------------------------
(* Settled jobs.                                                           *)

\* No step touches a settled job that no run holds: claim takes waiting rows only, and a run
\* in its try or catch block holds the job it writes.
THEOREM SettledJobsStay == Spec => TerminalIsFinal
<1> DEFINE Final ==
      \A j \in Jobs :
        /\ job[j].status \in {"succeeded", "dead_lettered"}
        /\ ~\E r \in Runners : Works(r) /\ runner[r].job = j
        => job'[j] = job[j] /\ attempt'[j] = attempt[j]
<1>1. IInv /\ [Next]_vars => [Final]_vars
  <2> SUFFICES ASSUME IInv, [Next]_vars, NEW j \in Jobs,
                      job[j].status \in {"succeeded", "dead_lettered"},
                      ~\E r \in Runners : Works(r) /\ runner[r].job = j
               PROVE  job'[j] = job[j] /\ attempt'[j] = attempt[j]
    OBVIOUS
  <2>1. CASE UNCHANGED vars \/ AcceptRawEvent \/ Tick \/ \E r \in Runners : Prepare(r)
    BY <2>1, PrepareMoves DEF vars, tables, AcceptRawEvent, Tick
  <2>2. ASSUME NEW k \in Jobs, Enqueue(k) PROVE job'[j] = job[j] /\ attempt'[j] = attempt[j]
    BY <2>2 DEF Enqueue, IInv, TypeOK
  <2>3. ASSUME NEW r \in Runners, StepOf(r) PROVE job'[j] = job[j] /\ attempt'[j] = attempt[j]
    <3>1. ~(Holds(r) /\ runner[r].job = j)
      BY DEF Holds, IInv, RunOk
    <3>2. QED
      BY <2>3, <3>1, Untouched
  <2>4. QED
    BY <2>1, <2>2, <2>3 DEF Next, StepOf
<1>2. QED
  BY <1>1, InvariantHolds, PTL DEF Spec, TerminalIsFinal

-------------------------------------------------------------------------------
(* The lifecycle.  Every committed statement is one step of JobLifecycle   *)
(* for the job its run holds, and a run that stops lets its job go; all    *)
(* other steps leave phase, starts and holder of every job as they are.    *)

\* At most one run works on a job, so the refinement mapping's CHOOSE has one choice.
LEMMA HolderIs ==
  IInv => \A j \in Jobs :
    /\ \A r \in Runners : Works(r) /\ runner[r].job = j => HolderOf(j) = r
    /\ (\A r \in Runners : Works(r) => runner[r].job # j) => HolderOf(j) = NoRunner
<1> SUFFICES ASSUME IInv, NEW j \in Jobs
             PROVE  /\ \A r \in Runners : Works(r) /\ runner[r].job = j => HolderOf(j) = r
                    /\ (\A r \in Runners : Works(r) => runner[r].job # j) =>
                          HolderOf(j) = NoRunner
  OBVIOUS
<1>1. ASSUME NEW r \in Runners, Works(r), runner[r].job = j PROVE HolderOf(j) = r
  <2>1. \A q \in Runners : Works(q) /\ runner[q].job = j => q = r
    BY <1>1 DEF IInv, RunOk
  <2>2. QED
    BY <1>1, <2>1 DEF HolderOf
<1>2. QED
  BY <1>1 DEF HolderOf

LEMMA HolderIsNext ==
  IInv' => \A j \in Jobs :
    /\ \A r \in Runners : Works(r)' /\ runner'[r].job = j => HolderOf(j)' = r
    /\ (\A r \in Runners : Works(r)' => runner'[r].job # j) => HolderOf(j)' = NoRunner
<1> SUFFICES ASSUME IInv', NEW j \in Jobs
             PROVE  /\ \A r \in Runners : Works(r)' /\ runner'[r].job = j => HolderOf(j)' = r
                    /\ (\A r \in Runners : Works(r)' => runner'[r].job # j) =>
                          HolderOf(j)' = NoRunner
  OBVIOUS
<1>1. ASSUME NEW r \in Runners, Works(r)', runner'[r].job = j PROVE HolderOf(j)' = r
  <2>1. \A q \in Runners : Works(q)' /\ runner'[q].job = j => q = r
    BY <1>1 DEF IInv, RunOk
  <2>2. QED
    BY <1>1, <2>1 DEF HolderOf
<1>2. QED
  BY <1>1 DEF HolderOf

\* A job's holder changes with the run that moves only.
LEMMA HolderKept ==
  ASSUME IInv, IInv', NEW r \in Runners, NEW j \in Jobs,
         \A q \in Runners \ {r} : runner'[q] = runner[q],
         (Works(r) /\ runner[r].job = j) <=> (Works(r)' /\ runner'[r].job = j)
  PROVE  HolderOf(j)' = HolderOf(j)
<1>1. \A q \in Runners :
        (Works(q) /\ runner[q].job = j) <=> (Works(q)' /\ runner'[q].job = j)
  BY DEF Works
<1>2. CASE \E q \in Runners : Works(q) /\ runner[q].job = j
  BY <1>1, <1>2, HolderIs, HolderIsNext
<1>3. CASE ~\E q \in Runners : Works(q) /\ runner[q].job = j
  BY <1>1, <1>3, HolderIs, HolderIsNext
<1>4. QED
  BY <1>2, <1>3

LEMMA LifecycleInit == Init => Lifecycle!Init
<1> SUFFICES ASSUME Init PROVE Lifecycle!Init
  OBVIOUS
<1>1. \A j \in Jobs : job[j].status = "absent" /\ job[j].attemptCount = 0
  BY DEF Init, AbsentJob
<1>2. \A r \in Runners : ~Works(r)
  BY DEF Init, AtRest, Works, Working
<1>3. \A j \in Jobs : HolderOf(j) = NoRunner
  BY <1>2 DEF HolderOf
<1>4. QED
  BY <1>1, <1>3 DEF Lifecycle!Init, PhaseOf

\* Nothing happens to the phase, the starts and the holder of the other jobs.
OthersKept(j) ==
  \A k \in Jobs \ {j} : job'[k] = job[k] /\ HolderOf(k)' = HolderOf(k)

LEMMA LifecycleStutter ==
  ASSUME job' = job, \A j \in Jobs : HolderOf(j)' = HolderOf(j)
  PROVE  UNCHANGED Lifecycle!lifecycleVars
  BY DEF Lifecycle!lifecycleVars

LEMMA LifecycleSubmit ==
  ASSUME IInv, IInv', NEW j \in Jobs, Enqueue(j)
  PROVE  Lifecycle!Submit(j)
<1>1. /\ runner' = runner /\ \A k \in Jobs \ {j} : job'[k] = job[k]
      /\ job[j].status = "absent" /\ job'[j].status = "queued" /\ job'[j].attemptCount = 0
  BY DEF Enqueue, IInv, TypeOK, AbsentJob
<1>2. job[j].attemptCount = 0
  <2>1. attempt[j] = <<>> /\ Len(attempt[j]) = job[j].attemptCount
    BY <1>1 DEF IInv, RowOk
  <2>2. QED
    BY <2>1
<1>3. \A k \in Jobs : HolderOf(k)' = HolderOf(k)
  BY <1>1 DEF HolderOf, Works
<1>4. QED
  BY <1>1, <1>2, <1>3 DEF Lifecycle!Submit, PhaseOf

\* A run that leaves the job rows alone keeps its job or lets it go.
LEMMA LifecycleControl ==
  ASSUME IInv, IInv', NEW r \in Runners, StepOf(r), job' = job
  PROVE  (\E j \in Jobs : Lifecycle!LetGo(j)) \/ UNCHANGED Lifecycle!lifecycleVars
<1>1. /\ \A q \in Runners \ {r} : runner'[q] = runner[q]
      /\ runner'[r].step = "returned" \/ RunGoesOn(r)
  BY RunStep
<1>2. Works(r)' => Works(r) /\ runner'[r].job = runner[r].job
  <2>1. runner[r].step # "lock" \/ ~Works(r)'
    BY <1>1 DEF IInv, RunOk, RunGoesOn, Holds, Works, Working
  <2>2. QED
    BY <1>1, <2>1 DEF RunGoesOn, Holds, Works, Working
<1>3. CASE Works(r) /\ ~Works(r)'
  <2>1. PICK j \in Jobs : j = runner[r].job
    BY <1>3, WorkingRow
  <2>2. HolderOf(j) = r /\ r # NoRunner
    BY <1>3, <2>1, HolderIs, ConstantsAssumption
  <2>3. HolderOf(j)' = NoRunner
    <3>1. \A q \in Runners : Works(q)' => runner'[q].job # j
      BY <1>1, <1>3, <2>1 DEF IInv, RunOk, Works
    <3>2. QED
      BY <3>1, HolderIsNext
  <2>4. \A k \in Jobs \ {j} : HolderOf(k)' = HolderOf(k)
    BY <1>1, <1>3, <2>1, HolderKept
  <2>5. Lifecycle!LetGo(j)
    <3>1. [k \in Jobs |-> HolderOf(k)][j] # NoRunner
      BY <2>2
    <3>2. [k \in Jobs |-> HolderOf(k)]' =
            [[k \in Jobs |-> HolderOf(k)] EXCEPT ![j] = NoRunner]
      BY <2>3, <2>4
    <3>3. QED
      BY <3>1, <3>2 DEF Lifecycle!LetGo
  <2>6. QED
    BY <2>5
<1>4. CASE Works(r) <=> Works(r)'
  <2>1. \A j \in Jobs : HolderOf(j)' = HolderOf(j)
    BY <1>1, <1>2, <1>4, HolderKept
  <2>2. QED
    BY <2>1, LifecycleStutter
<1>5. QED
  BY <1>2, <1>3, <1>4

\* Every other statement is a Start, a Succeed or a Fail of the job its run holds.
LEMMA LifecycleCommit ==
  ASSUME IInv, IInv', NEW r \in Runners, StepOf(r), Commits(r), ~Checkpoints(r)
  PROVE  \E j \in Jobs : Lifecycle!Start(j) \/ Lifecycle!Succeed(j) \/ Lifecycle!Fail(j)
<1>1. PICK j \in Jobs : j = runner[r].job
  BY CommitShape
<1>2. /\ \A q \in Runners \ {r} : runner'[q] = runner[q]
      /\ Holds(r) /\ (Works(r)' => runner'[r].job = j)
      /\ \A k \in Jobs \ {j} : job'[k] = job[k]
      /\ RowOk(j) /\ MaxAttempts[j] \in Nat /\ job[j].attemptCount \in Nat
  BY <1>1, CommitShape, RunStep, ConstantsAssumption
  DEF RunGoesOn, Works, Working, IInv, TypeOK, JobRow
<1>3. OthersKept(j)
  BY <1>1, <1>2, HolderKept DEF OthersKept
<1>4. \A q \in Runners \ {r} : Works(q) => runner[q].job # j
  BY <1>1, <1>2, HeldApart DEF Holds
<1>5. HolderOf(j)' = IF Works(r)' THEN r ELSE NoRunner
  <2>1. CASE Works(r)'
    BY <1>2, <2>1, HolderIsNext
  <2>2. CASE ~Works(r)'
    BY <1>2, <1>4, <2>2, HolderIsNext DEF Works
  <2>3. QED
    BY <2>1, <2>2
<1>6. CASE Opens(r)
  <2>1. /\ job[j].status \in {"queued", "retry_scheduled"} /\ job'[j].status = "running"
        /\ job[j].attemptCount < MaxAttempts[j]
        /\ job'[j].attemptCount = job[j].attemptCount + 1
    BY <1>1, <1>2, <1>6 DEF Opens, RowOk
  <2>2. Lifecycle!Start(j)
    BY <1>3, <1>5, <2>1 DEF Lifecycle!Start, OthersKept, PhaseOf
  <2>3. QED
    BY <2>2
<1>7. ASSUME Works(r) PROVE HolderOf(j) = r /\ r # NoRunner
  BY <1>1, <1>7, HolderIs, ConstantsAssumption
<1>8. CASE Succeeds(r)
  <2>1. /\ Works(r) /\ job'[j].status = "succeeded"
        /\ job'[j].attemptCount = job[j].attemptCount
    BY <1>1, <1>8 DEF Succeeds
  <2>2. Lifecycle!Succeed(j)
    BY <1>3, <1>5, <1>7, <2>1 DEF Lifecycle!Succeed, OthersKept, PhaseOf
  <2>3. QED
    BY <2>2
<1>9. CASE Reschedules(r) \/ Buries(r)
  <2>1. /\ Works(r) /\ job'[j].attemptCount = job[j].attemptCount
        /\ \/ job'[j].status = "retry_scheduled" /\ job[j].attemptCount < MaxAttempts[j]
           \/ job'[j].status = "dead_lettered"
    BY <1>1, <1>9 DEF Reschedules, Buries, ClosesAs, RetryAllowed
  <2>2. ~Works(r)'
    BY <1>2, <2>1 DEF IInv, RunOk
  <2>3. Lifecycle!Fail(j)
    BY <1>3, <1>5, <1>7, <2>1, <2>2 DEF Lifecycle!Fail, OthersKept, PhaseOf
  <2>4. QED
    BY <2>3
<1>10. QED
  BY <1>6, <1>8, <1>9, CommitShape

LEMMA LifecycleNext ==
  IInv /\ IInv' /\ [Next]_vars => [Lifecycle!Next]_(Lifecycle!lifecycleVars)
<1> SUFFICES ASSUME IInv, IInv', [Next]_vars
             PROVE  Lifecycle!Next \/ UNCHANGED Lifecycle!lifecycleVars
  OBVIOUS
<1>1. CASE UNCHANGED vars \/ AcceptRawEvent \/ Tick
  <2>1. job' = job /\ runner' = runner
    BY <1>1 DEF vars, tables, AcceptRawEvent, Tick
  <2>2. \A j \in Jobs : HolderOf(j)' = HolderOf(j)
    BY <2>1 DEF HolderOf, Works
  <2>3. QED
    BY <2>1, <2>2, LifecycleStutter
<1>2. ASSUME NEW j \in Jobs, Enqueue(j) PROVE Lifecycle!Next
  BY <1>2, LifecycleSubmit DEF Lifecycle!Next
<1>3. ASSUME NEW r \in Runners, Prepare(r) PROVE UNCHANGED Lifecycle!lifecycleVars
  <2>1. /\ \A q \in Runners \ {r} : runner'[q] = runner[q]
        /\ job' = job /\ ~Works(r) /\ ~Works(r)'
    BY <1>3, PrepareMoves DEF OnlyMoves, tables, Works, Working, Preparing
  <2>2. \A j \in Jobs : HolderOf(j)' = HolderOf(j)
    BY <2>1, HolderKept
  <2>3. QED
    BY <2>1, <2>2, LifecycleStutter
<1>4. ASSUME NEW r \in Runners, StepOf(r)
      PROVE  Lifecycle!Next \/ UNCHANGED Lifecycle!lifecycleVars
  <2>1. CASE UNCHANGED tables \/ Checkpoints(r)
    BY <1>4, <2>1, LifecycleControl DEF Lifecycle!Next, tables, Checkpoints
  <2>2. CASE Commits(r) /\ ~Checkpoints(r)
    BY <1>4, <2>2, LifecycleCommit DEF Lifecycle!Next
  <2>3. QED
    BY <1>4, <2>1, <2>2, TablesStep
<1>5. QED
  BY <1>1, <1>2, <1>3, <1>4 DEF Next, StepOf

\* The repository and its runners implement the abstract job lifecycle: at most max_attempts
\* starts, one holder at a time, and only the holder settles a job.
THEOREM LifecycleImplemented == Spec => ImplementsLifecycle
<1>1. Init => Lifecycle!Init
  BY LifecycleInit
<1>2. IInv /\ IInv' /\ [Next]_vars => [Lifecycle!Next]_(Lifecycle!lifecycleVars)
  BY LifecycleNext
<1>3. QED
  BY <1>1, <1>2, InvariantHolds, PTL DEF Spec, ImplementsLifecycle, Lifecycle!Spec

-------------------------------------------------------------------------------
(* One runner at a time.  Two runs that overlap on a scope may write their *)
(* outputs and their checkpoints in opposite orders; a sole runner that    *)
(* reads the raw events reads them after everything before it was written. *)

SoleRunner == \A r, q \in Runners : r = q

StoreInv ==
  /\ \A s \in Scopes : /\ store[s] <= events
                       /\ FromEvents(s) => checkpoint[s].watermark <= store[s]
  /\ \A r \in Runners :
       /\ runner[r].step \notin {"returned", "reading"} /\ runner[r].kind \notin Derived =>
            \A s \in Scopes : FromEvents(s) => checkpoint[s].watermark <= runner[r].seen
       /\ runner[r].step \in {"checkpoint", "recheckpoint"} =>
            store[ScopeOfRun(r)] = runner[r].seen

LEMMA InitStore == Init => StoreInv
  BY DEF Init, StoreInv, NoCheckpoint, NoWatermark, AtRest

\* A run touches the store in its write step only, and reaches its checkpoint with the store
\* as it has written it.
LEMMA StoreOfStep ==
  ASSUME IInv, NEW r \in Runners, StepOf(r)
  PROVE  /\ \/ UNCHANGED store
            \/ /\ runner[r].step = "write" /\ UNCHANGED checkpoint
               /\ store' = [store EXCEPT ![ScopeOfRun(r)] = runner[r].seen]
         /\ runner'[r].step \in {"checkpoint", "recheckpoint"} =>
              \/ /\ runner[r].step = "write"
                 /\ store' = [store EXCEPT ![ScopeOfRun(r)] = runner[r].seen]
              \/ runner[r].step = "checkpoint" /\ UNCHANGED store
<1>1. store \in [Scopes -> Int]
  BY DEF IInv, TypeOK
<1>2. CASE WriteOutput(r)
  BY <1>2 DEF WriteOutput, tables
<1>3. CASE BuildOrWriteFails(r)
  <2>1. PICK retryable \in BOOLEAN : Catch(r, retryable)
    BY <1>3 DEF BuildOrWriteFails
  <2>2. runner'[r].step = "catch"
    BY <2>1, CatchMoves
  <2>3. runner[r].step = "write" /\ UNCHANGED checkpoint
    BY <1>3 DEF BuildOrWriteFails, tables
  <2>4. PICK written \in {store[ScopeOfRun(r)], runner[r].seen} :
          store' = [store EXCEPT ![ScopeOfRun(r)] = written]
    BY <1>3 DEF BuildOrWriteFails
  <2>5. UNCHANGED store \/ store' = [store EXCEPT ![ScopeOfRun(r)] = runner[r].seen]
    BY <1>1, <2>4
  <2>6. QED
    BY <2>2, <2>3, <2>5
<1>4. CASE Checkpoint(r) \/ CompleteCheckpoint(r)
  BY <1>4, GotoMoves DEF Checkpoint, CompleteCheckpoint, Step, Working
<1>5. CASE StatementFails(r) \/ AckLost(r)
  <2>1. Catch(r, TRUE) /\ UNCHANGED store
    BY <1>5 DEF StatementFails, AckLost
  <2>2. QED
    BY <2>1, CatchMoves
<1>6. CASE SelectJob(r) \/ Claim(r)
  BY <1>6 DEF SelectJob, Claim, IInv, TypeOK, RunnerState
<1>7. CASE ClaimNothing(r) \/ ClaimFails(r) \/ ClaimAckLost(r) \/ FailureUnrecorded(r)
           \/ Crash(r) \/ Complete(r) \/ Retry(r) \/ DeadLetter(r) \/ FailureAckLost(r)
  BY <1>7, ReturnMoves, ThrowMoves
  DEF ClaimNothing, ClaimFails, ClaimAckLost, FailureUnrecorded, Crash, Complete, Retry,
      DeadLetter, FailureAckLost, RunStatus
<1>8. QED
  BY <1>2, <1>3, <1>4, <1>5, <1>6, <1>7 DEF StepOf, Continue, GoWrong

\* Checkpoints are committed by the two checkpoint statements only.
LEMMA CheckpointOfStep ==
  ASSUME IInv, NEW r \in Runners, StepOf(r)
  PROVE  \/ UNCHANGED checkpoint
         \/ /\ runner[r].step \in {"checkpoint", "recheckpoint"} /\ UNCHANGED store
            /\ \A s \in Scopes : checkpoint'[s].watermark =
                 IF s = ScopeOfRun(r) THEN runner[r].seen ELSE checkpoint[s].watermark
<1>1. checkpoint \in [Scopes -> CheckpointRow]
  BY DEF IInv, TypeOK
<1>2. ASSUME CheckpointOfRun(r)
      PROVE  \A s \in Scopes : checkpoint'[s].watermark =
               IF s = ScopeOfRun(r) THEN runner[r].seen ELSE checkpoint[s].watermark
  BY <1>1, <1>2 DEF CheckpointOfRun, CommitCheckpoint, ScopeOfRun
<1>3. CASE Checkpoint(r) \/ CompleteCheckpoint(r) \/ AckLost(r)
  BY <1>2, <1>3 DEF Checkpoint, CompleteCheckpoint, AckLost, CompleteOfRun, CommitComplete
<1>4. CASE ~(Checkpoint(r) \/ CompleteCheckpoint(r) \/ AckLost(r))
  BY <1>4
  DEF StepOf, Continue, GoWrong, SelectJob, ClaimNothing, Claim, WriteOutput, Complete, Retry,
      DeadLetter, FailureUnrecorded, ClaimFails, ClaimAckLost, BuildOrWriteFails,
      StatementFails, FailureAckLost, Crash, tables, ClaimRow, CompleteOfRun, CommitComplete,
      RetryOfRun, CommitRetry, DeadLetterOfRun, CommitDeadLetter
<1>5. QED
  BY <1>3, <1>4

\* Scopes fed by the raw events only move forward.
Advances == \A s \in Scopes : FromEvents(s) => checkpoint'[s].watermark >= checkpoint[s].watermark

LEMMA StoreStep ==
  ASSUME SoleRunner, IInv, FreshInv, StoreInv, NEW r \in Runners, StepOf(r)
  PROVE  StoreInv' /\ Advances
<1>1. /\ store \in [Scopes -> Int] /\ \A s \in Scopes : checkpoint[s].watermark \in Int
      /\ runner[r].seen \in Nat /\ events \in Nat /\ runner[r].step # "returned"
  BY FreshTypes
  DEF IInv, TypeOK, StepOf, Continue, GoWrong, SelectJob, ClaimNothing, Claim, WriteOutput,
      Checkpoint, CompleteCheckpoint, Complete, Retry, DeadLetter, FailureUnrecorded,
      ClaimFails, ClaimAckLost, BuildOrWriteFails, StatementFails, AckLost, FailureAckLost,
      Crash
<1>2. /\ UNCHANGED events /\ \A q \in Runners : q = r
      /\ runner'[r].step = "returned" \/ RunGoesOn(r)
  BY RunStep DEF SoleRunner, environment
<1>3. /\ runner[r].seen <= events
      /\ runner[r].step # "reading" /\ runner[r].kind \notin Derived =>
           \A s \in Scopes : FromEvents(s) => checkpoint[s].watermark <= runner[r].seen
      /\ \A s \in Scopes : /\ store[s] <= events
                           /\ FromEvents(s) => checkpoint[s].watermark <= store[s]
  BY <1>1 DEF FreshInv, RunIsFresh, StoreInv
<1>4. ASSUME runner[r].step \in {"write", "checkpoint", "recheckpoint"}
      PROVE  ScopeOfRun(r) \in Scopes /\ KindOf[ScopeOfRun(r)] = runner[r].kind
  <2>1. Holds(r)
    BY <1>4 DEF Holds, Works, Working
  <2>2. QED
    BY <2>1, ConstantsAssumption DEF FreshInv, RunIsFresh, ScopeOfRun, IInv, RunOk, Holds
<1>5. ASSUME NEW s \in Scopes
      PROVE  \/ store'[s] = store[s]
             \/ /\ store'[s] = runner[r].seen /\ KindOf[s] = runner[r].kind
                /\ runner[r].step = "write" /\ UNCHANGED checkpoint
  BY <1>1, <1>4, StoreOfStep
<1>6. ASSUME NEW s \in Scopes
      PROVE  \/ checkpoint'[s].watermark = checkpoint[s].watermark
             \/ /\ checkpoint'[s].watermark = runner[r].seen /\ KindOf[s] = runner[r].kind
                /\ runner[r].step # "reading"
                /\ UNCHANGED store /\ store[s] = runner[r].seen
  BY <1>4, CheckpointOfStep DEF StoreInv
<1>7. ASSUME NEW s \in Scopes
      PROVE  /\ store'[s] <= events'
             /\ FromEvents(s) => /\ checkpoint'[s].watermark <= store'[s]
                                 /\ checkpoint'[s].watermark >= checkpoint[s].watermark
  <2>1. store'[s] <= events'
    BY <1>2, <1>3, <1>5
  <2>2. ASSUME FromEvents(s)
        PROVE  /\ checkpoint'[s].watermark <= store'[s]
               /\ checkpoint'[s].watermark >= checkpoint[s].watermark
    <3>1. runner[r].step # "reading" /\ KindOf[s] = runner[r].kind =>
            checkpoint[s].watermark <= runner[r].seen
      BY <1>3, <2>2 DEF FromEvents
    <3>2. CASE checkpoint'[s].watermark = checkpoint[s].watermark
      BY <1>1, <1>3, <1>5, <2>2, <3>1, <3>2
    <3>3. CASE checkpoint'[s].watermark # checkpoint[s].watermark
      BY <1>1, <1>3, <1>6, <2>2, <3>1, <3>3
    <3>4. QED
      BY <3>2, <3>3
  <2>3. QED
    BY <2>1, <2>2
<1>8. ASSUME runner'[r].step # "returned", runner'[r].kind \notin Derived,
             NEW s \in Scopes, FromEvents(s)
      PROVE  checkpoint'[s].watermark <= runner'[r].seen
  <2>1. /\ runner'[r].seen = runner[r].seen /\ runner'[r].kind = runner[r].kind
        /\ runner[r].step # "reading"
    BY <1>2, <1>8 DEF RunGoesOn, Holds, Works, Working
  <2>2. QED
    BY <1>1, <1>3, <1>6, <1>8, <2>1
<1>9. runner'[r].step \in {"checkpoint", "recheckpoint"} =>
        store'[ScopeOfRun(r)'] = runner'[r].seen
  <2> SUFFICES ASSUME runner'[r].step \in {"checkpoint", "recheckpoint"}
               PROVE  store'[ScopeOfRun(r)'] = runner'[r].seen
    OBVIOUS
  <2>1. /\ runner'[r].seen = runner[r].seen /\ ScopeOfRun(r)' = ScopeOfRun(r)
    BY <1>2 DEF RunGoesOn, ScopeOfRun
  <2>2. QED
    BY <1>1, <1>4, <2>1, StoreOfStep DEF StoreInv
<1>10. QED
  BY <1>2, <1>7, <1>8, <1>9 DEF StoreInv, Advances, FromEvents

\* A process that takes its inputs reads the raw events after everything was written.
LEMMA StorePrepare ==
  ASSUME SoleRunner, IInv, FreshInv, StoreInv, NEW r \in Runners, Prepare(r)
  PROVE  StoreInv' /\ Advances
<1>1. /\ UNCHANGED <<checkpoint, store, events>> /\ \A q \in Runners : q = r
      /\ runner'[r].step \in Preparing \cup {"claim"}
      /\ \A s \in Scopes : checkpoint[s].watermark \in Int /\ store[s] \in Int
      /\ events \in Nat
  BY PrepareMoves, FreshTypes DEF SoleRunner, tables, environment, IInv, TypeOK
<1>2. ASSUME NEW k, k \notin Derived, NEW seen \in Inputs(k), NEW s \in Scopes, FromEvents(s)
      PROVE  checkpoint[s].watermark <= seen
  BY <1>1, <1>2 DEF StoreInv, Inputs
<1>3. ASSUME runner'[r].step # "reading", runner'[r].kind \notin Derived,
             NEW s \in Scopes, FromEvents(s)
      PROVE  checkpoint[s].watermark <= runner'[r].seen
  <2>1. \/ runner'[r].seen \in Inputs(runner'[r].kind)
        \/ /\ runner[r].step = "timing" /\ runner'[r].seen = runner[r].seen
           /\ runner'[r].kind = runner[r].kind
    BY <1>1, <1>3, PrepareMoves
  <2>2. QED
    BY <1>2, <1>3, <2>1 DEF StoreInv
<1>4. QED
  BY <1>1, <1>3 DEF StoreInv, Advances, FromEvents, Preparing

LEMMA StoreNext ==
  SoleRunner /\ IInv /\ FreshInv /\ StoreInv /\ [Next]_vars => StoreInv' /\ Advances
<1> SUFFICES ASSUME SoleRunner, IInv, FreshInv, StoreInv, [Next]_vars
             PROVE  StoreInv' /\ Advances
  OBVIOUS
<1>1. /\ \A s \in Scopes : checkpoint[s].watermark \in Int /\ store[s] \in Int
      /\ events \in Nat
  BY FreshTypes DEF IInv, TypeOK
<1>2. CASE UNCHANGED vars \/ AcceptRawEvent \/ Tick \/ \E j \in Jobs : Enqueue(j)
  <2>1. /\ UNCHANGED <<checkpoint, store, runner>> /\ events' \in Nat /\ events <= events'
    <3>1. CASE \E j \in Jobs : Enqueue(j)
      BY <1>1, <3>1 DEF environment, Enqueue
    <3>2. CASE UNCHANGED vars \/ AcceptRawEvent \/ Tick
      BY <1>1, <3>2 DEF vars, tables, environment, AcceptRawEvent, Tick
    <3>3. QED
      BY <1>2, <3>1, <3>2
  <2>2. QED
    BY <1>1, <2>1 DEF StoreInv, ScopeOfRun, Advances, FromEvents
<1>3. ASSUME NEW r \in Runners, Prepare(r) PROVE StoreInv' /\ Advances
  BY <1>3, StorePrepare
<1>4. ASSUME NEW r \in Runners, StepOf(r) PROVE StoreInv' /\ Advances
  BY <1>4, StoreStep
<1>5. QED
  BY <1>2, <1>3, <1>4 DEF Next, StepOf

\* With one runner at a time, what a checkpoint of a scope fed by the raw events promises is in
\* the output store.
THEOREM CheckpointsAreBacked == SoleRunner => (Spec => []CheckpointBackedByStore)
<1> SUFFICES ASSUME SoleRunner PROVE Spec => []CheckpointBackedByStore
  OBVIOUS
<1>1. Init => StoreInv
  BY InitStore
<1>2. (IInv /\ FreshInv) /\ StoreInv /\ [Next]_vars => StoreInv'
  BY StoreNext
<1>3. IInv /\ FreshInv /\ StoreInv => CheckpointBackedByStore
  <2> SUFFICES ASSUME IInv, StoreInv, NEW s \in Scopes, FromEvents(s)
               PROVE  store[s] >= checkpoint[s].watermark
    BY DEF CheckpointBackedByStore
  <2>1. store[s] \in Int /\ checkpoint[s].watermark \in Int
    BY FreshTypes DEF IInv, TypeOK
  <2>2. QED
    BY <2>1 DEF StoreInv
<1>4. QED
  BY <1>1, <1>2, <1>3, FreshHolds, PTL DEF Spec

\* With one runner at a time, the watermark of a scope fed by the raw events never moves
\* backwards.
THEOREM WatermarksAdvance == SoleRunner => (Spec => WatermarkNeverRegresses)
<1> SUFFICES ASSUME SoleRunner PROVE Spec => WatermarkNeverRegresses
  OBVIOUS
<1>1. Init => StoreInv
  BY InitStore
<1>2. (IInv /\ FreshInv) /\ StoreInv /\ [Next]_vars => StoreInv'
  BY StoreNext
<1>3. (IInv /\ FreshInv) /\ StoreInv /\ [Next]_vars =>
        [\A s \in Scopes : FromEvents(s) =>
           checkpoint'[s].watermark >= checkpoint[s].watermark]_vars
  BY StoreNext DEF Advances
<1>4. QED
  BY <1>1, <1>2, <1>3, FreshHolds, PTL DEF Spec, WatermarkNeverRegresses
===============================================================================
