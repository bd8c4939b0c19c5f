--------------------------- MODULE WorkerJobsProofs ---------------------------
(***************************************************************************)
(* Theorems about WorkerJobs, for every set of jobs, runners and scopes,   *)
(* every bound and every choice of faults.                                 *)
(*                                                                         *)
(* The argument: a job's rows agree with each other (RowOk), and a run     *)
(* that holds a job - it locked the row, or works on its last attempt -    *)
(* holds it alone and finds it as it left it (RunOk).  Neither survives a  *)
(* step without the other: no statement checks the status or the owner of  *)
(* a row, so a row stays sound only because no second run touches it, and  *)
(* no second run touches it because claim takes waiting rows only.         *)
(***************************************************************************)
EXTENDS WorkerJobs, SequenceTheorems, TLAPS

\* The rows of one job tell one story.
RowOk(j) ==
  /\ job[j].status \in {"absent", "queued"} <=> attempt[j] = <<>>
  /\ job[j].status = "running" =>
       LastAttempt(j).status \in {"started", "checkpointed"} /\ job[j].lockedBy \in Runners
  /\ \A s \in {"succeeded", "dead_lettered"} :
       job[j].status = s => LastAttempt(j).status = s
  /\ job[j].status = "retry_scheduled" => LastAttempt(j).status = "retryable_failed"
  /\ deadLetter[j] = IF job[j].status = "dead_lettered" THEN Len(attempt[j]) ELSE 0
  /\ Len(attempt[j]) = job[j].attemptCount
  /\ job[j].attemptCount <= MaxAttempts[j]
  /\ \A n \in 1..(Len(attempt[j]) - 1) : attempt[j][n].status = "retryable_failed"
  /\ job[j].status \in {"queued", "retry_scheduled"} =>
       /\ job[j].attemptCount < MaxAttempts[j]
       /\ job[j].lockedBy = NoRunner /\ job[j].lockedUntil = NoTime

\* A run holds its row alone and finds it as it left it.
RunOk(r) ==
  /\ runner[r].step = "lock" =>
       /\ runner[r].job \in Jobs
       /\ job[runner[r].job].status \in {"queued", "retry_scheduled"}
       /\ \A q \in Runners \ {r} : runner[q].step = "lock" => runner[q].job # runner[r].job
  /\ Works(r) =>
       /\ runner[r].job \in Jobs
       /\ \/ job[runner[r].job].status = "running" /\ job[runner[r].job].lockedBy = r
          \/ job[runner[r].job].status = "succeeded" /\ runner[r].step = "catch"
       /\ runner[r].attempt = job[runner[r].job].attemptCount
       /\ \A q \in Runners \ {r} : Works(q) => runner[q].job # runner[r].job

IInv ==
  /\ TypeOK
  /\ \A j \in Jobs : RowOk(j)
  /\ \A r \in Runners : RunOk(r)

\* A run that holds a job: it locked its row or works on it.
Holds(r) == runner[r].step = "lock" \/ Works(r)

-------------------------------------------------------------------------------

\* The inductive invariant contains the properties the runs check.
LEMMA InvariantImplies ==
  IInv <=> /\ TypeOK /\ ExclusiveAttempt /\ RunMatchesRow
           /\ RowsTellOneStory /\ AttemptsAccounted /\ WaitingIsClaimable
  BY DEF IInv, RowOk, RunOk, ExclusiveAttempt, RunMatchesRow, RowsTellOneStory,
         AttemptsAccounted, WaitingIsClaimable

\* A row at rest, a missing checkpoint and a run at rest have their types.
LEMMA RestTypes ==
  /\ AbsentJob \in JobRow
  /\ NoCheckpoint \in CheckpointRow
  /\ AtRest \in RunnerState
  BY ConstantsAssumption
  DEF AbsentJob, JobRow, JobStatus, NoTime, NoCheckpoint, CheckpointRow, NoWatermark, NoJob,
      AtRest, RunnerState, Step, Preparing, Working, RunStatus

\* The initial state satisfies the invariant.
LEMMA InitInvariant == Init => IInv
<1> SUFFICES ASSUME Init PROVE IInv
  OBVIOUS
<1>1. TypeOK
  <2>1. \A j \in Jobs : attempt[j] \in Seq(AttemptRow)
    BY DEF Init
  <2>2. attempt \in [Jobs -> Seq(AttemptRow)]
    BY <2>1 DEF Init
  <2>3. now \in 0..MaxTime /\ acceptedBy \in [0..MaxTime -> Nat] /\ events \in Nat
    BY ConstantsAssumption DEF Init
  <2>4. store \in [Scopes -> Int] /\ deadLetter \in [Jobs -> Nat]
    BY DEF Init, NoWatermark
  <2>5. QED
    BY <2>2, <2>3, <2>4, RestTypes DEF Init, TypeOK
<1>2. ASSUME NEW j \in Jobs PROVE RowOk(j)
  <2>1. attempt[j] = <<>> /\ job[j] = AbsentJob /\ deadLetter[j] = 0
    BY DEF Init
  <2>2. Len(attempt[j]) = 0
    BY <2>1
  <2>3. MaxAttempts[j] \in Nat
    BY ConstantsAssumption
  <2>4. job[j].status = "absent" /\ job[j].attemptCount = 0
    BY <2>1 DEF AbsentJob
  <2>5. QED
    BY <2>1, <2>2, <2>3, <2>4 DEF RowOk
<1>3. ASSUME NEW r \in Runners PROVE RunOk(r)
  <2>1. runner[r].step = "returned"
    BY DEF Init, AtRest
  <2>2. QED
    BY <2>1 DEF RunOk, Works, Working
<1>4. QED
  BY <1>1, <1>2, <1>3 DEF IInv

-------------------------------------------------------------------------------
(* Rows and runs a step leaves alone.                                      *)

\* A job whose rows do not change stays sound.
LEMMA RowKept ==
  ASSUME NEW j \in Jobs, RowOk(j),
         job'[j] = job[j], attempt'[j] = attempt[j], deadLetter'[j] = deadLetter[j]
  PROVE  RowOk(j)'
  BY DEF RowOk, LastAttempt

\* Two runs never hold the same job.
LEMMA HeldApart ==
  ASSUME IInv, NEW r \in Runners, NEW q \in Runners, q # r, Holds(r), Holds(q)
  PROVE  runner[q].job # runner[r].job
  BY DEF IInv, RunOk, Holds, Works, Working

\* A step of one run disturbs no other: the rows the others hold stay as they are, and it
\* takes none of them.
LEMMA OtherRunsKept ==
  ASSUME IInv, NEW r \in Runners,
         \A q \in Runners \ {r} : runner'[q] = runner[q],
         \A q \in Runners \ {r} : Holds(q) =>
           /\ job'[runner[q].job] = job[runner[q].job]
           /\ Holds(r)' => runner'[r].job # runner[q].job
  PROVE  \A q \in Runners \ {r} : RunOk(q)'
<1> SUFFICES ASSUME NEW q \in Runners \ {r} PROVE RunOk(q)'
  OBVIOUS
<1>1. RunOk(q) /\ runner'[q] = runner[q]
  BY DEF IInv
<1>2. CASE ~Holds(q)
  BY <1>1, <1>2 DEF RunOk, Holds, Works
<1>3. CASE Holds(q)
  <2>1. job'[runner[q].job] = job[runner[q].job]
    BY <1>3
  <2>2. ASSUME NEW p \in Runners \ {q}, Holds(p)'
        PROVE  runner'[p].job # runner'[q].job
    <3>1. CASE p = r
      BY <3>1, <1>1, <1>3, <2>2
    <3>2. CASE p # r
      BY <3>2, <1>1, <1>3, <2>2, HeldApart DEF Holds, Works
    <3>3. QED
      BY <3>1, <3>2
  <2>3. QED
    BY <1>1, <1>3, <2>1, <2>2 DEF RunOk, Holds, Works, Working
<1>4. QED
  BY <1>2, <1>3

-------------------------------------------------------------------------------
(* What each committed statement does to the rows of its job.              *)

TablesTyped ==
  /\ job \in [Jobs -> JobRow]
  /\ attempt \in [Jobs -> Seq(AttemptRow)]
  /\ deadLetter \in [Jobs -> Nat]
  /\ checkpoint \in [Scopes -> CheckpointRow]

\* claim on a locked row starts the job's next attempt.
LEMMA ClaimEffect ==
  ASSUME IInv, NEW r \in Runners, NEW j \in Jobs,
         runner[r].step = "lock", runner[r].job = j, ClaimRow(j, r)
  PROVE  /\ TablesTyped'
         /\ \A k \in Jobs : RowOk(k)'
         /\ \A k \in Jobs \ {j} : job'[k] = job[k]
         /\ job'[j].status = "running"
         /\ job'[j].lockedBy = r
         /\ job'[j].attemptCount = job[j].attemptCount + 1
<1> DEFINE row == [status |-> "started", watermark |-> NoWatermark, startedAt |-> runner[r].now]
<1>1. /\ RowOk(j)
      /\ job[j].status \in {"queued", "retry_scheduled"}
      /\ job \in [Jobs -> JobRow] /\ attempt \in [Jobs -> Seq(AttemptRow)]
      /\ deadLetter' = deadLetter /\ checkpoint' = checkpoint
      /\ runner \in [Runners -> RunnerState]
  BY DEF IInv, RunOk, TypeOK, ClaimRow
<1>2. row \in AttemptRow
  <2>1. runner[r].now \in Int
    BY <1>1 DEF RunnerState
  <2>2. QED
    BY <2>1 DEF AttemptRow, AttemptStatus, NoWatermark
<1>3. attempt'[j] = Append(attempt[j], row) /\ attempt' = [attempt EXCEPT ![j] = attempt'[j]]
  BY <1>1 DEF ClaimRow
<1>4. /\ attempt'[j] \in Seq(AttemptRow)
      /\ attempt'[j] # <<>>
      /\ Len(attempt'[j]) = Len(attempt[j]) + 1
      /\ \A n \in 1..Len(attempt[j]) : attempt'[j][n] = attempt[j][n]
      /\ attempt'[j][Len(attempt[j]) + 1] = row
  BY <1>1, <1>2, <1>3, AppendProperties
<1>5. /\ job' \in [Jobs -> JobRow]
      /\ job'[j].status = "running" /\ job'[j].lockedBy = r
      /\ job'[j].attemptCount = job[j].attemptCount + 1
      /\ \A k \in Jobs \ {j} : job'[k] = job[k]
  <2>1. job[j] \in JobRow /\ runner[r].now \in Int /\ Lease \in Int
    BY <1>1, ConstantsAssumption DEF RunnerState
  <2>2. job' = [job EXCEPT ![j] = [job[j] EXCEPT !.status = "running", !.lockedBy = r,
                  !.lockedUntil = runner[r].now + Lease, !.attemptCount = @ + 1]]
    BY DEF ClaimRow
  <2>3. job'[j] = [job[j] EXCEPT !.status = "running", !.lockedBy = r,
                     !.lockedUntil = runner[r].now + Lease, !.attemptCount = @ + 1]
    BY <1>1, <2>2
  <2>4. job'[j] \in JobRow /\ job'[j].status = "running" /\ job'[j].lockedBy = r
        /\ job'[j].attemptCount = job[j].attemptCount + 1
    <3>1. job[j].attemptCount \in Nat /\ job[j].nextRunAt \in Int /\ job[j].createdAt \in Int
      BY <2>1 DEF JobRow
    <3>2. job'[j] = [status |-> "running", attemptCount |-> job[j].attemptCount + 1,
                     lockedBy |-> r, lockedUntil |-> runner[r].now + Lease,
                     nextRunAt |-> job[j].nextRunAt, createdAt |-> job[j].createdAt]
      BY <2>1, <2>3 DEF JobRow
    <3>3. QED
      BY <2>1, <3>1, <3>2 DEF JobRow, JobStatus
  <2>5. \A k \in Jobs \ {j} : job'[k] = job[k]
    BY <1>1, <2>2
  <2>6. job' = [job EXCEPT ![j] = job'[j]]
    BY <2>2, <2>3
  <2>7. job' \in [Jobs -> JobRow]
    BY <1>1, <2>4, <2>6
  <2>8. QED
    BY <2>4, <2>5, <2>7
<1>6. attempt' \in [Jobs -> Seq(AttemptRow)] /\ \A k \in Jobs \ {j} : attempt'[k] = attempt[k]
  BY <1>1, <1>3, <1>4
<1>7. RowOk(j)'
  <2>1. /\ Len(attempt[j]) \in Nat /\ Len(attempt[j]) = job[j].attemptCount
        /\ job[j].attemptCount < MaxAttempts[j] /\ MaxAttempts[j] \in Nat
        /\ deadLetter[j] = 0
    BY <1>1, ConstantsAssumption DEF RowOk
  <2>2. \A n \in 1..Len(attempt[j]) : attempt[j][n].status = "retryable_failed"
    <3>1. CASE job[j].status = "queued"
      BY <3>1, <1>1, <2>1 DEF RowOk
    <3>2. CASE job[j].status = "retry_scheduled"
      BY <3>2, <1>1, <2>1 DEF RowOk, LastAttempt
    <3>3. QED
      BY <3>1, <3>2, <1>1
  <2>3. LastAttempt(j)' = row
    BY <1>4, <2>1 DEF LastAttempt
  <2>4. \A n \in 1..(Len(attempt'[j]) - 1) : attempt'[j][n].status = "retryable_failed"
    <3>1. Len(attempt'[j]) - 1 = Len(attempt[j])
      BY <1>4, <2>1
    <3>2. QED
      BY <1>4, <2>2, <3>1
  <2>5. QED
    BY <1>1, <1>4, <1>5, <2>1, <2>3, <2>4 DEF RowOk
<1>8. \A k \in Jobs \ {j} : RowOk(k)'
  BY <1>1, <1>5, <1>6, RowKept DEF IInv
<1>9. TablesTyped'
  BY <1>1, <1>5, <1>6 DEF TablesTyped, IInv, TypeOK
<1>10. ASSUME NEW k \in Jobs PROVE RowOk(k)'
  <2>1. CASE k = j
    BY <2>1, <1>7
  <2>2. CASE k # j
    BY <2>2, <1>8
  <2>3. QED
    BY <2>1, <2>2
<1>11. QED
  BY <1>5, <1>9, <1>10

\* Where a working run finds its attempt.
LEMMA WorkingRow ==
  ASSUME IInv, NEW r \in Runners, Works(r)
  PROVE  LET j == runner[r].job IN
         /\ j \in Jobs /\ RowOk(j)
         /\ job[j].status \in {"running", "succeeded"}
         /\ runner[r].step # "catch" => job[j].status = "running" /\ job[j].lockedBy = r
         /\ runner[r].attempt = Len(attempt[j])
         /\ runner[r].attempt \in 1..Len(attempt[j])
         /\ runner[r].attempt <= MaxAttempts[j]
         /\ runner[r].attempt = job[j].attemptCount
<1> DEFINE j == runner[r].job
<1>1. /\ j \in Jobs /\ RowOk(j)
      /\ job[j].status \in {"running", "succeeded"}
      /\ runner[r].step # "catch" => job[j].status = "running" /\ job[j].lockedBy = r
      /\ runner[r].attempt = job[j].attemptCount
  BY DEF IInv, RunOk
<1>2. attempt[j] \in Seq(AttemptRow) /\ attempt[j] # <<>>
  BY <1>1 DEF IInv, TypeOK, RowOk
<1>3. Len(attempt[j]) \in Nat /\ Len(attempt[j]) # 0
  BY <1>2, EmptySeq
<1>4. Len(attempt[j]) = job[j].attemptCount /\ job[j].attemptCount <= MaxAttempts[j]
  BY <1>1 DEF RowOk
<1>5. QED
  BY <1>1, <1>3, <1>4

\* A statement that touches the rows of job j and its attempt a only.
RowsBecome(j, a, new, row, dead) ==
  /\ job' = [job EXCEPT ![j] = new]
  /\ attempt' = [attempt EXCEPT ![j][a] = row]
  /\ deadLetter' = [deadLetter EXCEPT ![j] = dead]

\* The job row, the attempt row and the dead-letter row it leaves agree.
RowsAgree(j, a, new, row, dead) ==
  /\ new.attemptCount = job[j].attemptCount
  /\ new.status \in {"running", "succeeded", "retry_scheduled", "dead_lettered"}
  /\ new.status = "running" =>
       row.status \in {"started", "checkpointed"} /\ new.lockedBy \in Runners
  /\ \A s \in {"succeeded", "dead_lettered"} : new.status = s => row.status = s
  /\ new.status = "retry_scheduled" =>
       /\ row.status = "retryable_failed"
       /\ new.attemptCount < MaxAttempts[j]
       /\ new.lockedBy = NoRunner /\ new.lockedUntil = NoTime
  /\ dead = IF new.status = "dead_lettered" THEN a ELSE 0

\* A statement of a working run keeps every row sound when the rows it leaves agree.
LEMMA WorkEffect ==
  ASSUME IInv, NEW r \in Runners, Works(r),
         NEW j \in Jobs, NEW a \in Nat, runner[r].job = j, runner[r].attempt = a,
         NEW row \in AttemptRow, NEW new \in JobRow, NEW dead \in Nat,
         RowsBecome(j, a, new, row, dead), RowsAgree(j, a, new, row, dead)
  PROVE  /\ job' \in [Jobs -> JobRow]
         /\ attempt' \in [Jobs -> Seq(AttemptRow)]
         /\ deadLetter' \in [Jobs -> Nat]
         /\ \A k \in Jobs : RowOk(k)'
         /\ job'[j] = new
         /\ \A k \in Jobs \ {j} : job'[k] = job[k]
<1>1. /\ RowOk(j) /\ a = Len(attempt[j]) /\ a \in 1..Len(attempt[j])
      /\ TypeOK
  BY WorkingRow DEF IInv
<1>2. /\ attempt' \in [Jobs -> Seq(AttemptRow)]
      /\ Len(attempt'[j]) = Len(attempt[j])
      /\ attempt'[j][a] = row
      /\ \A n \in 1..Len(attempt[j]) : n # a => attempt'[j][n] = attempt[j][n]
      /\ \A k \in Jobs \ {j} : attempt'[k] = attempt[k]
  <2>1. attempt \in [Jobs -> Seq(AttemptRow)]
    BY <1>1 DEF TypeOK
  <2>2. attempt'[j] = [attempt[j] EXCEPT ![a] = row]
    BY <2>1 DEF RowsBecome
  <2>3. /\ attempt'[j] \in Seq(AttemptRow)
        /\ Len(attempt'[j]) = Len(attempt[j])
        /\ \A n \in 1..Len(attempt[j]) : attempt'[j][n] = IF n = a THEN row ELSE attempt[j][n]
    BY <1>1, <2>1, <2>2, ExceptSeq
  <2>4. \A k \in Jobs \ {j} : attempt'[k] = attempt[k]
    BY <2>1 DEF RowsBecome
  <2>5. attempt' = [attempt EXCEPT ![j] = attempt'[j]]
    BY <2>1, <2>2 DEF RowsBecome
  <2>6. attempt' \in [Jobs -> Seq(AttemptRow)]
    BY <2>1, <2>3, <2>5
  <2>7. QED
    BY <1>1, <2>3, <2>4, <2>6
<1>3. /\ job' \in [Jobs -> JobRow] /\ job'[j] = new
      /\ deadLetter' \in [Jobs -> Nat] /\ deadLetter'[j] = dead
      /\ \A k \in Jobs \ {j} : job'[k] = job[k] /\ deadLetter'[k] = deadLetter[k]
  BY <1>1 DEF TypeOK, RowsBecome
<1>4. RowOk(j)'
  <2>1. LastAttempt(j)' = row
    BY <1>1, <1>2 DEF LastAttempt
  <2>2. attempt'[j] # <<>>
    BY <1>1, <1>2
  <2>3. \A n \in 1..(Len(attempt'[j]) - 1) : attempt'[j][n].status = "retryable_failed"
    BY <1>1, <1>2 DEF RowOk
  <2>4. Len(attempt'[j]) = new.attemptCount /\ new.attemptCount <= MaxAttempts[j]
    BY <1>1, <1>2 DEF RowOk, RowsAgree
  <2>5. QED
    BY <1>1, <1>2, <1>3, <2>1, <2>2, <2>3, <2>4 DEF RowOk, RowsAgree
<1>5. \A k \in Jobs \ {j} : RowOk(k)'
  BY <1>2, <1>3, RowKept DEF IInv
<1>6. QED
  BY <1>2, <1>3, <1>4, <1>5

\* A job row whose lock is released.
ReleasedRow(row, status, at) ==
  [status |-> status, attemptCount |-> row.attemptCount, lockedBy |-> NoRunner,
   lockedUntil |-> NoTime, nextRunAt |-> at, createdAt |-> row.createdAt]

LEMMA ReleasedRowTyped ==
  ASSUME NEW row \in JobRow, NEW at \in Int,
         NEW status \in {"succeeded", "retry_scheduled", "dead_lettered"}
  PROVE  LET new == ReleasedRow(row, status, at) IN
         /\ new \in JobRow /\ new.status = status
         /\ new.attemptCount = row.attemptCount
         /\ new.lockedBy = NoRunner /\ new.lockedUntil = NoTime
  BY DEF ReleasedRow, JobRow, JobStatus, NoTime

\* What complete, deadLetter and retry make of a job row.
LEMMA ReleasedRowWritten ==
  ASSUME NEW row \in JobRow, NEW at \in Int,
         NEW status \in {"succeeded", "retry_scheduled", "dead_lettered"}
  PROVE  /\ [row EXCEPT !.status = status, !.lockedBy = NoRunner, !.lockedUntil = NoTime]
              = ReleasedRow(row, status, row.nextRunAt)
         /\ [row EXCEPT !.status = status, !.lockedBy = NoRunner, !.lockedUntil = NoTime,
                        !.nextRunAt = at]
              = ReleasedRow(row, status, at)
<1>1. ASSUME NEW new,
             new = [row EXCEPT !.status = status, !.lockedBy = NoRunner, !.lockedUntil = NoTime]
      PROVE  new = ReleasedRow(row, status, row.nextRunAt)
  BY <1>1 DEF ReleasedRow, JobRow
<1>2. ASSUME NEW new,
             new = [row EXCEPT !.status = status, !.lockedBy = NoRunner, !.lockedUntil = NoTime,
                               !.nextRunAt = at]
      PROVE  new = ReleasedRow(row, status, at)
  BY <1>2 DEF ReleasedRow, JobRow
<1>3. QED
  BY <1>1, <1>2

\* Every row of a working run, with its types.
LEMMA WorkingTypes ==
  ASSUME IInv, NEW r \in Runners, Works(r)
  PROVE  LET j == runner[r].job
             a == runner[r].attempt IN
         /\ j \in Jobs /\ a \in Nat /\ a \in 1..MaxAttempts[j]
         /\ job[j] \in JobRow /\ attempt[j][a] \in AttemptRow
         /\ job[j].status \in {"running", "succeeded"} /\ deadLetter[j] = 0
         /\ job[j].attemptCount = a
         /\ runner[r].seen \in Nat /\ runner[r].now \in Int
<1> DEFINE j == runner[r].job
           a == runner[r].attempt
<1>1. /\ j \in Jobs /\ RowOk(j) /\ job[j].status \in {"running", "succeeded"}
      /\ a \in 1..Len(attempt[j]) /\ a <= MaxAttempts[j] /\ a = job[j].attemptCount
  BY WorkingRow
<1>2. /\ job[j] \in JobRow /\ attempt[j] \in Seq(AttemptRow) /\ runner[r] \in RunnerState
  BY <1>1 DEF IInv, TypeOK
<1>3. attempt[j][a] \in AttemptRow
  BY <1>1, <1>2, ElementOfSeq
<1>4. a \in Nat /\ runner[r].seen \in Nat /\ runner[r].now \in Int
  BY <1>2, ConstantsAssumption DEF RunnerState
<1>5. deadLetter[j] = 0
  BY <1>1 DEF RowOk
<1>6. a \in 1..MaxAttempts[j]
  BY <1>1, ConstantsAssumption
<1>7. QED
  BY <1>1, <1>2, <1>3, <1>4, <1>5, <1>6

\* An attempt row as checkpoint and complete leave it.
WrittenRow(row, status, watermark) ==
  [status |-> status, watermark |-> watermark, startedAt |-> row.startedAt]

LEMMA AttemptRowWritten ==
  ASSUME NEW row \in AttemptRow, NEW status \in AttemptStatus, NEW watermark \in Int
  PROVE  /\ [row EXCEPT !.status = status, !.watermark = watermark]
              = WrittenRow(row, status, watermark)
         /\ WrittenRow(row, status, watermark) \in AttemptRow
<1>1. ASSUME NEW new, new = [row EXCEPT !.status = status, !.watermark = watermark]
      PROVE  new = WrittenRow(row, status, watermark)
  BY <1>1 DEF WrittenRow, AttemptRow
<1>2. QED
  BY <1>1 DEF WrittenRow, AttemptRow

\* A checkpoint leaves the job row as it is.
LEMMA CheckpointEffect ==
  ASSUME IInv, NEW r \in Runners, Works(r), runner[r].step # "catch", CheckpointOfRun(r)
  PROVE  TablesTyped' /\ (\A k \in Jobs : RowOk(k)') /\ job' = job
<1> DEFINE j == runner[r].job
           a == runner[r].attempt
           row == WrittenRow(attempt[j][a], "checkpointed", runner[r].seen)
<1>1. /\ j \in Jobs /\ a \in Nat /\ job[j] \in JobRow /\ attempt[j][a] \in AttemptRow
      /\ runner[r].seen \in Int /\ runner[r].now \in Int
      /\ job[j].status = "running" /\ job[j].lockedBy = r
      /\ job[j].attemptCount = a /\ deadLetter[j] = 0
  BY WorkingTypes, WorkingRow
<1>3. row \in AttemptRow /\ row.status = "checkpointed"
  BY <1>1, AttemptRowWritten DEF AttemptStatus, WrittenRow
<1>0. row = [attempt[j][a] EXCEPT !.status = "checkpointed", !.watermark = runner[r].seen]
  BY <1>1, AttemptRowWritten DEF AttemptStatus
<1>2. /\ attempt' = [attempt EXCEPT ![j][a] = row]
      /\ checkpoint' = [checkpoint EXCEPT ![ScopeOf[j]] =
           [watermark |-> runner[r].seen, jobId |-> j, attemptId |-> a,
            committedAt |-> runner[r].now]]
      /\ job' = job /\ deadLetter' = deadLetter
  <2> HIDE DEF row
  <2>1. QED
    BY <1>0 DEF CheckpointOfRun, CommitCheckpoint
<1>4. job' = [job EXCEPT ![j] = job[j]] /\ deadLetter' = [deadLetter EXCEPT ![j] = 0]
  BY <1>1, <1>2 DEF IInv, TypeOK
<1>5. RowsBecome(j, a, job[j], row, 0) /\ RowsAgree(j, a, job[j], row, 0)
  <2> HIDE DEF row
  <2>1. QED
    BY <1>1, <1>2, <1>3, <1>4 DEF RowsBecome, RowsAgree
<1>6. /\ job' \in [Jobs -> JobRow] /\ attempt' \in [Jobs -> Seq(AttemptRow)]
      /\ deadLetter' \in [Jobs -> Nat] /\ \A k \in Jobs : RowOk(k)'
  <2> HIDE DEF j, a, row
  <2>1. runner[r].job = j /\ runner[r].attempt = a
    BY DEF j, a
  <2>2. j \in Jobs /\ a \in Nat /\ row \in AttemptRow /\ job[j] \in JobRow /\ 0 \in Nat
    BY <1>1, <1>3
  <2>3. QED
    BY <1>5, <2>1, <2>2, WorkEffect
<1>7. checkpoint' \in [Scopes -> CheckpointRow]
  BY <1>1, <1>2, ConstantsAssumption DEF IInv, TypeOK, CheckpointRow
<1>8. QED
  BY <1>2, <1>6, <1>7 DEF TablesTyped

\* The last statement of complete closes the job and its attempt as succeeded.
LEMMA CompleteEffect ==
  ASSUME IInv, NEW r \in Runners, Works(r), runner[r].step # "catch", CompleteOfRun(r)
  PROVE  /\ TablesTyped' /\ \A k \in Jobs : RowOk(k)'
         /\ \A k \in Jobs \ {runner[r].job} : job'[k] = job[k]
         /\ job'[runner[r].job].status = "succeeded"
         /\ job'[runner[r].job].attemptCount = job[runner[r].job].attemptCount
<1> DEFINE j == runner[r].job
           a == runner[r].attempt
           row == WrittenRow(attempt[j][a], "succeeded", runner[r].seen)
           new == [job[j] EXCEPT !.status = "succeeded", !.lockedBy = NoRunner,
                                 !.lockedUntil = NoTime]
<1>1. /\ j \in Jobs /\ a \in Nat /\ job[j] \in JobRow /\ runner[r].seen \in Int
      /\ job[j].attemptCount = a /\ deadLetter[j] = 0 /\ attempt[j][a] \in AttemptRow
  BY WorkingTypes
<1>3. row \in AttemptRow /\ row.status = "succeeded"
  BY <1>1, AttemptRowWritten DEF AttemptStatus, WrittenRow
<1>0. row = [attempt[j][a] EXCEPT !.status = "succeeded", !.watermark = runner[r].seen]
  BY <1>1, AttemptRowWritten DEF AttemptStatus
<1>2. /\ attempt' = [attempt EXCEPT ![j][a] = row]
      /\ job' = [job EXCEPT ![j] = new]
      /\ deadLetter' = deadLetter /\ checkpoint' = checkpoint
  <2> HIDE DEF row
  <2>1. QED
    BY <1>0 DEF CompleteOfRun, CommitComplete
<1>4. /\ new \in JobRow /\ new.status = "succeeded"
      /\ new.attemptCount = job[j].attemptCount
  <2>1. job[j].nextRunAt \in Int
    BY <1>1 DEF JobRow
  <2>2. new = ReleasedRow(job[j], "succeeded", job[j].nextRunAt)
    BY <1>1, <2>1, ReleasedRowWritten
  <2> HIDE DEF new
  <2>3. QED
    BY <1>1, <2>1, <2>2, ReleasedRowTyped
<1>5. deadLetter' = [deadLetter EXCEPT ![j] = 0]
  BY <1>1, <1>2 DEF IInv, TypeOK
<1>6. RowsBecome(j, a, new, row, 0) /\ RowsAgree(j, a, new, row, 0)
  <2> HIDE DEF row, new
  <2>1. QED
    BY <1>2, <1>3, <1>4, <1>5 DEF RowsBecome, RowsAgree
<1>7. /\ job' \in [Jobs -> JobRow] /\ attempt' \in [Jobs -> Seq(AttemptRow)]
      /\ deadLetter' \in [Jobs -> Nat] /\ (\A k \in Jobs : RowOk(k)')
      /\ job'[j] = new /\ \A k \in Jobs \ {j} : job'[k] = job[k]
  <2> HIDE DEF j, a, row, new
  <2>1. runner[r].job = j /\ runner[r].attempt = a
    BY DEF j, a
  <2>2. j \in Jobs /\ a \in Nat /\ row \in AttemptRow /\ new \in JobRow /\ 0 \in Nat
    BY <1>1, <1>3, <1>4
  <2>3. QED
    BY <1>6, <2>1, <2>2, WorkEffect
<1>8. TablesTyped'
  BY <1>2, <1>7 DEF TablesTyped, IInv, TypeOK
<1>9. QED
  BY <1>4, <1>7, <1>8

\* Every attempt a job may have has a backoff.
LEMMA RetryDelayTyped ==
  ASSUME NEW j \in Jobs, NEW a \in 1..MaxAttempts[j]
  PROVE  RetryDelay[a] \in Int
<1>1. \A k \in Jobs : \A n \in 1..MaxAttempts[k] : RetryDelay[n] \in Nat \ {0}
  BY ConstantsAssumption DEF ConstantsAssumption
<1>2. RetryDelay[a] \in Nat
  BY <1>1
<1>3. QED
  BY <1>2

\* retry gives the job another attempt and releases it.
LEMMA RetryEffect ==
  ASSUME IInv, NEW r \in Runners, Works(r), RetryOfRun(r)
  PROVE  /\ TablesTyped' /\ \A k \in Jobs : RowOk(k)'
         /\ \A k \in Jobs \ {runner[r].job} : job'[k] = job[k]
<1> DEFINE j == runner[r].job
           a == runner[r].attempt
           row == [attempt[j][a] EXCEPT !.status = "retryable_failed"]
           new == [job[j] EXCEPT !.status = "retry_scheduled", !.lockedBy = NoRunner,
                                 !.lockedUntil = NoTime,
                                 !.nextRunAt = runner[r].now + RetryDelay[a]]
<1>1. /\ j \in Jobs /\ a \in Nat /\ a \in 1..MaxAttempts[j] /\ job[j] \in JobRow
      /\ attempt[j][a] \in AttemptRow /\ runner[r].now \in Int
      /\ job[j].attemptCount = a /\ deadLetter[j] = 0
  BY WorkingTypes
<1>2. /\ job' = [job EXCEPT ![j] = new]
      /\ deadLetter' = deadLetter /\ checkpoint' = checkpoint
      /\ job[j].attemptCount < MaxAttempts[j]
  BY DEF RetryOfRun, RetryAllowed, CommitRetry
<1>3. attempt' = [attempt EXCEPT ![j][a] = row]
  BY DEF RetryOfRun, CommitRetry
<1>4. row \in AttemptRow /\ row.status = "retryable_failed"
  BY <1>1 DEF AttemptRow, AttemptStatus
<1>5. /\ new \in JobRow /\ new.status = "retry_scheduled"
      /\ new.attemptCount = job[j].attemptCount
      /\ new.lockedBy = NoRunner /\ new.lockedUntil = NoTime
  <2>1. RetryDelay[a] \in Int
    <3> HIDE DEF j, a
    <3>1. QED
      BY <1>1, RetryDelayTyped
  <2>2. runner[r].now + RetryDelay[a] \in Int
    BY <1>1, <2>1
  <2>3. new = ReleasedRow(job[j], "retry_scheduled", runner[r].now + RetryDelay[a])
    BY <1>1, <2>2, ReleasedRowWritten
  <2> HIDE DEF new
  <2>4. QED
    BY <1>1, <2>2, <2>3, ReleasedRowTyped
<1>6. deadLetter' = [deadLetter EXCEPT ![j] = 0]
  BY <1>1, <1>2 DEF IInv, TypeOK
<1>7. RowsBecome(j, a, new, row, 0) /\ RowsAgree(j, a, new, row, 0)
  <2> HIDE DEF row, new
  <2>1. QED
    BY <1>2, <1>3, <1>4, <1>5, <1>6 DEF RowsBecome, RowsAgree
<1>8. /\ job' \in [Jobs -> JobRow] /\ attempt' \in [Jobs -> Seq(AttemptRow)]
      /\ deadLetter' \in [Jobs -> Nat] /\ (\A k \in Jobs : RowOk(k)')
      /\ \A k \in Jobs \ {j} : job'[k] = job[k]
  <2> HIDE DEF j, a, row, new
  <2>1. runner[r].job = j /\ runner[r].attempt = a
    BY DEF j, a
  <2>2. j \in Jobs /\ a \in Nat /\ row \in AttemptRow /\ new \in JobRow /\ 0 \in Nat
    BY <1>1, <1>4, <1>5
  <2>3. QED
    BY <1>7, <2>1, <2>2, WorkEffect
<1>9. QED
  BY <1>2, <1>8 DEF TablesTyped, IInv, TypeOK

\* deadLetter closes the job and its attempt as dead-lettered and records the attempt.
LEMMA DeadLetterEffect ==
  ASSUME IInv, NEW r \in Runners, Works(r), DeadLetterOfRun(r)
  PROVE  /\ TablesTyped' /\ \A k \in Jobs : RowOk(k)'
         /\ \A k \in Jobs \ {runner[r].job} : job'[k] = job[k]
<1> DEFINE j == runner[r].job
           a == runner[r].attempt
           row == [attempt[j][a] EXCEPT !.status = "dead_lettered"]
           new == [job[j] EXCEPT !.status = "dead_lettered", !.lockedBy = NoRunner,
                                 !.lockedUntil = NoTime]
<1>1. /\ j \in Jobs /\ a \in Nat /\ job[j] \in JobRow /\ attempt[j][a] \in AttemptRow
      /\ job[j].attemptCount = a
  BY WorkingTypes
<1>2. /\ job' = [job EXCEPT ![j] = new]
      /\ deadLetter' = [deadLetter EXCEPT ![j] = a] /\ checkpoint' = checkpoint
  BY DEF DeadLetterOfRun, CommitDeadLetter
<1>3. attempt' = [attempt EXCEPT ![j][a] = row]
  BY DEF DeadLetterOfRun, CommitDeadLetter
<1>4. row \in AttemptRow /\ row.status = "dead_lettered"
  BY <1>1 DEF AttemptRow, AttemptStatus
<1>5. /\ new \in JobRow /\ new.status = "dead_lettered"
      /\ new.attemptCount = job[j].attemptCount
  <2>1. job[j].nextRunAt \in Int
    BY <1>1 DEF JobRow
  <2>2. new = ReleasedRow(job[j], "dead_lettered", job[j].nextRunAt)
    BY <1>1, <2>1, ReleasedRowWritten
  <2> HIDE DEF new
  <2>3. QED
    BY <1>1, <2>1, <2>2, ReleasedRowTyped
<1>6. RowsBecome(j, a, new, row, a) /\ RowsAgree(j, a, new, row, a)
  <2> HIDE DEF row, new
  <2>1. QED
    BY <1>2, <1>3, <1>4, <1>5 DEF RowsBecome, RowsAgree
<1>7. /\ job' \in [Jobs -> JobRow] /\ attempt' \in [Jobs -> Seq(AttemptRow)]
      /\ deadLetter' \in [Jobs -> Nat] /\ (\A k \in Jobs : RowOk(k)')
      /\ \A k \in Jobs \ {j} : job'[k] = job[k]
  <2> HIDE DEF j, a, row, new
  <2>1. runner[r].job = j /\ runner[r].attempt = a
    BY DEF j, a
  <2>2. j \in Jobs /\ a \in Nat /\ row \in AttemptRow /\ new \in JobRow
    BY <1>1, <1>4, <1>5
  <2>3. QED
    BY <1>6, <2>1, <2>2, WorkEffect
<1>8. QED
  BY <1>2, <1>7 DEF TablesTyped, IInv, TypeOK

-------------------------------------------------------------------------------
(* Where the steps of a run leave it.                                      *)

\* Only the process r moves.
OnlyMoves(r) ==
  /\ runner' \in [Runners -> RunnerState]
  /\ \A q \in Runners \ {r} : runner'[q] = runner[q]

LEMMA RunnerTypes ==
  ASSUME IInv, NEW r \in Runners
  PROVE  /\ runner \in [Runners -> RunnerState]
         /\ runner[r].step \in Step /\ runner[r].kind \in Kinds
         /\ runner[r].now \in Int /\ runner[r].seen \in Nat
         /\ runner[r].policy \in BOOLEAN /\ runner[r].job \in Jobs \cup {NoJob}
         /\ runner[r].attempt \in Nat /\ runner[r].retryable \in BOOLEAN
         /\ runner[r].result \in RunStatus
  BY DEF IInv, TypeOK, RunnerState

LEMMA GotoMoves ==
  ASSUME IInv, NEW r \in Runners, NEW step \in Step, Goto(r, step)
  PROVE  /\ OnlyMoves(r) /\ runner'[r].step = step
         /\ runner'[r].job = runner[r].job /\ runner'[r].attempt = runner[r].attempt
<1>1. runner[r] \in RunnerState
  BY DEF IInv, TypeOK
<1>2. runner'[r] = [runner[r] EXCEPT !.step = step]
  BY DEF Goto, IInv, TypeOK
<1>3. /\ runner'[r] \in RunnerState /\ runner'[r].step = step
      /\ runner'[r].job = runner[r].job /\ runner'[r].attempt = runner[r].attempt
  BY <1>1, <1>2 DEF RunnerState
<1>4. runner' = [runner EXCEPT ![r] = runner'[r]]
  BY <1>2 DEF Goto
<1>5. QED
  BY <1>3, <1>4 DEF OnlyMoves, IInv, TypeOK

LEMMA CatchMoves ==
  ASSUME IInv, NEW r \in Runners, NEW retryable \in BOOLEAN, Catch(r, retryable)
  PROVE  /\ OnlyMoves(r) /\ runner'[r].step = "catch"
         /\ runner'[r].job = runner[r].job /\ runner'[r].attempt = runner[r].attempt
<1>1. runner[r] \in RunnerState
  BY DEF IInv, TypeOK
<1>2. runner'[r] = [runner[r] EXCEPT !.step = "catch", !.retryable = retryable]
  BY DEF Catch, IInv, TypeOK
<1>3. /\ runner'[r] \in RunnerState /\ runner'[r].step = "catch"
      /\ runner'[r].job = runner[r].job /\ runner'[r].attempt = runner[r].attempt
  BY <1>1, <1>2 DEF RunnerState, Step, Working
<1>4. runner' = [runner EXCEPT ![r] = runner'[r]]
  BY <1>2 DEF Catch
<1>5. QED
  BY <1>3, <1>4 DEF OnlyMoves, IInv, TypeOK

LEMMA ReturnMoves ==
  ASSUME IInv, NEW r \in Runners, NEW result \in RunStatus, Return(r, result)
  PROVE  OnlyMoves(r) /\ runner'[r].step = "returned"
<1>1. runner[r].job \in Jobs \cup {NoJob} /\ runner[r].attempt \in Nat
  BY RunnerTypes
<1>2. runner'[r] = [AtRest EXCEPT !.job = runner[r].job, !.attempt = runner[r].attempt,
                                  !.result = result]
  BY DEF Return, IInv, TypeOK
<1>3. runner'[r] \in RunnerState /\ runner'[r].step = "returned"
  <2>1. AtRest.step = "returned"
    BY DEF AtRest
  <2>2. QED
    BY <1>1, <1>2, <2>1, RestTypes DEF RunnerState
<1>4. runner' = [runner EXCEPT ![r] = runner'[r]]
  BY <1>2 DEF Return
<1>5. QED
  BY <1>3, <1>4 DEF OnlyMoves, IInv, TypeOK

LEMMA ThrowMoves ==
  ASSUME IInv, NEW r \in Runners, Throw(r)
  PROVE  OnlyMoves(r) /\ runner'[r].step = "returned"
<1>1. runner'[r] = [AtRest EXCEPT !.result = "threw"]
  BY DEF Throw, IInv, TypeOK
<1>2. runner'[r] \in RunnerState /\ runner'[r].step = "returned"
  <2>1. AtRest.step = "returned"
    BY DEF AtRest
  <2>2. QED
    BY <1>1, <2>1, RestTypes DEF RunnerState, RunStatus
<1>3. runner' = [runner EXCEPT ![r] = runner'[r]]
  BY <1>1 DEF Throw
<1>4. QED
  BY <1>2, <1>3 DEF OnlyMoves, IInv, TypeOK

\* The clock reads an integer, and an input covers no more than what was accepted.
LEMMA InputTypes ==
  ASSUME IInv, NEW k \in Kinds
  PROVE  /\ \A t \in ClockReadings : t \in 0..MaxTime /\ t \in Int /\ t - Drift <= now
         /\ \A seen \in Inputs(k) :
              seen \in Nat /\ seen <= events /\ (k \notin Derived => seen = events)
<1>1. now \in Int /\ Drift \in Int /\ MaxTime \in Int /\ events \in Nat
  BY ConstantsAssumption DEF IInv, TypeOK
<1>2. QED
  BY <1>1 DEF ClockReadings, Inputs

\* What the process has taken of its two inputs.
LEMMA PrepareMoves ==
  ASSUME IInv, NEW r \in Runners, Prepare(r)
  PROVE  /\ UNCHANGED <<tables, store, environment>> /\ OnlyMoves(r)
         /\ runner[r].step \in Preparing \cup {"returned"}
         /\ runner'[r].step \in Preparing \cup {"claim"}
         /\ runner'[r].result = IF runner[r].step = "returned" THEN "none" ELSE runner[r].result
         /\ \/ /\ runner'[r].step = "reading" /\ runner'[r].now \in ClockReadings
               /\ runner'[r].seen = 0
            \/ /\ runner'[r].step = "timing" /\ "input_first" \in Orders
              /\ runner'[r].now = NoTime
               /\ runner'[r].seen \in Inputs(runner'[r].kind)
            \/ /\ runner'[r].step = "claim" /\ runner'[r].kind = runner[r].kind
               /\ \/ /\ runner[r].step = "reading" /\ runner'[r].now = runner[r].now
                     /\ runner'[r].seen \in Inputs(runner'[r].kind)
                  \/ /\ runner[r].step = "timing" /\ runner'[r].now \in ClockReadings
                     /\ runner'[r].seen = runner[r].seen
<1>1. runner \in [Runners -> RunnerState] /\ runner[r] \in RunnerState
  BY DEF IInv, TypeOK
<1>2. /\ \A t \in ClockReadings : t \in Int
      /\ \A k \in Kinds : \A seen \in Inputs(k) : seen \in Nat
      /\ \A policy \in Policies : policy \in BOOLEAN
  BY InputTypes, ConstantsAssumption
<1>3. UNCHANGED <<tables, store, environment>>
  BY DEF Prepare, ClockFirst, ReadInput, InputFirst, ReadClock
<1>4. ASSUME NEW new \in RunnerState, runner' = [runner EXCEPT ![r] = new]
      PROVE  OnlyMoves(r) /\ runner'[r] = new
  BY <1>1, <1>4 DEF OnlyMoves
<1>5. CASE ClockFirst(r)
  <2>1. PICK k \in Kinds, policy \in Policies, t \in ClockReadings :
          runner' = [runner EXCEPT ![r] = [AtRest EXCEPT !.step = "reading", !.kind = k,
                                                         !.policy = policy, !.now = t]]
    BY <1>5 DEF ClockFirst
  <2> DEFINE new == [step |-> "reading", kind |-> k, now |-> t, seen |-> 0, policy |-> policy,
                     job |-> NoJob, attempt |-> 0, retryable |-> FALSE, result |-> "none"]
  <2>2. new \in RunnerState
    BY <1>2 DEF RunnerState, Step, Preparing, RunStatus
  <2>3. runner' = [runner EXCEPT ![r] = new]
    <3>1. runner'[r] = [AtRest EXCEPT !.step = "reading", !.kind = k,
                                        !.policy = policy, !.now = t]
      BY <1>1, <2>1
    <3>2. runner'[r] = new
      BY <3>1 DEF AtRest
    <3>3. runner' = [runner EXCEPT ![r] = runner'[r]]
      BY <1>1, <2>1
    <3>4. QED
      BY <3>2, <3>3
  <2>4. OnlyMoves(r) /\ runner'[r] = new
    <3> HIDE DEF new
    <3>1. QED
      BY <1>4, <2>2, <2>3
  <2>5. runner[r].step = "returned"
    BY <1>5 DEF ClockFirst
  <2>6. /\ runner'[r].step = "reading" /\ runner'[r].now = t /\ runner'[r].seen = 0
        /\ runner'[r].result = "none"
    BY <2>4
  <2>7. QED
    BY <1>3, <2>4, <2>5, <2>6 DEF Preparing
<1>6. CASE InputFirst(r)
  <2>1. PICK k \in Kinds, policy \in Policies : \E seen \in Inputs(k) :
          runner' = [runner EXCEPT ![r] = [AtRest EXCEPT !.step = "timing", !.kind = k,
                                                         !.policy = policy, !.seen = seen]]
    BY <1>6 DEF InputFirst
  <2>2. PICK seen \in Inputs(k) :
          runner' = [runner EXCEPT ![r] = [AtRest EXCEPT !.step = "timing", !.kind = k,
                                                         !.policy = policy, !.seen = seen]]
    BY <2>1
  <2> DEFINE new == [step |-> "timing", kind |-> k, now |-> NoTime, seen |-> seen,
                     policy |-> policy, job |-> NoJob, attempt |-> 0, retryable |-> FALSE,
                     result |-> "none"]
  <2>3. new \in RunnerState
    BY <1>2 DEF RunnerState, Step, Preparing, RunStatus, NoTime
  <2>4. runner' = [runner EXCEPT ![r] = new]
    <3>1. runner'[r] = [AtRest EXCEPT !.step = "timing", !.kind = k,
                                        !.policy = policy, !.seen = seen]
      BY <1>1, <2>2
    <3>2. runner'[r] = new
      BY <3>1 DEF AtRest
    <3>3. runner' = [runner EXCEPT ![r] = runner'[r]]
      BY <1>1, <2>2
    <3>4. QED
      BY <3>2, <3>3
  <2>5. OnlyMoves(r) /\ runner'[r] = new
    <3> HIDE DEF new
    <3>1. QED
      BY <1>4, <2>3, <2>4
  <2>6. runner[r].step = "returned" /\ "input_first" \in Orders
    BY <1>6 DEF InputFirst
  <2>7. /\ runner'[r].step = "timing" /\ runner'[r].seen = seen /\ runner'[r].kind = k
        /\ runner'[r].result = "none"
    BY <2>5
  <2>8. QED
    BY <1>3, <2>5, <2>6, <2>7 DEF Preparing
<1>7. CASE ReadInput(r)
  <2>1. PICK seen \in Inputs(runner[r].kind) :
          runner' = [runner EXCEPT ![r].step = "claim", ![r].seen = seen]
    BY <1>7 DEF ReadInput
  <2> DEFINE new == [runner[r] EXCEPT !.step = "claim", !.seen = seen]
  <2>2. runner[r].kind \in Kinds /\ seen \in Nat
    BY <1>1, <1>2, <2>1 DEF RunnerState
  <2>3. /\ new \in RunnerState /\ new.step = "claim" /\ new.seen = seen
        /\ new.now = runner[r].now /\ new.kind = runner[r].kind /\ new.result = runner[r].result
    BY <1>1, <2>2 DEF RunnerState, Step
  <2>4. runner' = [runner EXCEPT ![r] = new]
    <3>1. runner'[r] = new
      BY <1>1, <2>1
    <3>2. runner' = [runner EXCEPT ![r] = runner'[r]]
      BY <1>1, <2>1
    <3>3. QED
      BY <3>1, <3>2
  <2>5. OnlyMoves(r) /\ runner'[r] = new
    <3> HIDE DEF new
    <3>1. QED
      BY <1>4, <2>3, <2>4
  <2> HIDE DEF new
  <2>6. runner[r].step = "reading"
    BY <1>7 DEF ReadInput
  <2>7. QED
    BY <1>3, <2>1, <2>3, <2>5, <2>6 DEF Preparing
<1>8. CASE ReadClock(r)
  <2>1. PICK t \in ClockReadings :
          runner' = [runner EXCEPT ![r].step = "claim", ![r].now = t]
    BY <1>8 DEF ReadClock
  <2> DEFINE new == [runner[r] EXCEPT !.step = "claim", !.now = t]
  <2>2. t \in Int
    BY <1>2
  <2>3. /\ new \in RunnerState /\ new.step = "claim" /\ new.now = t
        /\ new.seen = runner[r].seen /\ new.kind = runner[r].kind
        /\ new.result = runner[r].result
    BY <1>1, <2>2 DEF RunnerState, Step
  <2>4. runner' = [runner EXCEPT ![r] = new]
    <3>1. runner'[r] = new
      BY <1>1, <2>1
    <3>2. runner' = [runner EXCEPT ![r] = runner'[r]]
      BY <1>1, <2>1
    <3>3. QED
      BY <3>1, <3>2
  <2>5. OnlyMoves(r) /\ runner'[r] = new
    <3> HIDE DEF new
    <3>1. QED
      BY <1>4, <2>3, <2>4
  <2> HIDE DEF new
  <2>6. runner[r].step = "timing"
    BY <1>8 DEF ReadClock
  <2>7. QED
    BY <1>3, <2>1, <2>3, <2>5, <2>6 DEF Preparing
<1>9. QED
  BY <1>5, <1>6, <1>7, <1>8 DEF Prepare

-------------------------------------------------------------------------------
(* The two shapes of a runner's step.                                      *)

\* A statement of a run that holds a job: the tables stay sound, and the run, if it goes on,
\* finds its row as it left it.
LEMMA HolderStep ==
  ASSUME IInv, NEW r \in Runners, Holds(r), OnlyMoves(r), UNCHANGED <<store, environment>>,
         TablesTyped', \A k \in Jobs : RowOk(k)',
         \A k \in Jobs \ {runner[r].job} : job'[k] = job[k],
         runner'[r].step # "lock",
         Works(r)' =>
           /\ runner'[r].job = runner[r].job
           /\ runner'[r].attempt = job'[runner[r].job].attemptCount
           /\ \/ job'[runner[r].job].status = "running" /\ job'[runner[r].job].lockedBy = r
              \/ job'[runner[r].job].status = "succeeded" /\ runner'[r].step = "catch"
  PROVE  IInv'
<1>1. TypeOK'
  BY DEF TablesTyped, OnlyMoves, IInv, TypeOK, environment
<1>2. \A q \in Runners \ {r} : Holds(q) => runner[q].job \in Jobs \ {runner[r].job}
  BY HeldApart DEF IInv, RunOk, Holds
<1>3. \A q \in Runners \ {r} : RunOk(q)'
  BY <1>2, OtherRunsKept DEF OnlyMoves, Holds
<1>4. RunOk(r)'
  <2>1. CASE ~Works(r)'
    BY <2>1 DEF RunOk, Works
  <2>2. CASE Works(r)'
    <3>1. runner'[r].job \in Jobs
      BY <2>2 DEF IInv, RunOk, Holds
    <3>2. \A q \in Runners \ {r} : Works(q)' => runner'[q].job # runner'[r].job
      BY <1>2, <2>2 DEF OnlyMoves, Holds, Works
    <3>3. QED
      BY <2>2, <3>1, <3>2 DEF RunOk
  <2>3. QED
    BY <2>1, <2>2
<1>5. \A q \in Runners : RunOk(q)'
  BY <1>3, <1>4
<1>6. QED
  BY <1>1, <1>5 DEF IInv

\* A step that leaves the tables alone: the run goes on with the job it works on, or lets go.
LEMMA ControlStep ==
  ASSUME IInv, NEW r \in Runners, OnlyMoves(r), UNCHANGED <<tables, environment>>,
         store' \in [Scopes -> Int], runner'[r].step # "lock",
         Works(r)' =>
           /\ Works(r) /\ runner'[r].job = runner[r].job
           /\ runner'[r].attempt = runner[r].attempt
           /\ runner'[r].step = "catch" \/ runner[r].step # "catch"
  PROVE  IInv'
<1>1. TypeOK'
  BY DEF OnlyMoves, IInv, TypeOK, tables, environment
<1>2. \A k \in Jobs : RowOk(k)'
  BY RowKept DEF IInv, tables
<1>3. ASSUME NEW q \in Runners \ {r}, Holds(q), Holds(r)'
      PROVE  runner'[r].job # runner[q].job
  BY <1>3, HeldApart DEF Holds, Works
<1>4. \A q \in Runners \ {r} : RunOk(q)'
  BY <1>3, OtherRunsKept DEF OnlyMoves, tables
<1>5. RunOk(r)'
  <2>1. CASE ~Works(r)'
    BY <2>1 DEF RunOk, Works
  <2>2. CASE Works(r)'
    <3>1. \A q \in Runners \ {r} : Works(q)' => runner'[q].job # runner'[r].job
      BY <1>3, <2>2 DEF OnlyMoves, Holds, Works
    <3>2. QED
      BY <2>2, <3>1 DEF RunOk, IInv, tables
  <2>3. QED
    BY <2>1, <2>2
<1>6. \A q \in Runners : RunOk(q)'
  BY <1>4, <1>5
<1>7. QED
  BY <1>1, <1>2, <1>6 DEF IInv

-------------------------------------------------------------------------------
(* Every step preserves the invariant.                                     *)

\* The environment touches no run, and no row but that of a job it creates.
LEMMA EnvironmentInvariant ==
  ASSUME IInv, AcceptRawEvent \/ Tick \/ \E j \in Jobs : Enqueue(j)
  PROVE  IInv'
<1>1. CASE AcceptRawEvent
  <2>1. UNCHANGED <<tables, store, runner, now, acceptedBy>> /\ events' \in Nat
    BY <1>1 DEF AcceptRawEvent, IInv, TypeOK
  <2>2. TypeOK'
    BY <2>1 DEF IInv, TypeOK, tables
  <2>3. (\A k \in Jobs : RowOk(k)') /\ (\A q \in Runners : RunOk(q)')
    BY <2>1, RowKept DEF IInv, tables, RunOk, Works
  <2>4. QED
    BY <2>2, <2>3 DEF IInv
<1>2. CASE Tick
  <2>1. UNCHANGED <<tables, store, runner, events>>
    BY <1>2 DEF Tick
  <2>2. now' \in 0..MaxTime
    BY <1>2, ConstantsAssumption DEF Tick, IInv, TypeOK
  <2>3. acceptedBy' \in [0..MaxTime -> Nat]
    BY <1>2 DEF Tick, IInv, TypeOK
  <2>4. TypeOK'
    BY <2>1, <2>2, <2>3 DEF IInv, TypeOK, tables
  <2>5. (\A k \in Jobs : RowOk(k)') /\ (\A q \in Runners : RunOk(q)')
    BY <2>1, RowKept DEF IInv, tables, RunOk, Works
  <2>6. QED
    BY <2>4, <2>5 DEF IInv
<1>3. ASSUME NEW j \in Jobs, Enqueue(j) PROVE IInv'
  <2>1. /\ UNCHANGED <<attempt, deadLetter, checkpoint, store, runner, environment>>
        /\ job[j].status = "absent" /\ RowOk(j)
    BY <1>3 DEF Enqueue, IInv
  <2>2. PICK t \in ClockReadings :
          job' = [job EXCEPT ![j] = [AbsentJob EXCEPT !.status = "queued",
                                                      !.nextRunAt = t, !.createdAt = t]]
    BY <1>3 DEF Enqueue
  <2>3. /\ job'[j] \in JobRow /\ job'[j].status = "queued" /\ job'[j].attemptCount = 0
        /\ job'[j].lockedBy = NoRunner /\ job'[j].lockedUntil = NoTime
    <3>1. job'[j] = [AbsentJob EXCEPT !.status = "queued", !.nextRunAt = t, !.createdAt = t]
      BY <2>2 DEF IInv, TypeOK
    <3>2. job'[j] = [status |-> "queued", attemptCount |-> 0, lockedBy |-> NoRunner,
                     lockedUntil |-> NoTime, nextRunAt |-> t, createdAt |-> t]
      BY <3>1 DEF AbsentJob
    <3>3. t \in Int
      BY ConstantsAssumption DEF ClockReadings
    <3>4. QED
      BY <3>2, <3>3 DEF JobRow, JobStatus, NoTime
  <2>4. job' = [job EXCEPT ![j] = job'[j]]
    BY <2>2 DEF IInv, TypeOK
  <2>5. job' \in [Jobs -> JobRow] /\ \A k \in Jobs \ {j} : job'[k] = job[k]
    BY <2>3, <2>4 DEF IInv, TypeOK
  <2>6. TypeOK'
    BY <2>1, <2>5 DEF IInv, TypeOK, environment
  <2>7. attempt[j] = <<>> /\ Len(attempt[j]) = 0 /\ deadLetter[j] = 0
    BY <2>1 DEF RowOk
  <2>8. 0 < MaxAttempts[j] /\ MaxAttempts[j] \in Nat
    BY ConstantsAssumption
  <2>9. RowOk(j)'
    BY <2>1, <2>3, <2>7, <2>8 DEF RowOk
  <2>10. \A k \in Jobs \ {j} : RowOk(k)'
    BY <2>1, <2>5, RowKept DEF IInv
  <2>11. \A q \in Runners : Holds(q) => runner[q].job \in Jobs \ {j}
    BY <2>1 DEF IInv, RunOk, Holds
  <2>12. \A q \in Runners : RunOk(q)'
    BY <2>1, <2>5, <2>11 DEF IInv, RunOk, Holds, Works
  <2>13. QED
    BY <2>6, <2>9, <2>10, <2>12 DEF IInv
<1>4. QED
  BY <1>1, <1>2, <1>3

\* A locked row is locked once, whoever selects next.
LEMMA SelectInvariant ==
  ASSUME IInv, NEW r \in Runners, SelectJob(r)
  PROVE  IInv'
<1>1. PICK j \in Candidates(r) :
        runner' = [runner EXCEPT ![r].step = "lock", ![r].job = j]
  BY DEF SelectJob
<1>2. UNCHANGED <<tables, store, environment>> /\ runner[r].step = "claim"
  BY DEF SelectJob
<1>3. j \in Jobs /\ job[j].status \in {"queued", "retry_scheduled"} /\ ~RowLocked(j)
  BY DEF Candidates, Claimable
<1>4. OnlyMoves(r) /\ runner'[r].step = "lock" /\ runner'[r].job = j
  <2>1. runner'[r] = [runner[r] EXCEPT !.step = "lock", !.job = j]
    BY <1>1 DEF IInv, TypeOK
  <2>2. runner[r] \in RunnerState
    BY DEF IInv, TypeOK
  <2>3. runner'[r] \in RunnerState /\ runner'[r].step = "lock" /\ runner'[r].job = j
    BY <1>3, <2>1, <2>2 DEF RunnerState, Step
  <2>4. runner' = [runner EXCEPT ![r] = runner'[r]]
    BY <1>1, <2>1
  <2>5. QED
    BY <2>3, <2>4 DEF OnlyMoves, IInv, TypeOK
<1>5. TypeOK'
  BY <1>2, <1>4 DEF OnlyMoves, IInv, TypeOK, tables, environment
<1>6. \A k \in Jobs : RowOk(k)'
  BY <1>2, RowKept DEF IInv, tables
<1>7. \A q \in Runners \ {r} : Holds(q) => runner[q].job # j
  BY <1>3 DEF IInv, RunOk, Holds, RowLocked
<1>8. \A q \in Runners \ {r} : RunOk(q)'
  BY <1>2, <1>4, <1>7, OtherRunsKept DEF OnlyMoves, tables
<1>9. RunOk(r)'
  BY <1>2, <1>3, <1>4, <1>7 DEF RunOk, OnlyMoves, Holds, Works, Working, tables
<1>10. QED
  BY <1>5, <1>6, <1>8, <1>9 DEF IInv

\* The committed claim, whether or not its runner hears of it.
LEMMA ClaimInvariant ==
  ASSUME IInv, NEW r \in Runners, Claim(r) \/ ClaimAckLost(r)
  PROVE  IInv'
<1> DEFINE j == runner[r].job
<1>1. /\ runner[r].step = "lock" /\ ClaimRow(j, r)
      /\ UNCHANGED <<store, environment>>
  BY DEF Claim, ClaimAckLost
<1>2. j \in Jobs /\ Holds(r)
  BY <1>1 DEF IInv, RunOk, Holds
<1>3. /\ TablesTyped' /\ \A k \in Jobs : RowOk(k)'
      /\ \A k \in Jobs \ {j} : job'[k] = job[k]
      /\ job'[j].status = "running" /\ job'[j].lockedBy = r
      /\ job'[j].attemptCount = job[j].attemptCount + 1
  <2> HIDE DEF j
  <2>1. runner[r].job = j
    BY DEF j
  <2>2. QED
    BY <1>1, <1>2, <2>1, ClaimEffect
<1>4. CASE Claim(r)
  <2>1. runner[r] \in RunnerState /\ job[j].attemptCount \in Nat
    BY <1>2 DEF IInv, TypeOK, JobRow
  <2>2. runner'[r] = [runner[r] EXCEPT !.step = "write", !.attempt = job[j].attemptCount + 1]
    BY <1>4 DEF Claim, IInv, TypeOK
  <2>3. /\ runner'[r] \in RunnerState /\ runner'[r].step = "write"
        /\ runner'[r].job = j /\ runner'[r].attempt = job[j].attemptCount + 1
    <3> DEFINE n == job[j].attemptCount + 1
    <3>1. n \in Nat /\ runner'[r] = [runner[r] EXCEPT !.step = "write", !.attempt = n]
      BY <2>1, <2>2
    <3> HIDE DEF n
    <3>2. /\ runner'[r] \in RunnerState /\ runner'[r].step = "write"
          /\ runner'[r].job = j /\ runner'[r].attempt = n
      BY <2>1, <3>1 DEF RunnerState, Step, Working
    <3>3. QED
      BY <3>2 DEF n
  <2>4. runner' = [runner EXCEPT ![r] = runner'[r]]
    BY <1>4, <2>2 DEF Claim
  <2>5. OnlyMoves(r)
    BY <2>3, <2>4 DEF OnlyMoves, IInv, TypeOK
  <2>6. runner'[r].step # "lock" /\ runner'[r].attempt = job'[j].attemptCount
    BY <1>3, <2>3
  <2>7. job'[j].status = "running" /\ job'[j].lockedBy = r /\ runner'[r].job = j
    BY <1>3, <2>3
  <2>8. \A k \in Jobs \ {j} : job'[k] = job[k]
    BY <1>3
  <2>9. QED
    BY <1>1, <1>2, <1>3, <2>5, <2>6, <2>7, <2>8, HolderStep
<1>5. CASE ClaimAckLost(r)
  <2>1. OnlyMoves(r) /\ runner'[r].step = "returned"
    BY <1>5, ThrowMoves DEF ClaimAckLost
  <2>2. ~Works(r)'
    BY <2>1 DEF Works, Working
  <2>3. QED
    BY <1>1, <1>2, <1>3, <2>1, <2>2, HolderStep
<1>6. QED
  BY <1>4, <1>5

\* The steps of a run that leave the tables alone.
LEMMA ControlInvariant ==
  ASSUME IInv, NEW r \in Runners,
         \/ Prepare(r) \/ ClaimNothing(r) \/ ClaimFails(r) \/ WriteOutput(r)
         \/ BuildOrWriteFails(r) \/ StatementFails(r) \/ FailureUnrecorded(r) \/ Crash(r)
  PROVE  IInv'
<1>1. CASE Prepare(r)
  <2>1. UNCHANGED <<tables, environment>> /\ store' \in [Scopes -> Int]
    BY <1>1, PrepareMoves DEF IInv, TypeOK
  <2>2. OnlyMoves(r) /\ runner'[r].step \in {"reading", "timing", "claim"}
    BY <1>1, PrepareMoves DEF Preparing
  <2>3. QED
    BY <2>1, <2>2, ControlStep DEF Works, Working
<1>2. CASE ClaimNothing(r)
  <2>1. UNCHANGED <<tables, environment>> /\ store' \in [Scopes -> Int]
    BY <1>2 DEF ClaimNothing, IInv, TypeOK
  <2>2. OnlyMoves(r) /\ runner'[r].step = "returned"
    BY <1>2, ReturnMoves DEF ClaimNothing, RunStatus
  <2>3. QED
    BY <2>1, <2>2, ControlStep DEF Works, Working
<1>3. CASE ClaimFails(r) \/ FailureUnrecorded(r) \/ Crash(r)
  <2>1. UNCHANGED <<tables, environment>> /\ store' \in [Scopes -> Int]
    BY <1>3 DEF ClaimFails, FailureUnrecorded, Crash, IInv, TypeOK
  <2>2. OnlyMoves(r) /\ runner'[r].step = "returned"
    BY <1>3, ThrowMoves DEF ClaimFails, FailureUnrecorded, Crash
  <2>3. QED
    BY <2>1, <2>2, ControlStep DEF Works, Working
<1>4. CASE WriteOutput(r)
  <2>1. UNCHANGED <<tables, environment>> /\ runner[r].step = "write"
    BY <1>4 DEF WriteOutput
  <2>2. store' \in [Scopes -> Int]
    <3>1. runner[r].seen \in Int
      BY RunnerTypes
    <3>2. QED
      BY <1>4, <3>1 DEF WriteOutput, IInv, TypeOK
  <2>3. /\ OnlyMoves(r) /\ runner'[r].step = "checkpoint"
        /\ runner'[r].job = runner[r].job /\ runner'[r].attempt = runner[r].attempt
    BY <1>4, GotoMoves DEF WriteOutput, Step, Working
  <2>4. QED
    BY <2>1, <2>2, <2>3, ControlStep DEF Works, Working
<1>5. CASE BuildOrWriteFails(r)
  <2>1. UNCHANGED <<tables, environment>> /\ runner[r].step = "write"
    BY <1>5 DEF BuildOrWriteFails
  <2>2. store' \in [Scopes -> Int]
    <3>1. runner[r].job \in Jobs
      BY <2>1 DEF IInv, RunOk, Works, Working
    <3>2. ScopeOfRun(r) \in Scopes
      BY <3>1, ConstantsAssumption DEF ScopeOfRun
    <3>3. {store[ScopeOfRun(r)], runner[r].seen} \subseteq Int
      BY <3>2, RunnerTypes DEF IInv, TypeOK
    <3>4. QED
      BY <1>5, <3>3 DEF BuildOrWriteFails, IInv, TypeOK
  <2>3. /\ OnlyMoves(r) /\ runner'[r].step = "catch"
        /\ runner'[r].job = runner[r].job /\ runner'[r].attempt = runner[r].attempt
    BY <1>5, CatchMoves DEF BuildOrWriteFails
  <2>4. QED
    BY <2>1, <2>2, <2>3, ControlStep DEF Works, Working
<1>6. CASE StatementFails(r)
  <2>1. /\ UNCHANGED <<tables, environment>> /\ store' \in [Scopes -> Int]
        /\ runner[r].step \in {"checkpoint", "recheckpoint", "complete"}
    BY <1>6 DEF StatementFails, IInv, TypeOK
  <2>2. /\ OnlyMoves(r) /\ runner'[r].step = "catch"
        /\ runner'[r].job = runner[r].job /\ runner'[r].attempt = runner[r].attempt
    BY <1>6, CatchMoves DEF StatementFails
  <2>3. QED
    BY <2>1, <2>2, ControlStep DEF Works, Working
<1>7. QED
  BY <1>1, <1>2, <1>3, <1>4, <1>5, <1>6

\* The statements of the try block, acknowledged or not.
LEMMA TryInvariant ==
  ASSUME IInv, NEW r \in Runners,
         Checkpoint(r) \/ CompleteCheckpoint(r) \/ Complete(r) \/ AckLost(r)
  PROVE  IInv'
<1> DEFINE j == runner[r].job
<1>1. /\ Works(r) /\ Holds(r) /\ runner[r].step # "catch"
      /\ UNCHANGED <<store, environment>>
  BY DEF Checkpoint, CompleteCheckpoint, Complete, AckLost, Works, Working, Holds
<1>2. /\ job[j].status = "running" /\ job[j].lockedBy = r
      /\ runner[r].attempt = job[j].attemptCount
  BY <1>1, WorkingRow
<1>3. CASE CheckpointOfRun(r) /\ (Checkpoint(r) \/ CompleteCheckpoint(r) \/ AckLost(r))
  <2>1. TablesTyped' /\ (\A k \in Jobs : RowOk(k)') /\ job' = job
    BY <1>1, <1>3, CheckpointEffect
  <2>2. /\ OnlyMoves(r) /\ runner'[r].step \in Working
        /\ runner'[r].job = runner[r].job /\ runner'[r].attempt = runner[r].attempt
    <3>1. CASE Checkpoint(r) \/ CompleteCheckpoint(r)
      BY <3>1, GotoMoves DEF Checkpoint, CompleteCheckpoint, Step, Working
    <3>2. CASE AckLost(r)
      BY <3>2, CatchMoves DEF AckLost, Working
    <3>3. QED
      BY <1>3, <3>1, <3>2
  <2>3. runner'[r].step # "lock"
    BY <2>2 DEF Working
  <2>4. QED
    BY <1>1, <1>2, <2>1, <2>2, <2>3, HolderStep
<1>4. CASE CompleteOfRun(r) /\ (Complete(r) \/ AckLost(r))
  <2>1. /\ TablesTyped' /\ \A k \in Jobs : RowOk(k)'
        /\ \A k \in Jobs \ {runner[r].job} : job'[k] = job[k]
        /\ job'[j].status = "succeeded" /\ job'[j].attemptCount = job[j].attemptCount
    BY <1>1, <1>4, CompleteEffect
  <2>2. CASE Complete(r)
    <3>1. OnlyMoves(r) /\ runner'[r].step = "returned"
      BY <2>2, ReturnMoves DEF Complete, RunStatus
    <3>2. runner'[r].step # "lock" /\ ~Works(r)'
      BY <3>1 DEF Works, Working
    <3>3. QED
      BY <1>1, <2>1, <3>1, <3>2, HolderStep
  <2>3. CASE AckLost(r)
    <3>1. /\ OnlyMoves(r) /\ runner'[r].step = "catch" /\ runner'[r].step # "lock"
          /\ runner'[r].job = runner[r].job /\ runner'[r].attempt = runner[r].attempt
      BY <2>3, CatchMoves DEF AckLost
    <3>2. QED
      BY <1>1, <1>2, <2>1, <3>1, HolderStep
  <2>4. QED
    BY <1>4, <2>2, <2>3
<1>5. QED
  BY <1>3, <1>4 DEF Checkpoint, CompleteCheckpoint, Complete, AckLost

\* The statements of the catch block, acknowledged or not.
LEMMA CatchInvariant ==
  ASSUME IInv, NEW r \in Runners, Retry(r) \/ DeadLetter(r) \/ FailureAckLost(r)
  PROVE  IInv'
<1>1. /\ Works(r) /\ Holds(r) /\ UNCHANGED <<store, environment>>
      /\ RetryOfRun(r) \/ DeadLetterOfRun(r)
  BY DEF Retry, DeadLetter, FailureAckLost, Works, Working, Holds
<1>2. /\ TablesTyped' /\ \A k \in Jobs : RowOk(k)'
      /\ \A k \in Jobs \ {runner[r].job} : job'[k] = job[k]
  BY <1>1, RetryEffect, DeadLetterEffect
<1>3. OnlyMoves(r) /\ runner'[r].step = "returned"
  <2>1. CASE Retry(r) \/ DeadLetter(r)
    BY <2>1, ReturnMoves DEF Retry, DeadLetter, RunStatus
  <2>2. CASE FailureAckLost(r)
    BY <2>2, ThrowMoves DEF FailureAckLost
  <2>3. QED
    BY <2>1, <2>2
<1>4. runner'[r].step # "lock" /\ ~Works(r)'
  BY <1>3 DEF Works, Working
<1>5. QED
  BY <1>1, <1>2, <1>3, <1>4, HolderStep

LEMMA NextInvariant == IInv /\ [Next]_vars => IInv'
<1> SUFFICES ASSUME IInv, [Next]_vars PROVE IInv'
  OBVIOUS
<1>1. CASE UNCHANGED vars
  <2>1. UNCHANGED <<job, attempt, deadLetter, checkpoint, store, runner, events, now, acceptedBy>>
    BY <1>1 DEF vars, tables, environment
  <2>2. TypeOK' /\ (\A q \in Runners : RunOk(q)')
    BY <2>1 DEF IInv, TypeOK, RunOk, Works
  <2>3. \A k \in Jobs : RowOk(k)'
    BY <2>1, RowKept DEF IInv
  <2>4. QED
    BY <2>2, <2>3 DEF IInv
<1>2. CASE AcceptRawEvent \/ Tick \/ \E j \in Jobs : Enqueue(j)
  BY <1>2, EnvironmentInvariant
<1>3. ASSUME NEW r \in Runners, Prepare(r) PROVE IInv'
  BY <1>3, ControlInvariant
<1>4. ASSUME NEW r \in Runners, Continue(r) PROVE IInv'
  BY <1>4, SelectInvariant, ClaimInvariant, ControlInvariant, TryInvariant, CatchInvariant
  DEF Continue
<1>5. ASSUME NEW r \in Runners, GoWrong(r) PROVE IInv'
  BY <1>5, ClaimInvariant, ControlInvariant, TryInvariant, CatchInvariant DEF GoWrong
<1>6. QED
  BY <1>1, <1>2, <1>3, <1>4, <1>5 DEF Next

-------------------------------------------------------------------------------
(* The theorems.                                                           *)

\* IInv holds in every reachable state.
THEOREM InvariantHolds == Spec => []IInv
  BY InitInvariant, NextInvariant, PTL DEF Spec

\* Every variable keeps its type: rows, attempts and runs never take a shape the schema and
\* the repository's row mappers do not know.
THEOREM TypeCorrect == Spec => []TypeOK
<1>1. IInv => TypeOK
  BY DEF IInv
<1>2. QED
  BY <1>1, InvariantHolds, PTL

\* Two runs never work on one job, and a run works on the last attempt of its job, although
\* checkpoint, complete, retry and deadLetter check neither status nor owner of the row.
THEOREM AttemptsAreExclusive == Spec => []ExclusiveAttempt
<1>1. IInv => ExclusiveAttempt
  BY InvariantImplies
<1>2. QED
  BY <1>1, InvariantHolds, PTL

\* A run finds the row it holds as it left it, or succeeded behind a lost acknowledgement.
THEOREM RunsMatchRows == Spec => []RunMatchesRow
<1>1. IInv => RunMatchesRow
  BY InvariantImplies
<1>2. QED
  BY <1>1, InvariantHolds, PTL

\* Attempts are numbered without gaps, at most max_attempts of them, and all but the last
\* are closed as retryable failures.
THEOREM AttemptsAreAccounted == Spec => []AttemptsAccounted
<1>1. IInv => AttemptsAccounted
  BY InvariantImplies
<1>2. QED
  BY <1>1, InvariantHolds, PTL

\* A queued or retry-scheduled job can be claimed once it is due: it has an attempt left and
\* no lock.
THEOREM WaitingJobsAreClaimable == Spec => []WaitingIsClaimable
<1>1. IInv => WaitingIsClaimable
  BY InvariantImplies
<1>2. QED
  BY <1>1, InvariantHolds, PTL
===============================================================================
