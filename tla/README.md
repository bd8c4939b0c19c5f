# data-dyna: TLA+ specifications

data-dyna is the deterministic Data Core and Evidence Service of independent
cafés: POS facts come in as versioned events, are stored once per tenant, are
projected into read models, snapshots and benchmarks by durable background
workers, and are handed, together with how fresh they are, to an Agent whose
drafts go through a validator and a merchant's review before a decision becomes
evidence. This directory holds models of that program, the instances on which
TLC checks them, and proofs checked by TLAPS.

Paths below are relative to the repository (`src/app/...`, `docs/...`); in
`PROJECT.json` they have the prefix `src/`.

## 1. Inventory

| Part | State it keeps | Operations | What must be right | Module |
|---|---|---|---|---|
| Worker job repository `src/app/workers/durable-worker-job-repository.ts`, `migrations/0009_worker_jobs.sql` | four tables: jobs, attempts, checkpoints per scope, dead letters | enqueue, claim, heartbeat, checkpoint, complete, retry, deadLetter | one attempt at a time per job, numbered and bounded; the tables tell one story; terminal is terminal; a duplicate enqueue reuses the job | `WorkerJobs`, `JobEnqueue` |
| Bounded runner `bounded-worker-runner.ts` | the local state of one run | runClaimedWorkerJob | what it reports is what is durable; every failure is recorded or visible | `WorkerJobs` |
| Failure policy `worker-failure-policy.ts` | none | classify, backoff, record | a job is retried exactly while an attempt is left, and later than now | `WorkerJobs`, `WorkerBackoff` |
| The four workers (`projection-`, `snapshot-`, `benchmark-`, `evidence-worker.ts`) | an output store per scope, replaced as a whole | build and write the output, watermark of what was read | a committed watermark is covered by the output; freshness is honest; each output follows from its inputs | `WorkerJobs` (claim, failure, checkpoint), `ReadModels`, `EvidenceWorker` (what they compute) |
| Raw event stores `src/ingestion/raw-event-store.ts`, `postgres-raw-event-repository.ts`, `migrations/0008_raw_event_tenancy.sql` | accepted events, rejections | persistAccepted, persistInvalid | one row per tenant identity; a repetition is answered with the original of its own tenant | `RawEventStore`, `EventIngestion` |
| Event handlers, route, auth (`event-handlers.ts`, `events-route.ts`, `ingestion-auth.ts`) | open requests | POST /events, POST /events/batch | nothing a credential may not send is stored; rejections are auditable; every request ends | `EventIngestion` |
| Product analytics boundary `posthog-sink.ts` | how often the sink was called | enqueueProductAnalytics | one call per accepted fact | `EventIngestion` |
| POS producer `src/app/producers/pos-*.ts` | deliveries under way | map, send with a bounded wait, classify | a success is stored, a defect is real, a replay is a duplicate | `PosDelivery` |
| Event contract `event-contract.ts` | none (schema) | parse | - | as `Malformed` |
| Business projections `business-projections.ts`, `rfm-member-labels.ts` | none (a fold over events and labels) | rebuildBusinessProjections | a function of the set of events, whatever the order of arrival; POS events alone make orders | `Projections`, `ReadModels` |
| Snapshots, peer benchmarks `independent-cafe-snapshots.ts`, `opportunity-gaps.ts` | none | rebuild for a store and date, medians, percentiles, ranked gaps | what counts as paid; minimum peer group; boundaries of the percentile | `CafeSnapshots`, `PeerBenchmarks`, `ReadModels` |
| Prepared Agent attempt `src/agent/prepared-attempt.ts` | a prepared attempt with the freshness it was judged by | prepareAgentAttempt, the read-only tools | no attempt on stale, foreign or dead-lettered data; tools answer from what was judged | `PreparedAttempt` |
| Agent sidecar, result boundary `agent-sidecar.ts`, `result-boundary.ts`, `experiment-validator.ts` | run rows, append-only events, open tool calls | runAgentAttempt, guardedToolCall, evaluateAgentDraftResultGate, requestMerchantReviewForAgentDraft | the audit of a run is numbered and complete, tools stay within the policy, only validated drafts reach review | `AgentRun` |
| Merchant review `experiment-review.ts`, `migrations/0006_merchant_review.sql` | six tables: reviews, views, decisions, lifecycle records, preference candidates, preferences | submit, view, accept, modify, reject, record a transition, candidate, confirm | facts about a store go back to a decision about it | `MerchantReview` |
| Evidence store `evidence-store.ts` | none (pure functions; the evidence worker keeps their output) | review an effect and guardrails, assemble a trajectory, build a record | evidence refers to an accepted, applied plan of its store; a verdict its snapshots support | `EvidenceStore`, `EvidenceWorker` |
| Configuration, server start-up, logs, scripts | none of their own | - | - | no |

How the parts interact: producers talk HTTP to the route; the route calls the
handlers, these the raw event store (PostgreSQL, one statement at a time) and
then, without waiting, the analytics sink. Workers share nothing with the route
but the raw events their caller read. Workers of all processes share the four
job tables and the output stores. The Agent reads output stores and
checkpoints; review and evidence follow the Agent's validated draft.

What is hard here:

* **No transactions across statements.** Every SQL statement commits on its
  own. `complete` is two statements, and a third has recorded the same
  checkpoint before it; `persistAccepted` is up to three. Between any two
  of them other processes run, the process may stop, or an acknowledgement is
  lost.
* **Unguarded updates.** checkpoint, complete, retry and deadLetter check
  neither the job's status nor its owner. They are right only because claim
  never gives a job away twice.
* **State read before an await and used after it.** The runner's `now`, the raw
  events the caller read, and the attempt count stay those of the invocation;
  `now` and the input are two arguments, taken in an order nothing prescribes.
* **Requests nobody waits for.** The POS client stops waiting after 1500 ms but
  does not cancel; a batch is answered on its first error while its other items
  go on.
* **A harness that is not trusted.** It calls tools several at a time, leaves
  them open when its turn ends and keeps them afterwards; they write into the
  same numbered audit as the run.
* **Pure functions without a keeper.** Review, evidence and read models are
  functions of rows an adapter picks. Nothing but their comparisons keeps rows of
  different plans, stores and dates apart, and nothing orders their calls.
* **Two orders of events.** Events are received in one order and folded in
  another, that of occurredAt; a watermark counts the first.
* **Identity in two places.** The event id is the primary key, the tenant
  identity a second unique index; the job id hashes other fields than the
  unique index on job identities covers.

`PROJECT.json` lists each hazard with its line and the properties that cover it,
or why none does yet.

## 2. What is modelled

### 2.1 Worker jobs: `WorkerJobs`

One variable per table (`job`, `attempt`, `deadLetter`, `checkpoint`), the
output `store` of each checkpoint scope reduced to how many raw events it was
built from, one `runner` record per process, and the environment: accepted
`events`, the clock `now`, and `acceptedBy[t]`, the number of events accepted
when the clock reached `t`. No process reads that clock itself: its own may be off
by up to `Drift` (`ClockReadings`).

A caller hands a worker a Date and the data to work on, in two steps with
anything between them. `Orders` says which may come first: the code does not
decide it, so the proofs are for any. A projection reads all raw events there are; the kinds in `Derived` (snapshot, benchmark, evidence) get
an earlier worker's output of any age (`Inputs`).

A run takes one step per awaited statement; `runner[r].step` names the
statement it sends next:

| step | code | actions |
|---|---|---|
| `returned` | the caller takes its first input, the Date or the data | `ClockFirst`, `InputFirst` |
| `reading`, `timing` | the caller takes the other one and calls the worker | `ReadInput`, `ReadClock` |
| `claim` | SELECT ... FOR UPDATE SKIP LOCKED LIMIT 1, in its order | `SelectJob`, `ClaimNothing`, `ClaimFails` |
| `lock` | the UPDATE and attempt INSERT of the same claim, under the row lock | `Claim`, `ClaimFails`, `ClaimAckLost` |
| `write` | buildOutput, writeOutput (replaceAll) | `WriteOutput`, `BuildOrWriteFails` |
| `checkpoint` | the runner's own checkpoint call | `Checkpoint` |
| `recheckpoint`, `complete` | the two statements of complete | `CompleteCheckpoint`, `Complete` |
| `catch` | classifyWorkerFailure, then retry, deadLetter or rethrow | `Retry`, `DeadLetter`, `FailureUnrecorded`, `FailureAckLost` |

`StatementFails` and `AckLost` stand for an error before and after a commit (a
throwing observability sink acts like the latter), `Crash` for a process that
stops. claim runs outside the try block, so its failure records nothing. What
may go wrong is chosen by the constant `Faults`. The backoff is `RetryDelay`;
`WorkerBackoff` computes it as the code does and the instances use it.

`JobLifecycle` is what the repository promises without tables or statements: a
waiting job is started by one holder a bounded number of times, and only its
holder moves it. `WorkerJobsRefinement` maps the tables and runners onto it.

### 2.2 Enqueue: `JobEnqueue`

The one statement of enqueue with the snapshot it takes when it begins: INSERT
... ON CONFLICT (job_id) DO NOTHING, and the second SELECT that returns the
existing row. Its unique index on the identity is not the conflict target, so a
racing insert may be refused by it (`IdentityViolation`) whichever index the
database looks at first. On every path, the inserting and the duplicate one, the statement may fail
(`StatementFails`) or be committed with its answer lost (`AckLost`); the call then
throws. In `WorkerJobs` a job is enqueued in one step; what concurrent calls of it
do is the question of this module.

### 2.3 Ingestion: `EventIngestion`

`request[r]` is a place for one open HTTP request; each item of its body moves
through insert, the lookup by event id, the lookup by tenant identity, the
analytics call or the rejection audit. All items of a batch run concurrently
(Promise.all), `Answer` sets the status when all are done or the first one has
thrown. Payloads are records of the fields identity and policy look at;
what the schema refuses is a member of `Malformed`. `Verdict` is the tenant
policy. `RawEventStore` is the interface as the in-memory store provides it:
new or duplicate is decided in one step. `EventIngestionRefinement` shows that
the three statements of the PostgreSQL repository implement it.

### 2.4 Delivery: `PosDelivery`

Composed with `EventIngestion`: a delivery maps a fixture (`PosEvent`), is sent,
becomes a request when it arrives, and is classified from its answer
(`Classify`) or by the timer (`NoAnswer`). The statuses the delivery falls through
to `invalid_payload` for (pos-events-delivery.ts:141) are none the route answers
with, and ids that the mapper joins with colons are tuples, so that two facts never
share an id by their punctuation. A request whose producer has given up
stays in `late` and may still arrive. The HTTP client and the network are
external and modelled by that. `known` is an auxiliary field recording whether
the fact was stored when it was sent.

### 2.5 Agent runs: `PreparedAttempt`, `AgentRun`

`PreparedAttempt` holds the pure operators of prepared-attempt.ts: the policy
that prepares or blocks an attempt (`EvaluatePolicy`), the attempt with the
records of freshness it copies (`Prepare`), and what its read-only tools answer
(`PreparedToolThrows`, `RefRead`, `AnswerSize`). Of a record it keeps what the
policy tells apart; times are numbers, sizes small numbers.

`AgentRun` is the sidecar and the result gate. `runs` and `log` are the audit
store, `main[c]` a call of runAgentAttempt, `tool[s]` a tool call of a harness,
`review[c]` the review request for the draft of a call. A step ends where the
code awaits: `main[c].step` is the event, row or turn the call waits for.

| code | actions |
|---|---|
| appendRun, outside the try block | `Begin`, `RunAppended`, `AppendRunFails` |
| the five gate events, each after its checks (`Passes`) | `GateEventAppended`, `HarnessInvoked` |
| runTurn, the transcript, the draft | `TurnReturns`, `TurnThrows`, `TranscriptEventAppended`, `DraftCaptured`, `CapturedReplaced` |
| the catch block | `Catch`, `RunFailed`, `FailedReplaced`, `CatchFails` |
| guardedToolCall | `CallTool`, `ExecuteTool`, `AnswerTool`, `DenyTool`, `ToolEventFails` |
| result gate and review request | `EvaluateGate`, `RequestReview`, `ReviewFails` |

A call to the store fails before it took effect ("reject") or after it, as when
the audit callback throws ("ack"). An error without a message makes the failed
run itself not parse, so the call rejects and its row stays started
(`CatchForeign`). Several calls may be for one run.

What callers do is taken from the tests and probes: the attempt is
prepared once per call, the tools are those of the same attempt, the required
kinds are all four. (With fewer, the records of the other kinds would be read
by tools without having been judged.) Left out: a crash, since the only audit
store is in memory; a timeout of runTurn, which has none; redaction; the denial
of calls with a wrong argument, which the code does not record either. A second
call for one run numbers its events from 1 again, so its event ids repeat those
of the first: the primary key of `migrations/0005_agent_runs.sql` would refuse
them. The log of the model is therefore per call.

### 2.6 Read models: `Projections`, `CafeSnapshots`, `PeerBenchmarks`, `ReadModels`

The first three are the pure operators, one per function of the code, each
extending the one before. `Rebuild` folds `ProjectEvent` over the events in the
order of occurredAt and id: event ids differ, so a set of events has one such
order, and the fold is a recursive function on its subsets that projects the
last event (`LastOf`) after the rest. A table is a function from ids to rows,
and a row keeps the fields a decision reads; each kind of row has an operator of
its own (`SessionRow`, `OrderRow`, ...). A payment and an order line have the id
the code makes when the event brings none, and no producer in the repository
brings one. `CafeSnapshots` computes the profile, the segment and four metrics
of one store and date, `PeerBenchmarks` the median, the 75th percentile, the gap
of each metric and the ranks; the k-th value (`KthValue`) is
the one that fewer than k rows are below and at least k do not exceed, which is
what an index into the sorted values reads. Values are integers in units of the
fourth decimal, to which the code rounds; `Rounded` rounds as Math.round.

`ReadModels` is the pipeline: `Accepted` appends an event to `log`, in the order
of receipt; `RunProjectionWorker`, `RunSnapshotWorker` and `RunBenchmarkWorker`
rebuild `models`, `snapshots` and `gaps` from the last output before them, any
number of times, so that a later stage may be fed stale output. `snapshots` and
`gaps` carry what they were built from (the watermark, the peers), of which the
properties speak. `ReadModelsFollowEvents` does not fold: it says of each order,
cart, member, payment, refund and metric what the *set* of events received by
the watermark makes of it. `GapsAreEarned` counts peers that beat the store instead of
computing percentiles.

### 2.7 Review and evidence: `MerchantReview`, `EvidenceStore`, `EvidenceWorker`

`MerchantReview` has a variable per table of 0006 and an action per function of
experiment-review.ts: it calls the function on rows that exist and inserts what
it returns. Functions are pure and rows never change, so nothing interleaves
within a call; what is hard is that any call may follow any other. `LifecycleCheck`
is the CHECK of the lifecycle table, held against the code's own `Allowed` by the
type invariant. `EvidenceStore` has the pure operators of evidence-store.ts;
`EvidenceWorker` composes both: `RunEvidenceWorker` takes any plan, any
guardrails, any acceptance, any lifecycle record, any gap and any snapshots, and
writes only if every comparison the code makes holds. The guardrails it reviews
are those handed over (evidence-worker.ts:82, 108), with the relation they are
handed over with, whatever the plan's are.

A plan's id is made from its agent run alone (result-boundary.ts:167), the table of
reviews keys on the review id only, and what compares plans compares ids: two
plans, two drafts of one run, may have one id, and a review is submitted with
any validation result its caller holds (`Validations`), of which only an
accepting one passes. So what goes back from evidence to a decision is the id
(`FactsFollowDecisions`): evidence on one draft may rest on the review of
another draft of the same run.

Some things these functions allow, as the code does, and no property forbids:
a review may be both accepted and rejected, and decided by a system actor; a
lifecycle record may say accepted or applied without an acceptance
(the decision an applied record names must exist, no more), although
`docs/merchant-review-v1.md:69` asks for an explicit merchant decision;
the evidence gap is compared by store, not with the plan's opportunityGapId; a
snapshot id has no more than store, date
and metric, so a rebuilt snapshot has the id of the one it replaces, and the
dates of before and after are not compared; a weak sample can read
clean_success, with its interpretation non-causal. Of the read models: a cart updated
after its checkout is no longer checkout_started; tables are keyed by id alone,
so that equal ids of two stores share a row; timestamps are compared as text,
whatever their offset; a segment the merchant rejected still takes part in
benchmarks; a gap to a reference of 0 has no ratio and ranks last; labels of
several dates count a member several times; a view event made by
buildMobileHqMerchantActionEvent names its plan nowhere projectMerchantAction
looks, unless its properties do.

## 3. What the runs show

| Run | Instance | Result |
|---|---|---|
| `JobsTwoRunners` | 2 runners, 2 jobs of one scope with 2 and 1 attempts, all faults, with and without failure policy, clock before input, clock to 1, 1 raw event | attempts are exclusive (`ExclusiveAttempt`), an unguarded statement always finds the row it expects (`RunMatchesRow`), the four tables agree (`LedgerAgrees`, `AttemptsAccounted`, `WaitingIsClaimable`), outcomes reported are durable (`ReportedOutcomeIsDurable`), committed_at promises no event the input lacks (`FreshnessIsHonest`), attempts keep the backoff (`BackoffIsHonoured`), settled jobs stay settled (`TerminalIsFinal`), and the whole implements `JobLifecycle` (`ImplementsLifecycle`) |
| `JobsOneRunner` | 1 runner, 2 jobs of one scope with 2 and 3 attempts, both orders of inputs, drift 1, clock to 2, 2 events, builds and writes may fail | with one runner the checkpoint is backed by the store (`CheckpointBackedByStore`) and never moves backwards (`WatermarkNeverRegresses`), and `ClaimedJobSettles` under fairness |
| `JobsOverlappingRuns` | 2 runners, no fault | finding: a slower run replaces newer output after the newer checkpoint |
| `EnqueueRaces` | 3 callers, 3 inputs, two of which share the identity but not the job id, failing statements and lost answers | what callers are told is true (`CallersAreToldTheTruth`), also when they are refused (`RefusalsAreTrue`), and late calls reuse the job or are failed by the connection (`LateCallReuses`) |
| `Ingestion` | 2 requests, 2 merchants, 5 submissions (single, batch, mixed-tenant batch, no array, no credential), all faults | `AnalyticsOncePerFact`, `AnswersOwnRecord`, `RejectedNeverAccepted`, `OnlyForeignIdsConflict`, `ImplementsStore`, and `RequestsEnd` under fairness |
| `PosDelivery` | 1 delivery at a time, 2 requests, 1 late request, a backfill racing it | `DeliveredIsStored`, `DefectsAreReal`, `ReplayIsDuplicate` |
| `PosCrossTenant` | 2 merchants with alike POS numbering, no fault | finding: the second merchant's fact is refused for ever |
| `AgentRuns` | 2 calls for 1 run, 9 setups (one fit beside unfit records, one refused at each gate), 1 tool call at a time out of 4, a transcript of at most 1, 2 drafts, 3 contexts, 1 failure of either kind | the audit of a call is numbered without repetition and in order (`AuditIsNumbered`), tools run within policy and answer from judged, fresh, clean records (`ToolAnswersAreSafe`), rows and results agree with the audit (`OutcomesAreAudited`), reviews are requested for captured and validated drafts only (`ReviewsAreGated`) |
| `AgentDiagnosis` | 1 call, 1 tool call, no fault | finding: an allowed tool call ends without result or denial |
| `ReadModels` | up to 4 of 8 events about 2 orders, 1 cart, 1 member and a plan, received in any order; 3 labels, 2 confirmations, 4 sets of peers; the three workers at any time | the read models are what the events received say, whatever their order (`ReadModelsFollowEvents`), outputs fit their tables (`TypeOK`), ranked gaps are earned (`GapsAreEarned`) |
| `ReviewEvidence` | 3 plans of 2 stores, two of one id, any of 3 guardrails handed over, 2 review ids, up to 4 rows, 6 snapshots (rising, falling, weak, empty, foreign; one guardrail has none), 2 gaps, 1 run of the worker | tables keep their constraints and the output its schemas (`TypeOK`), evidence and preferences go back to decisions (`FactsFollowDecisions`), verdicts are what the measures handed over support (`VerdictIsSound`) |
| `ReviewHiddenPass` | the same | finding: a guardrail of the plan that is not handed over is treated as passing |

**Bounds.** `MaxTime`, `MaxEvents`, `MaxAttempts`, `MaxLate` and the sizes of the
sets are the bounds. Two runners are enough for what concerns one
job: every guard of claim compares the run with one row lock, and the proofs of
section 5 remove the bound. With `MaxTime = 1` and a backoff of at least one
second a retry is due within the clock, so second attempts and dead letters of
exhausted jobs occur; one raw event is enough to tell an older from a newer
read. `JobsTwoRunners` takes the clock first, on which `FreshnessIsHonest` depends,
and lets clocks agree; `JobsOneRunner` has the other order, the drift, the third
attempt and the second event, where one run after the other commits a watermark.
The proofs are for any order, drift and faults. Scopes in `Derived` are in the proofs
only: no run has one. Two requests let the three statements of one interleave with a whole other
request; a batch adds a third concurrent item. One delivery at a time is
repeated without bound, so that redeliveries meet late requests of their
predecessors. Two calls of one agent run suffice for the race on its row, which
holds what one of them wrote last; one tool call at a time interleaves with both
calls, the transcript and each other call's failure. `MaxTranscript` and
`MaxFailures` bound the transcript and the failing calls to the audit store; a
failure in the catch block needs no second one before it, since checks and the
harness fail too. Four of the eight events are an order's opening, payment and refund with a
checkout, or two orders in competition for one profile; the set has every pair
that commutes badly: a refund before its order, an update after a checkout, a
tie in time. Peers are three, four, too few, and more values than stores.
Three guardrails are one metric with either relation and another.
Evidence needs three rows (review, acceptance, applied record); the fourth is
one that must not be confused with them, and a preference needs four. `MaxRuns`
is 1 since the output is replaced as a whole and does not depend on an earlier
one. Symmetry is used for runners, request places, agent calls and review ids only, which
no constant distinguishes and over which no run with symmetry checks liveness.

**Deadlock** is checked in every run but the two of `MCAgentRun` and the two of `MCEvidenceWorker`:
callers may always invoke, begin or send again. In `AgentRun` each call is made
once, and all of them end; in `EvidenceWorker` the bounds on rows and runs end it.

**Fairness.** `WorkerJobs!FairSpec`: WF of `Continue(r)`, the step of a run whose
current statement succeeds. The event loop resumes a run whose statement
returned; it does not promise that a caller invokes a worker, and the faults get
no fairness. `JobsOneRunner` allows failing builds but no failing statement or
crash: with those, a job stays running, since nothing reclaims an expired lease
(see `hazards`). `EventIngestion!FairSpec`: WF of `Handle(r)` for the same
reason; there crashes and failing statements are allowed, since they too end a
request or an item.

## 4. Findings

1. *Overlapping runs of one scope* (`JobsOverlappingRuns`). Two jobs of one scope
   run at once; the later writer may have read fewer events, and replaces the
   output after the other's checkpoint
   (`docs/workers/durable-worker-foundation.md:117`, `:125`).
2. *Event ids of the POS mapper do not name the merchant* (`PosCrossTenant`), the
   tenant identity does. Two merchants numbering alike collide on the
   primary key; the answer 500 is classified as transient although no retry can
   succeed (`docs/integration/pos-event-mapping.md:167`,
   `docs/integration/external-producer-contract.md:83`).
3. *A diagnosis tool that always throws* (`AgentDiagnosis`).
   `read_dead_letter_diagnosis` is an allowed capability of a prepared attempt and
   answers undefined (`tests/agent-prepared-attempt-s2.spec.ts:64`); the boundary takes the
   size of its JSON text, which is undefined too, and throws
   (`src/agent/agent-sidecar.ts:466`, `:550`). The call is in the audit as attempted
   and as nothing else, against rule 3 of the tool policy lifecycle
   (`docs/agent/agent-runtime-boundary-contract.md:93`).
4. *A guardrail nobody measured passes* (`ReviewHiddenPass`). The evidence worker
   reviews the guardrails its caller hands over and nothing compares them with
   the plan's, so a verdict may be clean_success with a guardrail of the plan
   left out (`src/app/workers/evidence-worker.ts:108`,
   `src/evidence/evidence-store.ts:246`), against `docs/evidence-store-v1.md:44`
   and `:72`. One handed over as monitor_only is measured but does not count
   against the plan.

Four more remarks, without a run of their own. *A failed job's checkpoint stays*:
`docs/workers/durable-worker-foundation.md:124` promises that failed jobs leave
the previous checkpoint intact; in `WorkerJobs`, as in the code, the checkpoint
commits before complete's last statement, and `DeadLetter` or `Retry` does not
take it back when that statement fails. *committed_at promises what the caller's
order of inputs allows*: `FreshnessIsHonest` holds of callers that take the clock
before they read the raw events. One that reads first and takes the clock after
another event was accepted commits a time its output does not cover, and the
staleness gate of prepared-attempt.ts:429 compares just that time. Nothing in the
source calls a worker outside the tests, so neither order is decided, and no
document asks for one.
*A racing duplicate enqueue throws*, against
`docs/workers/durable-worker-foundation.md:85`: the job was committed after the statement began, so neither the insert nor the SELECT has a row
(`NoRowReturned`), or the identity index refuses the insert (`IdentityViolation`).
Calling again reuses the job (`LateCallReuses`).
*A refund folded before its order* is kept without one, although
`migrations/0002_business_projections.sql:62` references orders.

## 5. What is proved

TLC checks instances; what follows holds for every value of the constants that
the named assumptions allow (TLC evaluates each of them in a run). Every
module with proofs has one inductive invariant, from which its theorems follow.

| Module | Theorem | Property |
|---|---|---|
| `WorkerJobsProofs` | `InvariantHolds` | `IInv`, the inductive invariant |
| | `TypeCorrect` | `TypeOK` |
| | `AttemptsAreExclusive` | `ExclusiveAttempt` |
| | `RunsMatchRows` | `RunMatchesRow` |
| | `AttemptsAreAccounted` | `AttemptsAccounted` |
| | `WaitingJobsAreClaimable` | `WaitingIsClaimable` |
| `WorkerJobsOutcomes` | `FreshHolds` | `IInv /\ FreshInv` |
| | `CheckpointsAreFresh` | `FreshnessIsHonest` (if `ClocksFirst`) |
| | `LedgerHolds` | `LedgerInv` |
| | `LedgersAgree` | `LedgerAgrees` |
| | `BackoffsAreHonoured` | `BackoffIsHonoured` |
| | `OutcomesAreDurable` | `ReportedOutcomeIsDurable` |
| | `SettledJobsStay` | `TerminalIsFinal` |
| | `LifecycleImplemented` | `ImplementsLifecycle` (refinement) |
| | `CheckpointsAreBacked` | `CheckpointBackedByStore`, if `SoleRunner` |
| | `WatermarksAdvance` | `WatermarkNeverRegresses`, if `SoleRunner` |
| `JobEnqueueProofs` | `EnqueueInvariant`, `EnqueueTyped` | `EnqueueInv`, `TypeOK` |
| | `AnswersAreTrue` | `CallersAreToldTheTruth` |
| | `RefusalsTold` | `RefusalsAreTrue` |
| | `LateCallsReuse` | `LateCallReuses` |
| `EventIngestionProofs` | `IngestInvariant`, `IngestionTyped` | `IngestInv`, `TypeOK` |
| | `FactsAreForwardedOnce` | `AnalyticsOncePerFact` |
| | `AnswersAreOwnRecords` | `AnswersOwnRecord` |
| | `RejectionsAreAudited` | `RejectedNeverAccepted` |
| | `ConflictsAreForeign` | `OnlyForeignIdsConflict` |
| | `StoreImplemented` | `ImplementsStore` (refinement) |
| `PosDeliveryProofs` | `DeliveryInvariant`, `DeliveriesTyped` | `PosInv`, `DeliveryTypeOK` |
| | `DeliveredFactsAreStored` | `DeliveredIsStored` |
| | `ReportedDefectsAreReal` | `DefectsAreReal` |
| | `ReplaysAreDuplicates` | `ReplayIsDuplicate` |
| | `LateFactsAreForwardedOnce` | `AnalyticsOncePerFact`, with deliveries |
| `AgentRunProofs` | `AgentInvariant`, `AgentRunsTyped` | `AgentInv`, `TypeOK` |
| | `OutcomesAreInTheAudit` | `OutcomesAreAudited` |
| | `ReviewsPassTheGate` | `ReviewsAreGated` |
| | `AuditsAreNumbered` | `AuditIsNumbered` |
| | `ToolAnswersAreFit` | `ToolAnswersAreSafe`, if `AllKindsRequired` |
| `EvidenceWorkerProofs` | `EvidenceInvariant`, `EvidenceTyped` | `EvidenceInv`, `TypeOK` |
| | `FactsFollow` | `FactsFollowDecisions` |
| | `VerdictsAreSound` | `VerdictIsSound` |
| `ReadModelsProofs` | `AlwaysTraced`, `ReadModelsTypeCorrect` | `Traced`, `TypeOK` |
| | `ReadModelsAlwaysFollow` | `ReadModelsFollowEvents` |
| | `GapsAlwaysEarned` | `GapsAreEarned` |

**Worker jobs.** None of the properties is inductive alone: that a checkpoint
writes into the right attempt depends on the row being held, which depends on
claim seeing its status and the row locks, which depends on the last attempt
being closed whenever a job waits. `IInv` is therefore the type invariant,
`RowOk(j)` for every job (the job row, its attempts and its dead letter by
status) and `RunOk(r)` for every runner (what it holds, and that nobody else
holds it). Each action touches one row and one run: a lemma per committed effect
shows that it re-establishes `RowOk` of its row, one lemma shows that a step of
one run leaves `RunOk` of the others, and one step per action puts them together.
On top of it, `FreshInv` relates times: when callers take the clock first, a run's
input covers every event accepted before any clock can have read the run's time
(`Promises`), from the moment it has read it to the checkpoint it commits
(`RunIsFresh`, `CheckpointIsFresh`). `LedgerInv` relates the rows' own times and
watermarks: a job that waits for a retry is due the backoff after its last attempt
(`Waits`), who has locked it was called with a Date no earlier (`DueWhenLocked`), and
the attempt of a run carries what its checkpoint says (`OwnRow`, `Named`).
`OutcomeInv` says what the attempt of a run that
returned has become, also after later attempts. For the refinement every action
is mapped to the one step of `JobLifecycle` it takes or to a stutter.
`StoreInv` is for a sole runner: what it has read is never behind a checkpoint,
and the store holds it whenever a checkpoint is about to be written.

**Enqueue.** `EnqueueInv` adds that a statement's snapshot is part of the table:
rows are never deleted, so a duplicate that a snapshot shows is still there. It
adds what each way to end found: the wanted row, or a row of its identity.

**Ingestion and delivery.** `IngestInv` says what an item has learned where it
is: a key is taken, this row has its identity, this payload is permitted. Rows
never change and their keys stay unique, so that stays true while others run;
and of all items with one identity at most one has inserted and not yet
forwarded (`ForwardOk`). The refinement maps an insert or a found row to the
abstract store's decision. `PosInv` adds what a delivery that waits for a
request may find there (`WaitOk`) and that no two wait for the same one. The
lemmas of ingestion are stated for any well-formed submission, so that late
requests of the producer use them again.

**Agent runs.** `AgentInv` has a part per call (`CallOk`: which numbers its
stored entries carry, that the entry it waits for is new and follows its own,
and which ends are logged), per open tool call (`SlotOk`: its call holds the
tools of a prepared attempt, its entry is new, what it was allowed and what
bounds were checked), per run (`RowOk`: whose result the row is) and per review.
Numbers are taken synchronously and appended later: that pending numbers of a
call and its tools differ (`SlotsApart`) is what keeps the stored ones different.
Every action is one of three moves, of a call, of a tool call or of a review,
and the parts are shown to survive each move.

**Evidence.** Nothing but the arguments carries a fact from row to row, so
`EvidenceInv` says of each output that rows and snapshots exist from which it
was built and which passed every comparison (`BuiltFrom`). Rows are only added,
so what is said of a row stays true (`RowsStay`); fresh ids count rows, so they
are new (`FreshIsNew`, `NextIsNew`). The verdict is then a fact about pure
operators: an outcome says "needs more data" exactly when the pair has none, and
otherwise the direction in which the value moved.

**Read models.** `Traced` is the inductive invariant: the tables are the rebuild
of the events received by some watermark, the snapshots the projection of some
such tables, the gaps the benchmark of some such snapshots. A later stage may
lag behind; since the log is only appended to, what an output was built from
stays what it was. All else is about the pure operators:

- *The fold.* That a recursive function satisfies its equation
  (`ProjectedEquation`, `LabelsEquation`, `SumEquation`) is proved by the least
  counterexample (`LeastNat`, from the well-foundedness of the naturals), which
  takes the place of an induction rule. `Told(S, m)` then says of tables m what
  the events S make of each row: that rows fit each other (`Fits`), and, per
  table, what a set of events means without folding it (`OrdersTell`,
  `CartsTell`, ...). `ToldStep` shows that the newest event keeps it, one lemma
  per table; `ProjectedTells` concludes for every finite set of events, again by
  the least counterexample. `AttributedFollows` and `LabelledFollows` carry it
  over the two passes after the loop, `RebuildFollows` puts them together.
- *What the step rests on.* The events come last by occurredAt (`NewestIsLast`),
  so the first of a non-empty set does not move (`FirstStays`): that is why an
  order keeps its first store and takes its last amount, and why a refund dated
  before all else of its order leaves that order alone, however late it arrives.
- *The metrics.* `MetricsAre` bounds the shares of `TypeOK`, `MetricsFollowThem`
  takes the metrics from tables to events.
- *The benchmarks.* `KthValueIs` and `PercentileCounts`, `MedianCounts` turn a
  percentile into a count of peers below and above, for any number of them;
  `GapsAreRanked` shows with `RanksCount` (in a finite strict order, one more
  than how many come before is a bijection onto 1..n) that ranks are 1, 2, ...
  without repetition and follow the ratios.

Assumptions, each justified where it is declared or here: a retry delay is at least 1
(`Math.max(1, ...)`, worker-failure-policy.ts:159-165); an input of an attempt
has the shape its schemas parse (`InputParses`); a job id is of one identity; a
snapshot of a metric has the relation the metric's definition gives it
(independent-cafe-snapshots.ts:225-275), and the relation of a guardrail handed over is
one of the two its schema has. Of plans nothing is assumed: several may have one
id. For the read models: an event id is accepted
once, times are integers, and so are amounts (of a smallest unit), labels have a member and a date (`DatameshMemberLabelsRowSchema`)
and a count of payments that is not negative (rfm-member-labels.ts:16; it is
compared with 1 and 2 only, so its whole part is enough), peers are finitely many
with values or null, and `None` is none of these values.

Three hypotheses stand beside theorems, and all are needed. `ClocksFirst`, in the
property itself: callers take the clock before their input. Without it the property
fails, as section 4 remarks. `SoleRunner`:
one process runs the workers. Without it the property fails, as the run
`JobsOverlappingRuns` shows and finding 1 says. `AllKindsRequired`: attempts
require all four worker kinds. It is the default of prepared-attempt.ts:171 and
no caller passes another, but the parameter exists (prepared-attempt.ts:152),
and an attempt with fewer kinds lets its tools answer from records nobody
judged.

## 6. What is only model-checked, and what is left out

Only checked by TLC:

- liveness (`ClaimedJobSettles`, `RequestsEnd`): neither fairness
  nor ENABLED is in the prover's reach;
- what the runs that expect a violation show.

Left out, on purpose: heartbeat (no runner calls it, and it does not extend the
lease claim looks at); diagnostics redaction, logs and metrics (wording; that a
sink may throw is part of `AckLost`); an empty batch body;
the confidence of a segment from its words, evidence refs, the delta ratios of an
evidence draft beside their verdict, `buildMobileHqMerchantActionEvent`, the
parsing of label rows; payment and line ids that an event brings itself; the schema; building context bundles and the artifacts of a
draft; HTTP and PostgreSQL beyond atomic statements, row locks, unique
indexes and statement snapshots.

## 7. Plan

Done, in this order: `WorkerJobs` with its proofs, `JobEnqueue`,
`EventIngestion` with `RawEventStore`, `PosDelivery`, `PreparedAttempt` with
`AgentRun`; `MerchantReview` and `EvidenceStore` composed in `EvidenceWorker`;
`Projections`, `CafeSnapshots` and `PeerBenchmarks` composed in `ReadModels`;
the theorems of section 5. Next:

1. Action properties of `MerchantReview` (rows are only added, a decision is
   never changed) and of the audit of `AgentRun`, stated, checked and proved.
2. Payment ids that events bring themselves: two orders that share one share a
   row, which no tenant is part of.
3. The heartbeat statement, if a runner comes to call it.

Running: `tlc -config X.cfg M` with the module of the run as listed in
`PROJECT.json`; `tlapm M.tla` for the proofs of module M (a few minutes each).
