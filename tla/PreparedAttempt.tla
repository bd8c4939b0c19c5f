---------------------------- MODULE PreparedAttempt ----------------------------
(***************************************************************************)
(* The gate before an agent run (src/agent/prepared-attempt.ts): whether an *)
(* attempt is prepared or blocked, given the worker freshness its caller    *)
(* read, and what its read-only tools answer. Pure functions: the records   *)
(* of freshness are copied into the attempt and never read again.           *)
(***************************************************************************)
EXTENDS Integers, Sequences, SequencesExt

WorkerKind == {"projection", "snapshot", "benchmark", "evidence"}
RequiredWorkerKinds == <<"projection", "snapshot", "benchmark", "evidence">>

\* The kind a summary tool reads.
SummaryTool == [read_projection_summary |-> "projection", read_snapshot_summary |-> "snapshot",
                read_benchmark_opportunity_gaps |-> "benchmark",
                read_evidence_records |-> "evidence"]

ToolNames == DOMAIN SummaryTool \cup {"read_worker_freshness", "read_dead_letter_diagnosis"}

PreparedAttemptStatus ==
  {"prepared", "blocked_missing_freshness", "blocked_stale_freshness", "blocked_dead_letter",
   "blocked_tenant_mismatch", "blocked_policy"}

\* What the schemas of an input promise: records of freshness and required kinds in sequences.
InputParses(input) ==
  /\ input.refs \in Seq(ToSet(input.refs))
  /\ \A ref \in ToSet(input.refs) :
       ref.kind \in WorkerKind /\ ref.committedAt \in Nat /\ ref.size \in Nat /\ ref.raw \in BOOLEAN
  /\ input.required \in Seq(WorkerKind)
  /\ input.minimum \in Nat /\ input.maxToolResult \in Nat

\* A freshness record: [kind, store, source, job, committedAt, size, raw]. store stands for brand
\* and store, size for the bytes of its output summary, raw for a summary with forbidden data.
FirstOfKind(refs, kind) == SelectInSeq(refs, LAMBDA ref : ref.kind = kind)

\* The source every required record must share: that of the first record of a required kind.
ExpectedSource(input) ==
  input.refs[SelectInSeq(input.refs, LAMBDA ref : ref.kind \in ToSet(input.required))].source

\* What the record of one required kind says of the attempt.
RefStatus(input, kind) ==
  LET at == FirstOfKind(input.refs, kind)
      ref == input.refs[at]
  IN  IF at = 0 THEN "blocked_missing_freshness"
      ELSE IF ref.store # input.store \/ ref.source # ExpectedSource(input)
           THEN "blocked_tenant_mismatch"
      ELSE IF ref.committedAt < input.minimum THEN "blocked_stale_freshness"
      ELSE IF ref.raw THEN "blocked_policy"
      ELSE "prepared"

\* evaluatePreparedAttemptPolicy: identity and tool catalog, dead letters, then the first required
\* kind, in their order, that is not fit.
EvaluatePolicy(input) ==
  LET unfit == SelectInSeq(input.required, LAMBDA kind : RefStatus(input, kind) # "prepared")
  IN  IF input.freeForm \/ input.unsafeCatalog THEN "blocked_policy"
      ELSE IF input.deadLetters \cap ToSet(input.required) # {} THEN "blocked_dead_letter"
      ELSE IF unfit # 0 THEN RefStatus(input, input.required[unfit])
      ELSE "prepared"

\* prepareAgentAttempt: a seed over its budget blocks what the policy let through. minimum is kept
\* for the properties.
Prepare(input) ==
  LET policy == EvaluatePolicy(input)
  IN  [store |-> input.store, tools |-> input.catalog, maxToolResult |-> input.maxToolResult,
       minimum |-> input.minimum,
       status |-> IF policy = "prepared" /\ ~input.seedFits THEN "blocked_policy" ELSE policy,
       refs |-> IF policy = "prepared" THEN input.refs
                ELSE SelectSeq(input.refs, LAMBDA ref : ~ref.raw)]

-------------------------------------------------------------------------------

\* Mutant of RequireFreshnessRef: the last record of the kind.
LastFreshnessRef(attempt, kind) == SelectLastInSeq(attempt.refs, LAMBDA ref : ref.kind = kind)

\* requireFreshnessRef, 0 where it throws.
RequireFreshnessRef(attempt, kind) == FirstOfKind(attempt.refs, kind)

\* readSummary of the tool name for the job the harness asks about.
SummaryReadable(attempt, name, job) ==
  LET at == RequireFreshnessRef(attempt, SummaryTool[name])
  IN  /\ at # 0
      /\ attempt.refs[at].job = job
      /\ attempt.refs[at].size =< attempt.maxToolResult
      /\ ~attempt.refs[at].raw

\* A call [name, arg] of a tool of the attempt: arg is a kind for read_worker_freshness, a job for
\* a summary. Any other argument does not parse.
PreparedToolThrows(attempt, call) ==
  CASE call.name = "read_worker_freshness" ->
         attempt.status # "prepared" \/ RequireFreshnessRef(attempt, call.arg) = 0
    [] call.name \in DOMAIN SummaryTool ->
         attempt.status # "prepared" \/ ~SummaryReadable(attempt, call.name, call.arg)
    [] OTHER -> FALSE

\* The record a call that does not throw reads; read_dead_letter_diagnosis reads none and is
\* undefined for every attempt but a dead-lettered one.
RefRead(attempt, call) ==
  attempt.refs[RequireFreshnessRef(attempt,
    IF call.name = "read_worker_freshness" THEN call.arg ELSE SummaryTool[call.name])]

\* The bytes of the answer: a summary result holds the summary beside the record that holds it,
\* and a record takes one unit more than its summary.
AnswerSize(attempt, call) ==
  LET ref == RefRead(attempt, call)
  IN  IF call.name = "read_worker_freshness" THEN ref.size + 1 ELSE 2 * ref.size + 1
===============================================================================
