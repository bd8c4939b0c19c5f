----------------------------- MODULE EvidenceStore -----------------------------
(***************************************************************************)
(* The deterministic functions of evidence-store.ts: what a before/after   *)
(* pair of metric snapshots says of an experiment (effect, guardrails),    *)
(* and which records together make a trajectory and an evidence record.    *)
(* Values are integers, multiples of the fourth decimal the code rounds    *)
(* snapshots to, so that the rounding of their difference changes nothing. *)
(***************************************************************************)
EXTENDS Integers, FiniteSets

CONSTANTS
  MinDenominator,   \* below it a sample is weak; 10 in the code
  NoValue,          \* null: the value of a snapshot with denominator 0
  NoSnapshot        \* a guardrail snapshot the adapter does not have

ASSUME EvidenceAssumption == MinDenominator \in Nat \ {0} /\ NoValue \notin Int

\* The id of a snapshot holds nothing but store, date and metric.
SnapshotId(s) == <<s.store, s.date, s.metric>>

DirectionFor(relation) ==
  IF relation = "negative_guardrail" THEN "lower_is_better" ELSE "higher_is_better"

SampleStatusFor(before, after) ==
  LET pair == {before, after} IN
  IF \E s \in pair : s.value = NoValue \/ s.denominator = 0 THEN "needs_more_data"
  ELSE IF \E s \in pair : s.denominator < MinDenominator THEN "weak_sample"
  ELSE "sufficient"

ConfidenceLabelFor(status) ==
  CASE status = "sufficient" -> "medium"
    [] status = "weak_sample" -> "low"
    [] OTHER -> "needs_more_data"

InterpretationFor(status) ==
  IF status = "sufficient" THEN "directional_before_after_non_causal"
  ELSE "needs_more_data_missing_or_weak_sample"

DeltaValue(before, after) ==
  IF SampleStatusFor(before, after) = "needs_more_data" THEN NoValue
  ELSE after.value - before.value

OutcomeFor(delta, direction) ==
  IF delta = NoValue THEN "needs_more_data"
  ELSE IF delta = 0 THEN "unchanged"
  ELSE IF (direction = "higher_is_better") = (delta > 0) THEN "improved" ELSE "degraded"

\* assertMetricPair: both snapshots are of the plan's store and of the metric.  Their order
\* in time is not compared.
MetricPairFits(plan, metric, before, after) ==
  /\ before.store = plan.store /\ after.store = plan.store
  /\ before.metric = metric /\ after.metric = metric

\* The measured part that effects and guardrail results share.
Measured(before, after) ==
  LET status == SampleStatusFor(before, after) IN
  [before |-> SnapshotId(before), after |-> SnapshotId(after),
   delta |-> DeltaValue(before, after), direction |-> DirectionFor(before.relation),
   sampleStatus |-> status, confidenceLabel |-> ConfidenceLabelFor(status),
   interpretation |-> InterpretationFor(status)]

ActionEffect(id, plan, before, after) ==
  LET measured == Measured(before, after) IN
  [id |-> id, plan |-> plan.id, store |-> plan.store, metric |-> plan.metric,
   measured |-> measured, outcome |-> OutcomeFor(measured.delta, measured.direction)]

\* What a guardrail is given when one of its snapshots does not exist.
Unmeasured(metric) ==
  [before |-> <<"missing_before", metric>>, after |-> <<"missing_after", metric>>,
   delta |-> NoValue, direction |-> "higher_is_better", sampleStatus |-> "needs_more_data",
   confidenceLabel |-> "needs_more_data",
   interpretation |-> "needs_more_data_missing_or_weak_sample"]

\* Mutant of GuardrailOutcome: the relation is looked at before the data.
MonitorFirst(relation, measured) ==
  LET outcome == OutcomeFor(measured.delta, measured.direction) IN
  IF relation = "monitor_only" THEN "observed"
  ELSE IF outcome \in {"degraded", "needs_more_data"} THEN outcome ELSE "passed"

GuardrailOutcome(relation, measured) ==
  LET outcome == OutcomeFor(measured.delta, measured.direction) IN
  IF outcome = "needs_more_data" THEN "needs_more_data"
  ELSE IF relation = "monitor_only" THEN "observed"
  ELSE IF outcome = "degraded" THEN "degraded" ELSE "passed"

Missing(before, after) == before = NoSnapshot \/ after = NoSnapshot

\* reviewGuardrailResult throws unless the snapshots are missing or fit.
GuardrailFits(plan, guardrail, before, after) ==
  ~Missing(before, after) => MetricPairFits(plan, guardrail.metric, before, after)

GuardrailResult(id, plan, guardrail, before, after) ==
  LET measured == IF Missing(before, after) THEN Unmeasured(guardrail.metric)
                  ELSE Measured(before, after) IN
  [id |-> id, plan |-> plan.id, store |-> plan.store, metric |-> guardrail.metric,
   relation |-> guardrail.relation, measured |-> measured,
   outcome |-> GuardrailOutcome(guardrail.relation, measured)]

\* Mutant of VerdictFor: the effect is looked at before the guardrails.
EffectFirst(effect, results) ==
  IF effect.outcome = "improved" THEN "clean_success"
  ELSE IF effect.outcome = "needs_more_data" \/ \E r \in results : r.outcome = "needs_more_data"
    THEN "needs_more_data"
  ELSE IF \E r \in results : r.outcome = "degraded" THEN "mixed_guardrail_degraded"
  ELSE "no_clear_lift"

VerdictFor(effect, results) ==
  IF effect.outcome = "needs_more_data" \/ \E r \in results : r.outcome = "needs_more_data"
    THEN "needs_more_data"
  ELSE IF \E r \in results : r.outcome = "degraded" THEN "mixed_guardrail_degraded"
  ELSE IF effect.outcome = "improved" THEN "clean_success"
  ELSE "no_clear_lift"

\* Mutant of TrajectoryFits: the plan of the acceptance is not compared.
AcceptanceUnchecked(plan, acceptance, applied, effect, results) ==
  /\ applied.plan = plan.id
  /\ applied.to = "applied"
  /\ \A x \in results \cup {effect} : x.plan = plan.id /\ x.store = plan.store
  /\ effect.metric = plan.metric

\* assembleInterventionTrajectory: one plan throughout, and a record that it was applied.
\* Neither the review of the acceptance nor the acceptance the record names is compared.
TrajectoryFits(plan, acceptance, applied, effect, results) ==
  /\ acceptance.plan = plan.id /\ applied.plan = plan.id
  /\ applied.to = "applied"
  /\ \A x \in results \cup {effect} : x.plan = plan.id /\ x.store = plan.store
  /\ effect.metric = plan.metric

Trajectory(id, plan, acceptance, applied, effect, results) ==
  LET verdict == VerdictFor(effect, results) IN
  [id |-> id, plan |-> plan.id, review |-> acceptance.review, store |-> plan.store,
   acceptance |-> acceptance.id, applied |-> applied.id, effect |-> effect.id,
   guardrails |-> {r.id : r \in results}, adoptionRefs |-> {acceptance.id, applied.id},
   verdict |-> verdict,
   interpretation |-> IF verdict = "needs_more_data"
                      THEN "needs_more_data_missing_or_weak_sample"
                      ELSE "directional_before_after_non_causal"]

\* assertEvidenceRecordInputs.  That the gap is the one the plan was made for is not compared.
EvidenceInputsFit(trajectory, gap, effect, results) ==
  /\ trajectory.plan = effect.plan /\ trajectory.effect = effect.id
  /\ gap.store = effect.store
  /\ trajectory.guardrails = {r.id : r \in results}
  /\ \A r \in results : r.plan = trajectory.plan /\ r.store = effect.store

EvidenceRecord(id, trajectory, gap, effect, results) ==
  [id |-> id, trajectory |-> trajectory.id, segment |-> gap.segment, gap |-> gap.id,
   plan |-> trajectory.plan, outcome |-> effect.id, guardrails |-> {r.id : r \in results},
   adoptionRefs |-> trajectory.adoptionRefs, verdict |-> trajectory.verdict,
   interpretation |-> trajectory.interpretation]
===============================================================================
