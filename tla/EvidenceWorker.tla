---------------------------- MODULE EvidenceWorker ----------------------------
(***************************************************************************)
(* Merchant review composed with the evidence worker: from an accepted and *)
(* applied plan and from snapshots of before and after, evidence-worker.ts *)
(* rebuilds an effect, guardrail results, a trajectory and an evidence     *)
(* record, and replaces its output by them.  The adapter that feeds it     *)
(* chooses among all rows, guardrails and snapshots there are: what must   *)
(* belong together is only what the functions compare.  Claim, failure and *)
(* checkpoint are WorkerJobs'; a function that throws writes nothing.      *)
(***************************************************************************)
EXTENDS MerchantReview, EvidenceStore

CONSTANTS
  Guardrails,  \* guardrails an adapter may hand over: [metric, relation]
  Snapshots,   \* metric snapshots: [store, date, metric, relation, value, denominator]
  Gaps,        \* opportunity gaps: [id, store, segment]
  MaxRuns      \* bound: runs of the worker that write

VARIABLES
  output,      \* the worker's output store: its latest output, if any, with its inputs
  runs

vars == <<reviewVars, output, runs>>

\* A metric's definition fixes the relation of its snapshots.
ASSUME WorkerAssumption ==
  /\ MaxRuns \in Nat
  /\ NoSnapshot \notin Snapshots
  /\ \A s \in Snapshots : s.value \in Int \cup {NoValue} /\ s.denominator \in Nat
  /\ \A s, t \in Snapshots : s.metric = t.metric => s.relation = t.relation
  /\ \A g \in Guardrails : g.relation \in {"must_not_degrade", "monitor_only"}

Init == ReviewInit /\ output = {} /\ runs = 0

\* The snapshots an adapter has of a metric, or none.
Available(metric) == {s \in Snapshots : s.metric = metric} \cup {NoSnapshot}
MetricsOf(guardrails) == {g.metric : g \in guardrails}
AvailableFor(guardrails) == {f \in [MetricsOf(guardrails) -> Snapshots \cup {NoSnapshot}] :
                               \A m \in MetricsOf(guardrails) : f[m] \in Available(m)}

\* What buildOutput computes; ids hold no more than these parts.  The guardrails reviewed are
\* those handed over, whatever the plan's are.
Built(plan, guardrails, acceptance, applied, gap, before, after, earlier, later) ==
  LET effect == ActionEffect(<<plan.id, before.date, after.date>>, plan, before, after)
      results == {GuardrailResult(<<plan.id, g.metric>>, plan, g, earlier[g.metric],
                                  later[g.metric]) : g \in guardrails}
      trajectory == Trajectory(<<plan.id>>, plan, acceptance, applied, effect, results)
  IN [effect |-> effect, results |-> results, trajectory |-> trajectory,
      record |-> EvidenceRecord(<<plan.id, gap.id>>, trajectory, gap, effect, results),
      input |-> [plan |-> plan, guardrails |-> guardrails, gap |-> gap, before |-> before,
                 after |-> after, earlier |-> earlier, later |-> later]]

\* Nothing compares the guardrails handed over with the plan's: they may be fewer, others, or
\* only monitored.
RunEvidenceWorker(plan, guardrails, acceptance, applied, gap) ==
  /\ runs < MaxRuns
  /\ acceptance.decision = "accepted"
  /\ \E before, after \in Available(plan.metric) \ {NoSnapshot} :
       /\ MetricPairFits(plan, plan.metric, before, after)
       /\ \E earlier, later \in AvailableFor(guardrails) :
            LET built == Built(plan, guardrails, acceptance, applied, gap, before, after,
                               earlier, later) IN
            /\ \A g \in guardrails :
                 GuardrailFits(plan, g, earlier[g.metric], later[g.metric])
            /\ TrajectoryFits(plan, acceptance, applied, built.effect, built.results)
            /\ EvidenceInputsFit(built.trajectory, gap, built.effect, built.results)
            /\ output' = {built}
  /\ runs' = runs + 1
  /\ UNCHANGED reviewVars

Next ==
  \/ ReviewNext /\ UNCHANGED <<output, runs>>
  \/ \E plan \in Plans, guardrails \in SUBSET Guardrails,
        acceptance \in decisions, applied \in lifecycle, gap \in Gaps :
       RunEvidenceWorker(plan, guardrails, acceptance, applied, gap)

Spec == Init /\ [][Next]_vars

-------------------------------------------------------------------------------
\* The tables satisfy their constraints, and the output what its schemas refine: no outcome
\* without data, a delta whenever there is data, adoption refs that hold the applied record.
TypeOK ==
  /\ ReviewTypeOK
  /\ runs \in 0..MaxRuns /\ (output = {} <=> runs = 0)
  /\ \A out \in output :
       /\ \A x \in out.results \cup {out.effect} :
            (x.measured.sampleStatus = "needs_more_data")
              = (x.outcome = "needs_more_data" /\ x.measured.delta = NoValue)
       /\ out.trajectory.applied \in out.record.adoptionRefs

\* Facts about a store come from a merchant's decision.  Of what evidence calls an adopted plan
\* there is a review with an accepting validation result, an acceptance in that review and a
\* record that it was applied, all of the plan's id; gap and snapshots are of the plan's store.
\* A confirmed preference goes back to a rejection of its store.  (experiment-review.ts keeps
\* no state: only what each function demands of its argument carries this from row to row.
\* It carries the plan's id alone: that review may be of another plan of one agent run.)
FactsFollowDecisions ==
  /\ \A out \in output :
       LET plan == out.input.plan IN
          /\ \E d \in decisions, review \in reviews :
               /\ d.id = out.trajectory.acceptance /\ d.decision = "accepted"
               /\ review.id = d.review /\ review.plan.id = plan.id
               /\ review.validation = "accept"
          /\ \E row \in lifecycle : /\ row.id = out.trajectory.applied
                                    /\ row.to = "applied" /\ row.plan = plan.id
          /\ out.input.gap.store = plan.store
          /\ \A x \in out.results \cup {out.effect} :
               {x.measured.before[1], x.measured.after[1]}
                 \in {{plan.store}, {"missing_before", "missing_after"}}
  /\ \A p \in preferences : \E c \in candidates, d \in decisions, review \in reviews :
       /\ p.candidate = c.id /\ c.rejection = d.id /\ d.decision = "rejected"
       /\ d.review = review.id /\ p.store = review.plan.store

\* The verdict is told again from the raw values alone: both snapshots have data, and the
\* second is better in its metric's own direction.
HasData(before, after) ==
  ~Missing(before, after)
    /\ \A s \in {before, after} : s.value # NoValue /\ s.denominator > 0
Better(before, after) ==
  IF before.relation = "negative_guardrail" THEN after.value < before.value
  ELSE after.value > before.value

\* The record's verdict is what its snapshots support: nothing is concluded when a single
\* measure handed over has no data; a success is an effect in the metric's own direction, and no
\* guardrail handed over as one that must not degrade is worse than before; and a verdict is
\* named mixed only for such a guardrail, whatever the effect was.  (verdictFor and what it
\* reads; of the plan's guardrails it says nothing: see NoHiddenPass.)
VerdictIsSound ==
  \A out \in output :
    LET verdict == out.record.verdict
        input == out.input
        Pairs == {<<input.before, input.after>>} \cup
                 {<<input.earlier[m], input.later[m]>> : m \in MetricsOf(input.guardrails)}
        broken == \E g \in input.guardrails :
                    /\ g.relation = "must_not_degrade"
                    /\ HasData(input.earlier[g.metric], input.later[g.metric])
                    /\ Better(input.later[g.metric], input.earlier[g.metric])
    IN IF \E pair \in Pairs : ~HasData(pair[1], pair[2]) THEN verdict = "needs_more_data"
       ELSE /\ verdict = "mixed_guardrail_degraded" <=> broken
            /\ verdict = "clean_success" <=> (~broken /\ Better(input.before, input.after))
            /\ verdict # "needs_more_data"

\* docs/evidence-store-v1.md:44: "Missing guardrail data produces `needs_more_data`; it is not
\* treated as passing."  A guardrail of the plan that no result has data of makes the verdict
\* needs_more_data.  (What the documentation says of the worker's output; the worker
\* (evidence-worker.ts:108) reviews the guardrails its adapter hands over and no others.)
NoHiddenPass ==
  \A out \in output : \A g \in out.input.plan.guardrails :
    (\A r \in out.results : r.metric = g.metric => r.outcome = "needs_more_data")
      => out.record.verdict = "needs_more_data"
===============================================================================
