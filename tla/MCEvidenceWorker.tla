--------------------------- MODULE MCEvidenceWorker ---------------------------
(***************************************************************************)
(* Two plans of one id (two drafts of one agent run) and a plan of another *)
(* store.  The adapter may hand over any of three guardrails, one metric   *)
(* both monitored and not, one metric never measured.  Snapshots rise,     *)
(* fall, are weak (fewer than 10), have no data, are missing, or are of    *)
(* the other store.                                                        *)
(***************************************************************************)
EXTENDS EvidenceWorker, TLC

Guardrail(metric, relation) == [metric |-> metric, relation |-> relation]
Plan(id, store, guardrails) ==
  [id |-> id, store |-> store, metric |-> "avg_order_value", guardrails |-> guardrails]

MCPlans ==
  {Plan("p1", "s1", {Guardrail("refund_rate", "must_not_degrade"),
                     Guardrail("repurchase_90d_rate", "must_not_degrade")}),
   Plan("p1", "s1", {Guardrail("repurchase_90d_rate", "must_not_degrade")}),
   Plan("p2", "s2", {Guardrail("refund_rate", "must_not_degrade")})}

MCGuardrails ==
  {Guardrail("refund_rate", "must_not_degrade"), Guardrail("refund_rate", "monitor_only"),
   Guardrail("repurchase_90d_rate", "must_not_degrade")}

Relation == [avg_order_value |-> "growth_metric", refund_rate |-> "negative_guardrail",
             repurchase_90d_rate |-> "growth_metric"]
Snap(store, date, metric, value, denominator) ==
  [store |-> store, date |-> date, metric |-> metric, relation |-> Relation[metric],
   value |-> value, denominator |-> denominator]

MCSnapshots ==
  {Snap("s1", 1, "avg_order_value", 4, 10), Snap("s1", 2, "avg_order_value", 5, 9),
   Snap("s1", 3, "avg_order_value", NoValue, 0), Snap("s2", 1, "avg_order_value", 4, 10),
   Snap("s1", 1, "refund_rate", 1, 10), Snap("s1", 2, "refund_rate", 2, 10)}

MCGaps == {[id |-> "g1", store |-> "s1", segment |-> "c1"],
           [id |-> "g2", store |-> "s2", segment |-> "c2"]}

ReviewSymmetry == Permutations(Reviews)
===============================================================================
