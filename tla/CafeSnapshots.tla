----------------------------- MODULE CafeSnapshots -----------------------------
(***************************************************************************)
(* rebuildIndependentCafeSnapshots: the store profile, the segment and the *)
(* four metrics that independent-cafe-snapshots.ts computes for one store  *)
(* and date from projected tables.  A metric's value is in units of the    *)
(* fourth decimal, to which the code rounds it, and None for null.  The    *)
(* segment's confidence, read from words in names, is left out.            *)
(***************************************************************************)
EXTENDS Projections

MetricIds == {"repurchase_90d_rate", "avg_order_value", "refund_rate",
              "checkout_started_cart_rate"}

Relation == [repurchase_90d_rate |-> "growth_metric", avg_order_value |-> "growth_metric",
             refund_rate |-> "negative_guardrail",
             checkout_started_cart_rate |-> "funnel_metric"]

Scale == 10000
\* roundMetric(n / d) in units of 1/Scale; Math.round rounds a half up.
Rounded(n, d) == (2 * n * Scale + d) \div (2 * d)

\* The sum of what f gives its ids.
SumOf(f) ==
  LET sum[ids \in SUBSET DOMAIN f] ==
        IF ids = {} THEN 0
        ELSE LET id == CHOOSE id \in ids : TRUE IN f[id] + sum[ids \ {id}]
  IN sum[DOMAIN f]

Metric(n, d) ==
  [numerator |-> n, denominator |-> d, value |-> IF d = 0 THEN None ELSE Rounded(n, d)]

IdsOf(table, store) == {id \in DOMAIN table : table[id].store = store}

\* An order is paid once and for all: a refund changes its status and not paidAt.
PaidOrders(m, store) ==
  {id \in IdsOf(m.orders, store) :
     m.orders[id].paid # None /\ m.orders[id].amount # None}

LabelsOf(m, store) == {i \in DOMAIN m.labels : m.labels[i].store = store}

\* buildMetricSnapshot, for the four metrics.
Metrics(m, store) ==
  LET orders == PaidOrders(m, store)
      carts == IdsOf(m.carts, store)
      paying(n) == {i \in LabelsOf(m, store) : m.labels[i].payCnt90d >= n}
  IN [repurchase_90d_rate |-> Metric(Cardinality(paying(2)), Cardinality(paying(1))),
      avg_order_value |-> Metric(SumOf([id \in orders |-> m.orders[id].amount]),
                                 Cardinality(orders)),
      refund_rate |-> Metric(Cardinality(IdsOf(m.refunds, store)), Cardinality(orders)),
      checkout_started_cart_rate |->
        Metric(Cardinality({c \in carts : m.carts[c].status = "checkout_started"}),
               Cardinality(carts))]

\* The segment candidate of a store, and what the first confirmation of it by id says.
Segment(store, date, confirmations) ==
  LET about == {c \in confirmations : c.store = store /\ c.target = <<store, date>>} IN
  [id |-> <<store, date>>, store |-> store, date |-> date,
   status |-> IF about = {} THEN "unconfirmed"
              ELSE (CHOOSE c \in about : \A other \in about : c.id <= other.id).status]

SnapshotsOf(m, store, date, confirmations) ==
  [store |-> store, date |-> date,
   profile |-> [menus |-> Cardinality(IdsOf(m.menus, store)),
                items |-> Cardinality(IdsOf(m.items, store)),
                paidOrders |-> Cardinality(PaidOrders(m, store)),
                labels |-> Cardinality(LabelsOf(m, store))],
   segment |-> Segment(store, date, confirmations),
   metrics |-> Metrics(m, store)]
===============================================================================
