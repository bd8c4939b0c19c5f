---------------------------- MODULE PeerBenchmarks ----------------------------
(***************************************************************************)
(* rebuildPeerBenchmarkOpportunityGaps of opportunity-gaps.ts: how far a   *)
(* store's metrics are from the median or the 75th percentile of peers     *)
(* that stay anonymous, and in which order the gaps are worth a look.      *)
(* Values are in units of the fourth decimal, as in CafeSnapshots.         *)
(***************************************************************************)
EXTENDS CafeSnapshots

DefaultMinPeerStoreCount == 3

\* A caller may ask for more peers, never for fewer.
MinPeers(asked) == IF asked > DefaultMinPeerStoreCount THEN asked ELSE DefaultMinPeerStoreCount

Direction(metric) ==
  IF Relation[metric] = "negative_guardrail" THEN "lower_is_better" ELSE "higher_is_better"

SampleStatus(stores, min) ==
  IF stores >= min THEN "sufficient" ELSE IF stores > 0 THEN "weak_sample"
  ELSE "insufficient_sample"

\* benchmarkConfidence, in units of 1/Scale.
Confidence(status, stores, min) ==
  CASE status = "sufficient" ->
         LET grown == 7000 + (stores - min) * 500 IN IF grown < 9500 THEN grown ELSE 9500
    [] status = "weak_sample" -> 3500
    [] OTHER -> 1000

\* Mutant of NearestRank: one too high when n * quantile is whole.
RankTooHigh(n, quarters) == (n * quarters) \div 4 + 1

\* ceil(n * quantile), counted from one.
NearestRank(n, quarters) == (n * quarters + 3) \div 4

\* The k-th of the rows' values, from the smallest.
KthValue(rows, k) ==
  CHOOSE v \in {row.value : row \in rows} :
    /\ Cardinality({row \in rows : row.value < v}) < k
    /\ k <= Cardinality({row \in rows : row.value <= v})

\* An even number of values has a median between two of them, rounded half up.
Percentile(rows, quarters) ==
  LET n == Cardinality(rows) IN
  IF n = 0 THEN None
  ELSE IF quarters = 2 /\ n % 2 = 0
  THEN (KthValue(rows, n \div 2) + KthValue(rows, n \div 2 + 1) + 1) \div 2
  ELSE KthValue(rows, NearestRank(n, quarters))

\* The values of a metric on a date that stores with a segment of that date have.
PeerRows(metric, peers, date) ==
  {row \in peers.rows :
     /\ row.date = date /\ row.metric = metric /\ row.value # None
     /\ \E segment \in peers.segments : segment.store = row.store /\ segment.date = date}

Benchmark(metric, peers, date, asked) ==
  LET rows == PeerRows(metric, peers, date)
      stores == Cardinality({row.store : row \in rows})
      status == SampleStatus(stores, MinPeers(asked))
  IN [metric |-> metric, stores |-> stores, min |-> MinPeers(asked),
      status |-> status, median |-> Percentile(rows, 2), p75 |-> Percentile(rows, 3),
      confidence |-> Confidence(status, stores, MinPeers(asked))]

\* buildOpportunityGap and baseOpportunityGap; rank 0 is null.
Gap(snapshots, metric, benchmark) ==
  LET value == snapshots.metrics[metric].value
      higher == Direction(metric) = "higher_is_better"
      reference == IF higher THEN benchmark.p75 ELSE benchmark.median
      raw == IF reference = None THEN 0
             ELSE IF higher THEN reference - value ELSE value - reference
      gap == IF raw > 0 THEN raw ELSE 0
      sufficient == benchmark.status = "sufficient"
  IN [id |-> <<snapshots.store, snapshots.date, metric>>, store |-> snapshots.store,
      segment |-> snapshots.segment.id, metric |-> metric, target |-> value,
      basis |-> IF higher THEN "peer_p75" ELSE "peer_median", gap |-> gap,
      ratio |-> IF reference \in {None, 0} THEN None ELSE Rounded(gap, IF reference > 0 THEN reference ELSE -reference),
      status |-> benchmark.status,
      confidence |-> IF sufficient THEN benchmark.confidence ELSE 2000,
      interpretation |-> IF sufficient THEN "directional_non_causal_gap"
                         ELSE "insufficient_sample_not_ranked",
      rank |-> 0]

\* The order of the metrics' names.
Alphabetical == <<"avg_order_value", "checkout_started_cart_rate", "refund_rate",
                  "repurchase_90d_rate">>
ByName(metric) == CHOOSE i \in DOMAIN Alphabetical : Alphabetical[i] = metric
RatioOrNone(gap) == IF gap.ratio = None THEN -1 ELSE gap.ratio

\* Greater ratios first, a ratio that is null last, then by id.
RanksBefore(x, y) ==
  \/ RatioOrNone(x) > RatioOrNone(y)
  \/ RatioOrNone(x) = RatioOrNone(y) /\ ByName(x.metric) < ByName(y.metric)

Ranked(gaps) ==
  LET eligible == {g \in gaps : g.status = "sufficient" /\ g.gap > 0} IN
  {IF g \in eligible
   THEN [g EXCEPT !.rank = 1 + Cardinality({h \in eligible : RanksBefore(h, g)})] ELSE g :
     g \in gaps}

\* No segment of the date, nothing at all; a metric without a value has no gap.
OpportunityGaps(snapshots, peers, date, asked) ==
  IF snapshots.segment.date # date THEN [benchmarks |-> {}, gaps |-> {}]
  ELSE LET measured == {metric \in MetricIds :
                          snapshots.date = date /\ snapshots.metrics[metric].value # None}
       IN [benchmarks |-> {Benchmark(metric, peers, date, asked) : metric \in measured},
           gaps |-> Ranked({Gap(snapshots, metric, Benchmark(metric, peers, date, asked)) :
                              metric \in measured})]
===============================================================================
