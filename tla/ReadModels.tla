------------------------------ MODULE ReadModels ------------------------------
(***************************************************************************)
(* From accepted raw events to ranked opportunity gaps: the projection,    *)
(* snapshot and benchmark workers, each of which rebuilds its output from  *)
(* the last output of the one before and replaces its own.  Events arrive  *)
(* in any order, whatever their occurredAt.  Claim, failure and checkpoint *)
(* are WorkerJobs'; here a run is its rebuild and its replaceAll.          *)
(***************************************************************************)
EXTENDS PeerBenchmarks

CONSTANTS
  Events,          \* raw events that may be accepted
  Labels,          \* the Datamesh rows the adapter has, ordered by member and date
  Store, Date,     \* the target of the snapshot and benchmark workers
  Confirmations,   \* what the merchant said of segments: [id, store, target, status]
  PeerInputs,      \* peers an adapter may have, the minimum asked for: [rows, segments, asked]
  MaxLog,          \* bound: accepted events
  NotBuilt         \* the output of a worker that has not run

Statuses == {"updated", "checkout_started", "opened", "paid", "refunded"}

ASSUME ReadModelsAssumption ==
  /\ None \notin Int \cup Statuses \cup {Store} /\ MaxLog \in Nat
  /\ \A e, f \in Events : e.id = f.id => e = f
  /\ \A e \in Events : e.id \in Int /\ e.time \in Int /\ e.amount \in Int \cup {None}
  /\ Labels \in Seq({Labels[i] : i \in DOMAIN Labels})
  /\ \A i \in DOMAIN Labels : /\ Labels[i].member # None /\ Labels[i].date \in Int
                               /\ Labels[i].payCnt90d \in Nat
  /\ \A peers \in PeerInputs :
       /\ peers.asked \in Int /\ IsFiniteSet(peers.rows)
       /\ \A row \in peers.rows : row.value \in Int \cup {None}

VARIABLES
  log,         \* accepted raw events, in the order they were received
  models,      \* InMemoryProjectionStore: the tables
  watermark,   \* of the projection worker's job: [count, last]
  snapshots,   \* InMemorySnapshotWorkerOutputStore, and the watermark it was built at: [at, rows]
  gaps         \* InMemoryBenchmarkWorkerOutputStore, and what it was built from: [peers, rows]

vars == <<log, models, watermark, snapshots, gaps>>

Init ==
  /\ log = <<>>
  /\ models = NotBuilt /\ watermark = NotBuilt /\ snapshots = NotBuilt /\ gaps = NotBuilt

\* An event id is accepted once (RawEventStore).
Accepted(e) ==
  /\ Len(log) < MaxLog
  /\ \A i \in DOMAIN log : log[i].id # e.id
  /\ log' = Append(log, e)
  /\ UNCHANGED <<models, watermark, snapshots, gaps>>

ReceivedUpTo(count) == {log[i] : i \in 1..count}

\* runProjectionWorker.  The watermark counts the events, and names the one received last.
RunProjectionWorker ==
  /\ models' = Rebuild(ReceivedUpTo(Len(log)), Labels)
  /\ watermark' = [count |-> Len(log), last |-> IF log = <<>> THEN None ELSE log[Len(log)].id]
  /\ UNCHANGED <<log, snapshots, gaps>>

RunSnapshotWorker ==
  /\ models # NotBuilt
  /\ snapshots' = [at |-> watermark.count,
                   rows |-> SnapshotsOf(models, Store, Date, Confirmations)]
  /\ UNCHANGED <<log, models, watermark, gaps>>

RunBenchmarkWorker(peers) ==
  /\ snapshots # NotBuilt
  /\ gaps' = [peers |-> peers, rows |-> OpportunityGaps(snapshots.rows, peers, Date, peers.asked)]
  /\ UNCHANGED <<log, models, watermark, snapshots>>

Next ==
  \/ \E e \in Events : Accepted(e)
  \/ RunProjectionWorker
  \/ RunSnapshotWorker
  \/ \E peers \in PeerInputs : RunBenchmarkWorker(peers)

Spec == Init /\ [][Next]_vars

-------------------------------------------------------------------------------
\* The outputs fit the tables of 0002, 0003 and 0004: their references (all but that of a
\* refund to its order, which a refund received alone does not keep) and their CHECKs, and the
\* two metrics that are shares of something are at most one.
TypeOK ==
  /\ Len(log) <= MaxLog
  /\ models # NotBuilt =>
       /\ \A id \in DOMAIN models.lines : models.lines[id].order \in DOMAIN models.orders
       /\ \A id \in DOMAIN models.payments : models.payments[id].order \in DOMAIN models.orders
       /\ \A id \in DOMAIN models.items :
            models.items[id].menu \in DOMAIN models.menus \cup {None}
       /\ DOMAIN models.profiles \subseteq DOMAIN models.members
       /\ \A id \in DOMAIN models.orders : models.orders[id].status # None
       /\ \A id \in DOMAIN models.carts : models.carts[id].status # None
       /\ \A id \in DOMAIN models.members :
            models.members[id].first <= models.members[id].last
       /\ \A id \in DOMAIN models.sessions :
            models.sessions[id].first <= models.sessions[id].last
  /\ snapshots # NotBuilt =>
       LET metrics == snapshots.rows.metrics IN
       /\ \A id \in MetricIds : metrics[id].value = None <=> metrics[id].denominator = 0
       /\ \A id \in {"repurchase_90d_rate", "checkout_started_cart_rate"} :
            metrics[id].value \in (0..Scale) \cup {None}
  /\ gaps # NotBuilt =>
       /\ \A b \in gaps.rows.benchmarks : b.min >= 3 /\ b.confidence \in 0..Scale
       /\ \A g \in gaps.rows.gaps : g.gap >= 0 /\ g.confidence \in 0..Scale

-------------------------------------------------------------------------------
\* What a set of events means, told without folding it.  First and last are by occurredAt.
FirstOf(events) == CHOOSE e \in events : \A f \in events : e = f \/ Before(e, f)
Ids(events) == {e.id : e \in events}

\* An event that names no order makes none, and a refund without an amount none either.
OrderEvents(read, order) ==
  {e \in read : e.name \in {"order_opened", "order_paid"} /\ e.order = order}
RefundEvents(read) ==
  {e \in read : e.name = "refund_recorded" /\ None \notin {e.order, e.refund, e.amount}}
Orders(read) == {e.order : e \in {x \in read : x.name \in {"order_opened", "order_paid"}}} \ {None}
Payments(read, order) == {e \in OrderEvents(read, order) : e.name = "order_paid"}
Priced(read, order) == {e \in OrderEvents(read, order) : e.amount # None}
\* A refund dated before anything else is known of its order leaves the order as it is.
Refunds(read, order) ==
  {e \in RefundEvents(read) : e.order = order /\ Before(FirstOf(OrderEvents(read, order)), e)}
Checkouts(read, order) == {e \in read : e.name = "checkout_started" /\ e.order = order}
CartEvents(read, cart) ==
  {e \in read : e.name \in {"cart_updated", "checkout_started"} /\ e.cart = cart}
PaidBy(read, member) ==
  {e \in read : e.name = "order_paid" /\ e.member = member /\ e.order # None}

OrderIs(read, order, row) ==
  LET settled == Payments(read, order) \cup Refunds(read, order)
      named == {e \in OrderEvents(read, order) : e.store # None}
  IN
  /\ row.status = IF settled = {} THEN "opened"
                  ELSE IF LastOf(settled).name = "order_paid" THEN "paid" ELSE "refunded"
  /\ row.paid = IF Payments(read, order) = {} THEN None ELSE LastOf(Payments(read, order)).time
  /\ row.amount = IF Priced(read, order) = {} THEN None ELSE LastOf(Priced(read, order)).amount
  /\ row.store = IF named = {} THEN None ELSE FirstOf(named).store
  /\ row.sources = Ids(OrderEvents(read, order) \cup Refunds(read, order))
  /\ row.attribution = Ids(Checkouts(read, order))

\* A cart is as its last event left it, a profile names the order its member paid last, and a
\* refund is the store's that recorded it last.
OthersAre(read, m) ==
  /\ \A cart \in DOMAIN m.carts :
       LET last == LastOf(CartEvents(read, cart)) IN
       m.carts[cart].status = IF last.name = "cart_updated" THEN "updated" ELSE "checkout_started"
  /\ \A member \in DOMAIN m.profiles :
       LET paid == PaidBy(read, member) IN
       m.profiles[member].order = IF paid = {} THEN None ELSE LastOf(paid).order
  /\ \A id \in DOMAIN m.refunds :
       m.refunds[id].store = LastOf({e \in RefundEvents(read) : e.refund = id}).store

ModelsFollow(read, m) ==
  /\ DOMAIN m.orders = Orders(read)
  /\ \A order \in DOMAIN m.orders : OrderIs(read, order, m.orders[order])
  /\ {m.payments[id].order : id \in DOMAIN m.payments} =
       {order \in Orders(read) :
          \E x \in Payments(read, order), y \in Priced(read, order) : y = x \/ Before(y, x)}
  /\ DOMAIN m.refunds = {e.refund : e \in RefundEvents(read)}
  /\ OthersAre(read, m)
  /\ {m.actions[id].source : id \in DOMAIN m.actions} =
       Ids({e \in read : e.name \in DOMAIN ActionNames /\ e.plan # None})

\* The metrics of the store, told from the same events.
MetricsFollow(read, metrics) ==
  LET mine(order) == LET named == {e \in OrderEvents(read, order) : e.store # None} IN
                     named # {} /\ FirstOf(named).store = Store
      paid == {order \in Orders(read) :
                 mine(order) /\ Payments(read, order) # {} /\ Priced(read, order) # {}}
      refunded == {id \in {e.refund : e \in RefundEvents(read)} :
                     LastOf({e \in RefundEvents(read) : e.refund = id}).store = Store}
  IN /\ metrics.refund_rate.numerator = Cardinality(refunded)
     /\ metrics.refund_rate.denominator = Cardinality(paid)
     /\ metrics.avg_order_value.numerator =
          SumOf([order \in paid |-> LastOf(Priced(read, order)).amount])

\* The read models are a function of the set of events received up to the watermark, whatever
\* the order they came in: POS events alone make an order, its payments and its refunds; its
\* status is the last settlement by occurredAt; a checkout is attributed whether it comes
\* before or after its order; and a store's metrics are told from the same events, so that an
\* order refunded later still counts as paid.
ReadModelsFollowEvents ==
  /\ watermark # NotBuilt =>
       /\ ModelsFollow(ReceivedUpTo(watermark.count), models)
       /\ watermark.count > 0 => log[watermark.count].id = watermark.last
  /\ snapshots # NotBuilt =>
       MetricsFollow(ReceivedUpTo(snapshots.at), snapshots.rows.metrics)

Beats(metric, x, y) == IF Direction(metric) = "higher_is_better" THEN x > y ELSE x < y
Better(g, peers) == {row \in PeerRows(g.metric, peers, Date) : Beats(g.metric, row.value, g.target)}
Enough(g, peers) ==
  LET stores == {row.store : row \in PeerRows(g.metric, peers, Date)} IN
  Cardinality(stores) >= 3 /\ Cardinality(stores) >= peers.asked

\* Whether so many peers do better than the store that a gap must be ranked, and so few that it
\* must not be: more than a quarter of the values, or half of them where lower is better.
ManyBetter(g, peers) ==
  (IF Direction(g.metric) = "higher_is_better" THEN 4 ELSE 2) * Cardinality(Better(g, peers))
    > Cardinality(PeerRows(g.metric, peers, Date))
FewBetter(g, peers) ==
  IF Direction(g.metric) = "higher_is_better" THEN ~ ManyBetter(g, peers)
  ELSE 2 * Cardinality(Better(g, peers)) < Cardinality(PeerRows(g.metric, peers, Date))

Earned(all, peers) ==
  LET ranked == {g \in all : g.rank > 0} IN
  /\ {g.rank : g \in ranked} = 1..Cardinality(ranked)
  /\ \A g, h \in ranked : g.rank < h.rank => RatioOrNone(g) >= RatioOrNone(h)
  /\ \A g \in all :
       /\ g \in ranked => Enough(g, peers) /\ ~ FewBetter(g, peers)
       /\ Enough(g, peers) /\ ManyBetter(g, peers) => g \in ranked

\* A ranked gap is earned: at least three stores were measured, and no fewer than the caller
\* asked for, and more than a quarter of the peer values (half of them, for a metric where
\* lower is better) beat the store's.  Every gap that many peers earn is ranked, ranks are
\* 1, 2, ... and follow the ratio.
GapsAreEarned == gaps # NotBuilt => Earned(gaps.rows.gaps, gaps.peers)
===============================================================================
