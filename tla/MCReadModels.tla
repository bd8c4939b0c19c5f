----------------------------- MODULE MCReadModels -----------------------------
(***************************************************************************)
(* Two orders of one store.  The first is checked out from a cart, opened, *)
(* paid (the amount is in the opening event only) and refunded; the second *)
(* is paid with no opening event, and its refund is dated before it.  The  *)
(* cart is updated again after its checkout, two events share a time, and  *)
(* the opening event names no store.                                       *)
(***************************************************************************)
EXTENDS ReadModels, TLC

Blank == [session |-> None, member |-> None, cart |-> None, order |-> None, refund |-> None,
          menu |-> None, item |-> None, plan |-> None, amount |-> None, lines |-> {}]
Event(id, name, time, more) ==
  more @@ [id |-> id, name |-> name, time |-> time, store |-> "s1"] @@ Blank

MCEvents ==
  {Event(1, "checkout_started", 2, [cart |-> "c1", order |-> "o1", session |-> "b1"]),
   Event(2, "cart_updated", 3, [cart |-> "c1", session |-> "b1", member |-> "m1",
                                lines |-> {[item |-> "i1", menu |-> "n1"]}]),
   Event(3, "order_opened", 2, [order |-> "o1", store |-> None, amount |-> 4,
                                lines |-> {[item |-> "i1", menu |-> None]}]),
   Event(4, "order_paid", 4, [order |-> "o1", member |-> "m1"]),
   Event(5, "refund_recorded", 5, [order |-> "o1", refund |-> "r1", amount |-> 4]),
   Event(6, "order_paid", 3, [order |-> "o2", member |-> "m1", amount |-> 6]),
   Event(7, "refund_recorded", 1, [order |-> "o2", refund |-> "r2", amount |-> 1]),
   Event(8, "experiment_accepted", 4, [plan |-> "p1"])}

MCLabels ==
  <<[member |-> "m1", store |-> "s1", date |-> 4, paid |-> 4, payCnt90d |-> 2],
    [member |-> "m2", store |-> "s1", date |-> 4, paid |-> None, payCnt90d |-> 1],
    [member |-> "m3", store |-> None, date |-> 4, paid |-> 1, payCnt90d |-> 3]>>

MCConfirmations ==
  {[id |-> 1, store |-> "s1", target |-> <<"s1", 9>>, status |-> "rejected"],
   [id |-> 2, store |-> "s1", target |-> <<"s1", 9>>, status |-> "confirmed"]}

\* Peers p1, p2, ... with a segment of the date, and one value each of a metric.
Peers(metric, values) ==
  {[id |-> <<metric, i>>, store |-> i, date |-> 9, metric |-> metric, value |-> values[i]] :
     i \in DOMAIN values}
Segments(n) == {[store |-> i, date |-> 9] : i \in 1..n}

\* Three peers and too few, four peers of which one has no refund rate, and three values of
\* two stores beside a store without a segment.
Three == Peers("avg_order_value", <<30000, 50000, 70000>>)
           \cup Peers("refund_rate", <<0, 0, 5000>>)
MCPeerInputs ==
  {[rows |-> Three, segments |-> Segments(3), asked |-> 1],
   [rows |-> Three, segments |-> Segments(3), asked |-> 4],
   [rows |-> Peers("avg_order_value", <<30000, 50000, 50000, 70000>>)
               \cup Peers("refund_rate", <<2500, 5000, 10000, None>>)
               \cup Peers("repurchase_90d_rate", <<8000, 9000, 9500, 4000>>),
    segments |-> Segments(4), asked |-> 4],
   [rows |-> Peers("avg_order_value", <<70000, 70000, 70000>>)
               \cup {[id |-> <<"avg_order_value", 9>>, store |-> 1, date |-> 9,
                      metric |-> "avg_order_value", value |-> 60000]},
    segments |-> Segments(2), asked |-> 1]}
===============================================================================
