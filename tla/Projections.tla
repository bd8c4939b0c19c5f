------------------------------ MODULE Projections ------------------------------
(***************************************************************************)
(* rebuildBusinessProjections: the fold of business-projections.ts over    *)
(* accepted raw events, in the order of their occurredAt and event id, and *)
(* the Datamesh member labels laid over it.  A table is a function from    *)
(* ids to rows.  A brand and a store are one store; names, reasons and     *)
(* other text no decision reads are left out.                              *)
(***************************************************************************)
EXTENDS Integers, Sequences, FiniteSets

CONSTANT None   \* undefined, or null

\* x ?? y
Or(x, y) == IF x = None THEN y ELSE x
Row(table, id, blank) == IF id \in DOMAIN table THEN table[id] ELSE blank

\* Every row of new, and of table those that new does not replace.
Over(new, table) ==
  [id \in DOMAIN new \cup DOMAIN table |-> IF id \in DOMAIN new THEN new[id] ELSE table[id]]
Put(table, id, row) == Over([key \in {id} |-> row], table)

Earlier(x, y) == IF x = None \/ y < x THEN y ELSE x
Later(x, y) == IF x = None THEN y ELSE IF y = None THEN x ELSE IF y > x THEN y ELSE x

\* Most rows have the store of the first event that names one, and every event since.
Seen(old, e) == [old EXCEPT !.store = Or(@, e.store), !.sources = @ \cup {e.id}]

BlankSession == [store |-> None, sources |-> {}, member |-> None, first |-> None, last |-> None]

SessionRow(table, e) ==
  [Seen(Row(table, e.session, BlankSession), e) EXCEPT
     !.member = Or(@, e.member), !.first = Earlier(@, e.time), !.last = Later(@, e.time)]

Sessions(m, e) ==
  IF e.session = None THEN m
  ELSE [m EXCEPT !.sessions = Put(@, e.session, SessionRow(@, e))]

BlankMember == [store |-> None, sources |-> {}, first |-> None, last |-> None]
BlankProfile == [store |-> None, sources |-> {}, order |-> None, paid |-> None]
MemberRow(table, e) ==
  [Seen(Row(table, e.member, BlankMember), e) EXCEPT !.first = Earlier(@, e.time),
                                                     !.last = Later(@, e.time)]
ProfileRow(table, e) == Seen(Row(table, e.member, BlankProfile), e)
PaidProfileRow(table, e) ==
  [ProfileRow(table, e) EXCEPT !.order = e.order, !.paid = Later(@, e.time)]

Members(m, e) ==
  IF e.member = None THEN m
  ELSE [m EXCEPT
    !.members = Put(@, e.member, MemberRow(@, e)),
    !.profiles = Put(@, e.member, ProfileRow(@, e))]

\* Mutant of MenusOf: the menus that only a line names are left out.
EventMenuOnly(e) == {e.menu} \ {None}

\* The menus and items an event names.  A line without a menu has the event's.
MenusOf(e) == ({e.menu} \cup {line.menu : line \in e.lines}) \ {None}
LineItems(e) == {line.item : line \in e.lines} \ {None}
ItemsOf(e) == ({e.item} \ {None}) \cup LineItems(e)
MenuFor(e, item) ==
  Or(IF item = e.item THEN e.menu ELSE None,
     IF item \in LineItems(e)
     THEN Or((CHOOSE line \in e.lines : line.item = item).menu, e.menu) ELSE None)

BlankMenu == [store |-> None, sources |-> {}]
BlankItem == [store |-> None, sources |-> {}, menu |-> None]
SeenMenus(table, e) == [id \in MenusOf(e) |-> Seen(Row(table, id, BlankMenu), e)]
SeenItems(table, e) ==
  [id \in ItemsOf(e) |->
     [Seen(Row(table, id, BlankItem), e) EXCEPT !.menu = Or(@, MenuFor(e, id))]]

\* projectMenuItem.  (projectCart upserts its lines once more, which changes nothing: every
\* field keeps its first value and the event is a source already.)
MenuItems(m, e) ==
  IF e.name \notin {"menu_item_viewed", "cart_updated"} /\ e.lines = {} THEN m
  ELSE [m EXCEPT
    !.menus = Over(SeenMenus(@, e), @),
    !.items = Over(SeenItems(@, e), @)]

BlankCart == [store |-> None, sources |-> {}, member |-> None, session |-> None,
              status |-> None, started |-> None, attribution |-> {}]
CartRow(table, e) ==
  [Seen(Row(table, e.cart, BlankCart), e) EXCEPT !.member = Or(@, e.member),
                                                 !.session = Or(@, e.session)]
UpdatedRow(table, e) == [CartRow(table, e) EXCEPT !.status = "updated"]
CheckoutRow(table, e) ==
  [CartRow(table, e) EXCEPT !.status = "checkout_started", !.started = e.time,
                            !.attribution = @ \cup {e.id}]

Cart(m, e) ==
  IF e.cart = None THEN m
  ELSE [m EXCEPT !.carts = Put(@, e.cart, UpdatedRow(@, e))]

CheckoutAttribution(m, e) ==
  [m EXCEPT !.carts = IF e.cart = None THEN @
                      ELSE Put(@, e.cart, CheckoutRow(@, e)),
            !.attribution = IF e.order = None THEN @
                            ELSE Put(@, e.order, Row(@, e.order, {}) \cup {e.id})]

BlankOrder == [store |-> None, sources |-> {}, member |-> None, status |-> None,
               opened |-> None, paid |-> None, amount |-> None, attribution |-> {}]

\* Mutant of AmountAfter: a payment event without an amount makes the order have none.
OwnAmountOnly(old, e) == e.amount

\* An event without an amount leaves the order the one it has.
AmountAfter(old, e) == Or(e.amount, old.amount)

OrderRow(old, e) ==
  LET paid == e.name = "order_paid" IN
  [Seen(old, e) EXCEPT !.member = Or(@, e.member), !.amount = AmountAfter(old, e),
                       !.status = IF paid THEN "paid" ELSE Or(@, "opened"),
                       !.opened = Or(@, IF paid THEN None ELSE e.time),
                       !.paid = IF paid THEN e.time ELSE @]

\* A line's id is made of the order's and the item's, and a payment's of the order's.
LinesOf(e) ==
  [id \in {e.order} \X LineItems(e) |-> [order |-> e.order, item |-> id[2], source |-> e.id]]
\* A payment or a refund.
PaymentRow(amount, e) ==
  [order |-> e.order, store |-> e.store, amount |-> amount, at |-> e.time, source |-> e.id]

\* projectOrder.  A payment has the amount of its order when its event has none, and is left
\* out when neither has.
Order(m, e) ==
  IF e.order = None THEN m
  ELSE LET old == Row(m.orders, e.order, BlankOrder)
           amount == AmountAfter(old, e)
           paid == e.name = "order_paid"
       IN [m EXCEPT
            !.orders = Put(@, e.order, OrderRow(old, e)),
            !.lines = Over(LinesOf(e), @),
            !.payments = IF paid /\ amount # None
                         THEN Put(@, <<e.order, "payment">>, PaymentRow(amount, e)) ELSE @,
            !.profiles = IF paid /\ e.member # None
                         THEN Put(@, e.member, PaidProfileRow(@, e)) ELSE @]

RefundedOrders(table, e) ==
  IF e.order \in DOMAIN table
  THEN [table EXCEPT ![e.order].status = "refunded", ![e.order].sources = @ \cup {e.id}]
  ELSE table

\* projectRefund: kept whether or not its order is there, or ever comes.
Refund(m, e) ==
  IF None \in {e.order, e.refund, e.amount} THEN m
  ELSE [m EXCEPT
         !.refunds = Put(@, e.refund, PaymentRow(e.amount, e)),
         !.orders = RefundedOrders(@, e)]

ActionNames == [experiment_review_viewed |-> "review_viewed",
                experiment_accepted |-> "accepted", experiment_rejected |-> "rejected"]

MerchantAction(m, e) ==
  IF e.plan = None THEN m
  ELSE LET action == ActionNames[e.name]
           row == [plan |-> e.plan, store |-> e.store, action |-> action,
                   at |-> e.time, source |-> e.id]
       IN [m EXCEPT !.actions = Put(@, <<e.plan, action, e.id>>, row)]

ProjectEvent(m, e) ==
  LET general == MenuItems(Members(Sessions(m, e), e), e) IN
  CASE e.name = "cart_updated" -> Cart(general, e)
    [] e.name = "checkout_started" -> CheckoutAttribution(general, e)
    [] e.name \in {"order_opened", "order_paid"} -> Order(general, e)
    [] e.name = "refund_recorded" -> Refund(general, e)
    [] e.name \in DOMAIN ActionNames -> MerchantAction(general, e)
    [] OTHER -> general

\* After the loop: checkouts are attributed to the orders that are there by then, whichever
\* came first.
AttributedOrders(table, attribution) ==
  [id \in DOMAIN table |->
     [table[id] EXCEPT !.attribution = @ \cup Row(attribution, id, {})]]
Attributed(m) == [m EXCEPT !.orders = AttributedOrders(@, m.attribution)]

\* toMemberRfmSnapshotInput and the loop over the labels.  A label makes a member that no event
\* mentions; it never says which order was the latest.
LabelledMemberRow(table, label) ==
  [Row(table, label.member, BlankMember) EXCEPT
     !.store = Or(@, label.store), !.first = Earlier(@, label.date), !.last = Later(@, label.date)]
LabelledProfileRow(table, label) ==
  [Row(table, label.member, BlankProfile) EXCEPT
     !.store = Or(@, label.store), !.paid = Later(@, label.paid)]
Labelled(m, label) ==
  [m EXCEPT !.members = Put(@, label.member, LabelledMemberRow(@, label)),
            !.profiles = Put(@, label.member, LabelledProfileRow(@, label))]

NoRows == [id \in {} |-> None]
Tables == {"sessions", "carts", "orders", "lines", "payments", "refunds", "items", "menus",
           "members", "profiles", "actions", "attribution", "labels"}
NothingProjected == [table \in Tables |-> NoRows]

\* compareRawEvents.
Before(x, y) == x.time < y.time \/ (x.time = y.time /\ x.id < y.id)
LastOf(events) == CHOOSE e \in events : \A f \in events : e = f \/ Before(f, e)

\* What the loop has made of each set of events when it has seen them, in their order.
Projected(events) ==
  LET fold[read \in SUBSET events] ==
        IF read = {} THEN NothingProjected
        ELSE ProjectEvent(fold[read \ {LastOf(read)}], LastOf(read))
  IN fold

\* ... and what the loop over the labels has, after each: they are in the order of brand,
\* member and date.
WithLabels(m, labels) ==
  LET laid[n \in 0..Len(labels)] ==
        IF n = 0 THEN m ELSE Labelled(laid[n - 1], labels[n])
  IN laid

Rebuild(events, labels) ==
  [WithLabels(Attributed(Projected(events)[events]), labels)[Len(labels)] EXCEPT
     !.labels = labels]
===============================================================================
