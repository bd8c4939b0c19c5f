------------------------- MODULE EventIngestionProofs -------------------------
(***************************************************************************)
(* Theorems about EventIngestion, for every set of requests, events,       *)
(* credentials and submissions.                                            *)
(*                                                                         *)
(* The argument: rows are never changed or removed and both of their       *)
(* unique keys stay unique, so what an item has learned of the table - a   *)
(* key is taken, this row has its identity - stays true while other        *)
(* requests run.  An identity whose row one item has inserted belongs to   *)
(* that item, which is the only one to hand the fact to the sink.          *)
(***************************************************************************)
EXTENDS EventIngestionRefinement, SequenceTheorems, TLAPS

Request == [route : Routes, credential : Credentials \cup {NoCredential},
            items : Seq(Item), status : Status]

\* What can be sent: every submission, and what other modules let producers send.
WellFormed(s) ==
  /\ s.route \in Routes /\ s.credential \in Credentials \cup {NoCredential}
  /\ s.payloads \in Seq(Payloads)

\* Rows were permitted to their senders, and neither of their keys is used twice.
RowsOk ==
  /\ \A row \in rawEvents : Verdict(row.event, row.credential) = "permitted"
  /\ \A x, y \in rawEvents :
       x.event.eventId = y.event.eventId \/ Identity(x.event) = Identity(y.event) => x = y

\* What an item knows where it is.
ItemOk(r, i) ==
  LET item == request[r].items[i]
      p == item.payload IN
  /\ request[r].credential \in Credentials
  /\ item.step \in {"audit", "rejected"} => Verdict(p, request[r].credential) # "permitted"
  /\ item.step \notin {"audit", "rejected", "threw"} =>
       Verdict(p, request[r].credential) = "permitted"
  /\ item.step = "rejected" => RejectionOf(r, i) \in invalidEvents
  /\ item.step = "byEventId" => SameEventId(p) # {} \/ SameIdentity(p) # {}
  /\ item.step = "byIdentity" => SameIdentity(p) # {}
  /\ item.step = "conflict" => SameEventId(p) \ SameIdentity(p) # {}
  /\ item.step \in {"inserted", "accepted"} =>
       item.row = {RowOf(r, i)} /\ RowOf(r, i) \in rawEvents
  /\ item.step = "duplicate" => \E row \in SameIdentity(p) : item.row = {row}

\* An item that has inserted its row and not yet told the sink.
Pending(r, i) == i \in DOMAIN request[r].items /\ request[r].items[i].step = "inserted"

\* A fact the sink was told of is stored and nobody's any more; a fact that is pending is one
\* item's, and the sink does not know it.
ForwardOk ==
  /\ \A e \in Events : forwarded[e] > 0 =>
       forwarded[e] = 1 /\ \E row \in rawEvents : row.event = e
  /\ \A r \in Requests : \A i \in DOMAIN request[r].items : Pending(r, i) =>
       \A e \in Events : Identity(e) = Identity(PayloadOf(r, i)) => forwarded[e] = 0
  /\ \A r, q \in Requests : \A i \in DOMAIN request[r].items, k \in DOMAIN request[q].items :
       /\ Pending(r, i) /\ Pending(q, k)
       /\ Identity(PayloadOf(r, i)) = Identity(PayloadOf(q, k))
       => r = q /\ i = k

ItemsOk == \A r \in Requests : \A i \in DOMAIN request[r].items : ItemOk(r, i)

IngestInv == TypeOK /\ RowsOk /\ ItemsOk /\ ForwardOk

-------------------------------------------------------------------------------
(* Types.                                                                  *)

\* Every payload has a verdict; only events, from a configured credential, can be permitted.
LEMMA VerdictTyped ==
  ASSUME NEW p \in Payloads, NEW c
  PROVE  /\ Verdict(p, c) \in Reasons \cup {"permitted"}
         /\ Verdict(p, c) = "permitted" => p \in Events /\ p.merchant = c.merchant
  BY DEF Verdict, Reasons, Payloads

LEMMA ItemTyped ==
  ASSUME TypeOK, NEW r \in Requests
  PROVE  /\ request[r] \in Request /\ request[r].items \in Seq(Item)
         /\ Len(request[r].items) \in Nat
         /\ DOMAIN request[r].items = 1..Len(request[r].items)
         /\ \A i \in DOMAIN request[r].items :
              /\ request[r].items[i] \in Item
              /\ request[r].items[i].payload \in Payloads
              /\ request[r].items[i].step \in ItemStep
              /\ request[r].items[i].row \subseteq Row
<1>1. request[r] \in Request /\ request[r].items \in Seq(Item)
  BY DEF TypeOK, Request
<1>2. /\ DOMAIN request[r].items = 1..Len(request[r].items)
      /\ Len(request[r].items) \in Nat
  BY <1>1
<1>3. \A i \in DOMAIN request[r].items : request[r].items[i] \in Item
  BY <1>1, <1>2, ElementOfSeq
<1>4. QED
  BY <1>1, <1>2, <1>3 DEF Item

\* A step of one item: the item moves, its payload and everything else of its request and of
\* the other requests stay.
LEMMA MoveEffect ==
  ASSUME TypeOK, NEW r \in Requests, NEW i \in DOMAIN request[r].items,
         NEW step \in ItemStep, NEW row \in SUBSET Row, Move(r, i, step, row)
  PROVE  /\ request' \in [Requests -> Request]
         /\ \A q \in Requests \ {r} : request'[q] = request[q]
         /\ request'[r].credential = request[r].credential
         /\ request'[r].status = request[r].status
         /\ request'[r].route = request[r].route
         /\ DOMAIN request'[r].items = DOMAIN request[r].items
         /\ \A k \in DOMAIN request[r].items \ {i} : request'[r].items[k] = request[r].items[k]
         /\ request'[r].items[i].payload = request[r].items[i].payload
         /\ request'[r].items[i].step = step
         /\ request'[r].items[i].row = row
<1> DEFINE items == request[r].items
           new == [payload |-> items[i].payload, step |-> step, row |-> row]
<1>1. /\ request \in [Requests -> Request] /\ items \in Seq(Item)
      /\ DOMAIN items = 1..Len(items) /\ i \in 1..Len(items) /\ items[i] \in Item
  BY ItemTyped DEF TypeOK, Request
<1>2. new \in Item /\ [[items[i] EXCEPT !.step = step] EXCEPT !.row = row] = new
  <2>1. items[i].payload \in Payloads /\ items[i].step \in ItemStep /\ items[i].row \in SUBSET Row
    BY <1>1 DEF Item
  <2>2. new \in Item
    BY <2>1 DEF Item
  <2>3. items[i] = [payload |-> items[i].payload, step |-> items[i].step, row |-> items[i].row]
    BY <1>1 DEF Item
  <2>4. [items[i] EXCEPT !.step = step] =
          [payload |-> items[i].payload, step |-> step, row |-> items[i].row]
    BY <2>3
  <2>5. [[payload |-> items[i].payload, step |-> step, row |-> items[i].row] EXCEPT !.row = row]
          = new
    OBVIOUS
  <2>6. QED
    BY <2>2, <2>4, <2>5 DEF items
<1>3. request' = [request EXCEPT ![r].items = [items EXCEPT ![i] = new]]
  <2>1. request' = [[request EXCEPT ![r].items[i].step = step] EXCEPT ![r].items[i].row = row]
    BY DEF Move
  <2>2. [request EXCEPT ![r].items[i].step = step][r].items[i] = [items[i] EXCEPT !.step = step]
    BY <1>1 DEF Request
  <2>3. request' = [request EXCEPT ![r].items[i] =
                      [[items[i] EXCEPT !.step = step] EXCEPT !.row = row]]
    BY <1>1, <2>1, <2>2 DEF Request
  <2>4. request' = [request EXCEPT ![r].items[i] = new]
    BY <1>2, <2>3
  <2>5. QED
    BY <2>4
<1>4. /\ [items EXCEPT ![i] = new] \in Seq(Item)
      /\ Len([items EXCEPT ![i] = new]) = Len(items)
      /\ \A k \in 1..Len(items) : [items EXCEPT ![i] = new][k] = IF k = i THEN new ELSE items[k]
  <2> HIDE DEF items, new
  <2>1. QED
    BY <1>1, <1>2, ExceptSeq
<1>5. request'[r] = [request[r] EXCEPT !.items = [items EXCEPT ![i] = new]]
  BY <1>1, <1>3
<1>6. request'[r].items = [items EXCEPT ![i] = new]
  BY <1>1, <1>5 DEF Request
<1>7. request'[r] \in Request /\ request' \in [Requests -> Request]
  <2>1. request'[r] \in Request
    <3> HIDE DEF items, new
    <3>1. request[r] \in Request
      BY <1>1
    <3>2. QED
      BY <1>4, <1>5, <3>1 DEF Request
  <2>2. \A q \in Requests \ {r} : request'[q] = request[q]
    BY <1>1, <1>3
  <2>3. request' = [request EXCEPT ![r] = request'[r]]
    BY <1>1, <1>3
  <2>4. QED
    BY <1>1, <2>1, <2>3
<1>8. DOMAIN request'[r].items = DOMAIN items
  BY <1>1, <1>4, <1>6
<1>9. QED
  BY <1>1, <1>3, <1>4, <1>5, <1>6, <1>7, <1>8 DEF Request

-------------------------------------------------------------------------------
(* What survives the steps of others.                                      *)

\* Rows and rejections are only ever added.
TablesGrow == rawEvents \subseteq rawEvents' /\ invalidEvents \subseteq invalidEvents'

LEMMA KeysStayTaken ==
  ASSUME TablesGrow, NEW p
  PROVE  SameEventId(p) \subseteq SameEventId(p)' /\ SameIdentity(p) \subseteq SameIdentity(p)'
  BY DEF TablesGrow, SameEventId, SameIdentity

\* An item that does not move keeps what it knows.
LEMMA ItemKept ==
  ASSUME ItemsOk, TablesGrow, NEW r \in Requests, NEW i \in DOMAIN request[r].items,
         request'[r].items[i] = request[r].items[i],
         request'[r].credential = request[r].credential
  PROVE  ItemOk(r, i)'
<1>1. ItemOk(r, i)
  BY DEF ItemsOk
<1>2. /\ SameEventId(PayloadOf(r, i)) \subseteq SameEventId(PayloadOf(r, i))'
      /\ SameIdentity(PayloadOf(r, i)) \subseteq SameIdentity(PayloadOf(r, i))'
      /\ (SameEventId(PayloadOf(r, i)) \ SameIdentity(PayloadOf(r, i))) \subseteq
           (SameEventId(PayloadOf(r, i)) \ SameIdentity(PayloadOf(r, i)))'
      /\ RejectionOf(r, i)' = RejectionOf(r, i) /\ RowOf(r, i)' = RowOf(r, i)
  BY DEF TablesGrow, SameEventId, SameIdentity, PayloadOf, RejectionOf, RowOf
<1>3. QED
  BY <1>1, <1>2 DEF ItemOk, PayloadOf, TablesGrow

\* Where nothing new is pending and the sink is not called, it knows the same.
LEMMA ForwardKept ==
  ASSUME ForwardOk, TablesGrow, forwarded' = forwarded,
         \A r \in Requests : \A i \in DOMAIN request'[r].items :
           Pending(r, i)' => Pending(r, i) /\ PayloadOf(r, i)' = PayloadOf(r, i)
  PROVE  ForwardOk'
<1>1. \A e \in Events : forwarded'[e] > 0 =>
        forwarded'[e] = 1 /\ \E row \in rawEvents' : row.event = e
  BY DEF ForwardOk, TablesGrow
<1>2. ASSUME NEW r \in Requests, NEW i \in DOMAIN request'[r].items, Pending(r, i)'
      PROVE  /\ i \in DOMAIN request[r].items /\ Pending(r, i)
             /\ PayloadOf(r, i)' = PayloadOf(r, i)
  BY <1>2 DEF Pending
<1>3. \A r \in Requests : \A i \in DOMAIN request'[r].items : Pending(r, i)' =>
        \A e \in Events : Identity(e) = Identity(PayloadOf(r, i)') => forwarded'[e] = 0
  BY <1>2 DEF ForwardOk
<1>4. \A r, q \in Requests :
        \A i \in DOMAIN request'[r].items, k \in DOMAIN request'[q].items :
          /\ Pending(r, i)' /\ Pending(q, k)'
          /\ Identity(PayloadOf(r, i)') = Identity(PayloadOf(q, k)')
          => r = q /\ i = k
  BY <1>2 DEF ForwardOk
<1>5. QED
  BY <1>1, <1>3, <1>4 DEF ForwardOk, Identity

-------------------------------------------------------------------------------
(* The steps of an item.                                                   *)

LEMMA MoveInvariant ==
  ASSUME IngestInv, NEW r \in Requests, NEW i \in DOMAIN request[r].items,
         NEW step \in ItemStep, NEW row \in SUBSET Row, Move(r, i, step, row),
         TablesGrow, rawEvents' \subseteq Row, invalidEvents' \subseteq Rejection,
         forwarded' \in [Events -> Nat], RowsOk', ItemOk(r, i)', ForwardOk'
  PROVE  IngestInv'
<1>1. TypeOK /\ ItemsOk
  BY DEF IngestInv
<1>2. TypeOK'
  BY <1>1, MoveEffect DEF TypeOK, Request
<1>3. ASSUME NEW q \in Requests, NEW k \in DOMAIN request'[q].items PROVE ItemOk(q, k)'
  <2>1. CASE q = r /\ k = i
    BY <2>1
  <2>2. CASE ~(q = r /\ k = i)
    <3>1. /\ k \in DOMAIN request[q].items /\ request'[q].items[k] = request[q].items[k]
          /\ request'[q].credential = request[q].credential
      BY <1>1, <2>2, MoveEffect
    <3>2. QED
      BY <1>1, <3>1, ItemKept
  <2>3. QED
    BY <2>1, <2>2
<1>4. QED
  BY <1>2, <1>3 DEF IngestInv, ItemsOk

\* A step that neither stores a row nor calls the sink needs to account for its item only.
LEMMA QuietMove ==
  ASSUME IngestInv, NEW r \in Requests, NEW i \in DOMAIN request[r].items,
         NEW step \in ItemStep \ {"inserted"}, NEW row \in SUBSET Row, Move(r, i, step, row),
         rawEvents' = rawEvents, forwarded' = forwarded,
         invalidEvents \subseteq invalidEvents', invalidEvents' \subseteq Rejection,
         ItemOk(r, i)'
  PROVE  IngestInv'
<1>1. TypeOK /\ RowsOk /\ ForwardOk /\ TablesGrow
  BY DEF IngestInv, TablesGrow
<1>2. rawEvents' \subseteq Row /\ forwarded' \in [Events -> Nat]
  BY <1>1 DEF TypeOK
<1>3. RowsOk'
  BY <1>1 DEF RowsOk, Verdict, Identity
<1>4. ASSUME NEW q \in Requests, NEW k \in DOMAIN request'[q].items, Pending(q, k)'
      PROVE  Pending(q, k) /\ PayloadOf(q, k)' = PayloadOf(q, k)
  <2>1. ~(q = r /\ k = i)
    BY <1>1, <1>4, MoveEffect DEF Pending
  <2>2. k \in DOMAIN request[q].items /\ request'[q].items[k] = request[q].items[k]
    BY <1>1, <2>1, MoveEffect
  <2>3. QED
    BY <1>4, <2>2 DEF Pending, PayloadOf
<1>5. ForwardOk'
  BY <1>1, <1>4, ForwardKept
<1>6. QED
  BY <1>1, <1>2, <1>3, <1>5, MoveInvariant

\* What the insert of a row needs to know of the item that does it.
LEMMA InsertingItem ==
  ASSUME IngestInv, NEW r \in Requests, NEW i, At(r, i, "insert"), StoreRow(r, i)
  PROVE  /\ i \in DOMAIN request[r].items /\ PayloadOf(r, i) \in Events
         /\ RowOf(r, i) \in Row /\ rawEvents' \subseteq Row /\ RowsOk'
         /\ \A row \in rawEvents : Identity(row.event) # Identity(PayloadOf(r, i))
<1>1. /\ i \in DOMAIN request[r].items /\ request[r].items[i].step = "insert"
      /\ TypeOK /\ ItemOk(r, i) /\ RowsOk
  BY DEF At, IngestInv, ItemsOk
<1>2. /\ PayloadOf(r, i) \in Payloads /\ request[r].credential \in Credentials
      /\ Verdict(PayloadOf(r, i), request[r].credential) = "permitted"
  BY <1>1, ItemTyped DEF ItemOk, PayloadOf
<1>3. PayloadOf(r, i) \in Events /\ RowOf(r, i) \in Row
  BY <1>2, VerdictTyped DEF RowOf, Row
<1>4. rawEvents' = rawEvents \cup {RowOf(r, i)} /\ rawEvents' \subseteq Row
  BY <1>1, <1>3 DEF StoreRow, TypeOK
<1>5. \A row \in rawEvents : /\ row.event.eventId # PayloadOf(r, i).eventId
                             /\ Identity(row.event) # Identity(PayloadOf(r, i))
  BY DEF StoreRow, SameEventId, SameIdentity
<1>6. /\ RowOf(r, i).event = PayloadOf(r, i)
      /\ RowOf(r, i).credential = request[r].credential
  BY DEF RowOf
<1>7. \A row \in rawEvents' : Verdict(row.event, row.credential) = "permitted"
  BY <1>1, <1>2, <1>4, <1>6 DEF RowsOk
<1>8. \A x, y \in rawEvents' :
        x.event.eventId = y.event.eventId \/ Identity(x.event) = Identity(y.event) => x = y
  BY <1>1, <1>4, <1>5, <1>6 DEF RowsOk
<1>9. RowsOk'
  BY <1>7, <1>8 DEF RowsOk, Verdict, Identity
<1>10. QED
  BY <1>1, <1>3, <1>4, <1>5, <1>9

\* The item that stores a row is the only one pending for its identity, and the sink has not
\* heard of it.
LEMMA InsertInvariant ==
  ASSUME IngestInv, NEW r \in Requests, NEW i, Insert(r, i)
  PROVE  IngestInv'
<1>1. /\ i \in DOMAIN request[r].items /\ At(r, i, "insert") /\ StoreRow(r, i)
      /\ Move(r, i, "inserted", {RowOf(r, i)})
      /\ invalidEvents' = invalidEvents /\ forwarded' = forwarded
      /\ TypeOK /\ ItemOk(r, i) /\ ForwardOk /\ ItemsOk
      /\ "inserted" \in ItemStep
  BY DEF Insert, At, IngestInv, ItemsOk, ItemStep
<1>2. /\ RowOf(r, i) \in Row /\ rawEvents' \subseteq Row /\ RowsOk'
      /\ rawEvents' = rawEvents \cup {RowOf(r, i)} /\ TablesGrow
      /\ \A row \in rawEvents : Identity(row.event) # Identity(PayloadOf(r, i))
  BY <1>1, InsertingItem DEF StoreRow, TablesGrow
<1>3. /\ request'[r].credential = request[r].credential
      /\ request'[r].items[i].payload = request[r].items[i].payload
      /\ request'[r].items[i].step = "inserted" /\ request'[r].items[i].row = {RowOf(r, i)}
      /\ \A q \in Requests \ {r} : request'[q] = request[q]
      /\ DOMAIN request'[r].items = DOMAIN request[r].items
      /\ \A k \in DOMAIN request[r].items \ {i} : request'[r].items[k] = request[r].items[k]
  BY <1>1, <1>2, MoveEffect
<1>4. ItemOk(r, i)'
  <2>1. RowOf(r, i)' = RowOf(r, i)
    BY <1>3 DEF RowOf, PayloadOf
  <2>2. Verdict(request'[r].items[i].payload, request'[r].credential) = "permitted"
        /\ request'[r].credential \in Credentials
    BY <1>1, <1>3 DEF ItemOk, At
  <2>3. QED
    BY <1>2, <1>3, <2>1, <2>2 DEF ItemOk, Verdict
<1>5. ASSUME NEW q \in Requests, NEW k \in DOMAIN request'[q].items, Pending(q, k)'
      PROVE  \/ q = r /\ k = i
             \/ /\ k \in DOMAIN request[q].items /\ Pending(q, k)
                /\ PayloadOf(q, k)' = PayloadOf(q, k)
                /\ Identity(PayloadOf(q, k)) # Identity(PayloadOf(r, i))
  <2> SUFFICES ASSUME ~(q = r /\ k = i)
               PROVE  /\ k \in DOMAIN request[q].items /\ Pending(q, k)
                      /\ PayloadOf(q, k)' = PayloadOf(q, k)
                      /\ Identity(PayloadOf(q, k)) # Identity(PayloadOf(r, i))
    OBVIOUS
  <2>1. k \in DOMAIN request[q].items /\ request'[q].items[k] = request[q].items[k]
    BY <1>3
  <2>2. Pending(q, k) /\ PayloadOf(q, k)' = PayloadOf(q, k)
    BY <1>5, <2>1 DEF Pending, PayloadOf
  <2>3. RowOf(q, k) \in rawEvents /\ RowOf(q, k).event = PayloadOf(q, k)
    BY <1>1, <2>1, <2>2 DEF ItemsOk, ItemOk, Pending, RowOf
  <2>4. QED
    BY <1>2, <2>1, <2>2, <2>3
<1>6. PayloadOf(r, i)' = PayloadOf(r, i)
  BY <1>3 DEF PayloadOf
<1>7. ForwardOk'
  <2>1. \A e \in Events : forwarded'[e] > 0 =>
          forwarded'[e] = 1 /\ \E row \in rawEvents' : row.event = e
    BY <1>1, <1>2 DEF ForwardOk, TablesGrow
  <2>2. ASSUME NEW q \in Requests, NEW k \in DOMAIN request'[q].items, Pending(q, k)',
               NEW e \in Events, Identity(e) = Identity(PayloadOf(q, k)')
        PROVE  forwarded'[e] = 0
    <3>1. CASE q = r /\ k = i
      <4>1. ~(forwarded[e] > 0)
        BY <1>1, <1>2, <1>6, <2>2, <3>1 DEF ForwardOk
      <4>2. QED
        BY <1>1, <4>1 DEF TypeOK
    <3>2. CASE ~(q = r /\ k = i)
      BY <1>1, <1>5, <2>2, <3>2 DEF ForwardOk
    <3>3. QED
      BY <3>1, <3>2
  <2>3. ASSUME NEW p \in Requests, NEW q \in Requests,
               NEW h \in DOMAIN request'[p].items, NEW k \in DOMAIN request'[q].items,
               Pending(p, h)', Pending(q, k)',
               Identity(PayloadOf(p, h)') = Identity(PayloadOf(q, k)')
        PROVE  p = q /\ h = k
    BY <1>1, <1>5, <1>6, <2>3 DEF ForwardOk
  <2>4. QED
    BY <2>1, <2>2, <2>3 DEF ForwardOk, Identity
<1>8. invalidEvents' \subseteq Rejection /\ forwarded' \in [Events -> Nat]
  BY <1>1 DEF TypeOK
<1>9. QED
  BY <1>1, <1>2, <1>4, <1>7, <1>8, MoveInvariant

\* The sink hears of a fact from the item that stored it, once.
LEMMA ForwardInvariant ==
  ASSUME IngestInv, NEW r \in Requests, NEW i, EnqueueProductAnalytics(r, i)
  PROVE  IngestInv'
<1>1. /\ i \in DOMAIN request[r].items /\ Pending(r, i)
      /\ Move(r, i, "accepted", request[r].items[i].row)
      /\ rawEvents' = rawEvents /\ invalidEvents' = invalidEvents /\ TablesGrow
      /\ forwarded' = [forwarded EXCEPT ![PayloadOf(r, i)] = @ + 1]
      /\ TypeOK /\ ItemOk(r, i) /\ ForwardOk /\ RowsOk
      /\ "accepted" \in ItemStep /\ request[r].items[i].row \in SUBSET Row
  BY ItemTyped
  DEF EnqueueProductAnalytics, At, Pending, IngestInv, ItemsOk, ItemStep, Ended, TablesGrow
<1>2. /\ request'[r].credential = request[r].credential
      /\ request'[r].items[i].payload = request[r].items[i].payload
      /\ request'[r].items[i].step = "accepted"
      /\ request'[r].items[i].row = request[r].items[i].row
      /\ \A q \in Requests \ {r} : request'[q] = request[q]
      /\ DOMAIN request'[r].items = DOMAIN request[r].items
      /\ \A k \in DOMAIN request[r].items \ {i} : request'[r].items[k] = request[r].items[k]
  BY <1>1, MoveEffect
<1>3. /\ PayloadOf(r, i) \in Events
      /\ \E row \in rawEvents : row.event = PayloadOf(r, i)
  <2>1. PayloadOf(r, i) \in Payloads
    BY <1>1, ItemTyped DEF PayloadOf
  <2>2. Verdict(PayloadOf(r, i), request[r].credential) = "permitted"
    BY <1>1 DEF ItemOk, Pending, PayloadOf
  <2>3. RowOf(r, i) \in rawEvents /\ RowOf(r, i).event = PayloadOf(r, i)
    BY <1>1 DEF ItemOk, Pending, RowOf
  <2>4. QED
    BY <2>1, <2>2, <2>3, VerdictTyped
<1>4. /\ forwarded[PayloadOf(r, i)] = 0 /\ forwarded' \in [Events -> Nat]
      /\ \A e \in Events : forwarded'[e] = IF e = PayloadOf(r, i) THEN 1 ELSE forwarded[e]
  BY <1>1, <1>3 DEF ForwardOk, TypeOK
<1>5. ItemOk(r, i)'
  <2>1. RowOf(r, i)' = RowOf(r, i)
    BY <1>2 DEF RowOf, PayloadOf
  <2>2. QED
    BY <1>1, <1>2, <2>1 DEF ItemOk, Pending, Verdict
<1>6. ASSUME NEW q \in Requests, NEW k \in DOMAIN request'[q].items, Pending(q, k)'
      PROVE  /\ k \in DOMAIN request[q].items /\ Pending(q, k)
             /\ PayloadOf(q, k)' = PayloadOf(q, k)
             /\ Identity(PayloadOf(q, k)) # Identity(PayloadOf(r, i))
  <2>1. ~(q = r /\ k = i)
    BY <1>2, <1>6 DEF Pending
  <2>2. k \in DOMAIN request[q].items /\ request'[q].items[k] = request[q].items[k]
    BY <1>2, <2>1
  <2>3. Pending(q, k) /\ PayloadOf(q, k)' = PayloadOf(q, k)
    BY <1>6, <2>2 DEF Pending, PayloadOf
  <2>4. QED
    BY <1>1, <2>1, <2>2, <2>3 DEF ForwardOk
<1>7. ForwardOk'
  <2>1. \A e \in Events : forwarded'[e] > 0 =>
          forwarded'[e] = 1 /\ \E row \in rawEvents' : row.event = e
    BY <1>1, <1>3, <1>4 DEF ForwardOk
  <2>2. ASSUME NEW q \in Requests, NEW k \in DOMAIN request'[q].items, Pending(q, k)',
               NEW e \in Events, Identity(e) = Identity(PayloadOf(q, k)')
        PROVE  forwarded'[e] = 0
    BY <1>1, <1>4, <1>6, <2>2 DEF ForwardOk
  <2>3. ASSUME NEW p \in Requests, NEW q \in Requests,
               NEW h \in DOMAIN request'[p].items, NEW k \in DOMAIN request'[q].items,
               Pending(p, h)', Pending(q, k)',
               Identity(PayloadOf(p, h)') = Identity(PayloadOf(q, k)')
        PROVE  p = q /\ h = k
    BY <1>1, <1>6, <2>3 DEF ForwardOk
  <2>4. QED
    BY <2>1, <2>2, <2>3 DEF ForwardOk, Identity
<1>8. RowsOk' /\ rawEvents' \subseteq Row /\ invalidEvents' \subseteq Rejection
  BY <1>1 DEF RowsOk, Verdict, Identity, TypeOK
<1>9. QED
  BY <1>1, <1>4, <1>5, <1>7, <1>8, MoveInvariant

\* What a quiet step of an item leaves to show: what the item knows where it now is.
LEMMA QuietItem ==
  ASSUME IngestInv, NEW r \in Requests, NEW i \in DOMAIN request[r].items,
         NEW step \in ItemStep \ {"inserted"}, NEW row \in SUBSET Row, Move(r, i, step, row),
         rawEvents' = rawEvents
  PROVE  /\ request'[r].credential = request[r].credential
         /\ request'[r].items[i].payload = request[r].items[i].payload
         /\ request'[r].items[i].step = step /\ request'[r].items[i].row = row
         /\ SameEventId(PayloadOf(r, i))' = SameEventId(PayloadOf(r, i))
         /\ SameIdentity(PayloadOf(r, i))' = SameIdentity(PayloadOf(r, i))
         /\ RejectionOf(r, i)' = RejectionOf(r, i)
<1>1. /\ request'[r].credential = request[r].credential
      /\ request'[r].items[i].payload = request[r].items[i].payload
      /\ request'[r].items[i].step = step /\ request'[r].items[i].row = row
  BY MoveEffect DEF IngestInv
<1>2. QED
  BY <1>1 DEF SameEventId, SameIdentity, Identity, PayloadOf, RejectionOf, Verdict

LEMMA ConflictInvariant ==
  ASSUME IngestInv, NEW r \in Requests, NEW i,
         InsertViolatesUnique(r, i) \/ FindByEventId(r, i)
  PROVE  IngestInv'
<1> DEFINE p == PayloadOf(r, i)
<1>1. /\ i \in DOMAIN request[r].items /\ ItemOk(r, i)
      /\ UNCHANGED <<rawEvents, invalidEvents, forwarded>> /\ invalidEvents \subseteq Rejection
  BY DEF InsertViolatesUnique, FindByEventId, At, IngestInv, ItemsOk, TypeOK
<1>2. CASE InsertViolatesUnique(r, i)
  <2>1. Move(r, i, "byEventId", {}) /\ "byEventId" \in ItemStep \ {"inserted"}
    BY <1>2 DEF InsertViolatesUnique, ItemStep
  <2>2. /\ request'[r].credential = request[r].credential
        /\ request'[r].items[i].payload = request[r].items[i].payload
        /\ request'[r].items[i].step = "byEventId"
        /\ SameEventId(p)' = SameEventId(p) /\ SameIdentity(p)' = SameIdentity(p)
    BY <1>1, <2>1, QuietItem
  <2>3. ItemOk(r, i)'
    BY <1>1, <1>2, <2>2 DEF InsertViolatesUnique, At, ItemOk, PayloadOf, Verdict
  <2>4. QED
    BY <1>1, <2>1, <2>3, QuietMove
<1>3. CASE FindByEventId(r, i) /\ SameEventId(p) \ SameIdentity(p) # {}
  <2>1. Move(r, i, "conflict", {}) /\ "conflict" \in ItemStep \ {"inserted"}
    BY <1>3 DEF FindByEventId, ItemStep, Ended
  <2>2. /\ request'[r].credential = request[r].credential
        /\ request'[r].items[i].payload = request[r].items[i].payload
        /\ request'[r].items[i].step = "conflict"
        /\ SameEventId(p)' = SameEventId(p) /\ SameIdentity(p)' = SameIdentity(p)
    BY <1>1, <2>1, QuietItem
  <2>3. ItemOk(r, i)'
    BY <1>1, <1>3, <2>2 DEF FindByEventId, At, ItemOk, PayloadOf, Verdict
  <2>4. QED
    BY <1>1, <2>1, <2>3, QuietMove
<1>4. CASE FindByEventId(r, i) /\ SameEventId(p) \ SameIdentity(p) = {}
  <2>1. Move(r, i, "byIdentity", {}) /\ "byIdentity" \in ItemStep \ {"inserted"}
    BY <1>4 DEF FindByEventId, ItemStep
  <2>2. /\ request'[r].credential = request[r].credential
        /\ request'[r].items[i].payload = request[r].items[i].payload
        /\ request'[r].items[i].step = "byIdentity"
        /\ SameEventId(p)' = SameEventId(p) /\ SameIdentity(p)' = SameIdentity(p)
    BY <1>1, <2>1, QuietItem
  <2>3. SameIdentity(p) # {}
    BY <1>1, <1>4 DEF FindByEventId, At, ItemOk, PayloadOf
  <2>4. ItemOk(r, i)'
    BY <1>1, <1>4, <2>2, <2>3 DEF FindByEventId, At, ItemOk, PayloadOf, Verdict
  <2>5. QED
    BY <1>1, <2>1, <2>4, QuietMove
<1>5. QED
  BY <1>2, <1>3, <1>4

\* The second SELECT finds the one row of the identity that made the INSERT fail.
LEMMA DuplicateInvariant ==
  ASSUME IngestInv, NEW r \in Requests, NEW i, FindByTenantIdempotency(r, i)
  PROVE  IngestInv'
<1> DEFINE p == PayloadOf(r, i)
<1>1. /\ i \in DOMAIN request[r].items /\ ItemOk(r, i) /\ SameIdentity(p) # {}
      /\ request[r].items[i].step = "byIdentity" /\ RowsOk
      /\ UNCHANGED <<rawEvents, invalidEvents, forwarded>> /\ invalidEvents \subseteq Rejection
      /\ SameIdentity(p) \in SUBSET Row
  BY DEF FindByTenantIdempotency, At, IngestInv, ItemsOk, ItemOk, TypeOK, PayloadOf, SameIdentity
<1>2. Move(r, i, "duplicate", SameIdentity(p)) /\ "duplicate" \in ItemStep \ {"inserted"}
  BY <1>1 DEF FindByTenantIdempotency, ItemStep, Ended
<1>3. /\ request'[r].credential = request[r].credential
      /\ request'[r].items[i].payload = request[r].items[i].payload
      /\ request'[r].items[i].step = "duplicate"
      /\ request'[r].items[i].row = SameIdentity(p)
      /\ SameIdentity(p)' = SameIdentity(p)
  BY <1>1, <1>2, QuietItem
<1>4. \E row \in SameIdentity(p) : SameIdentity(p) = {row}
  BY <1>1 DEF RowsOk, SameIdentity
<1>5. ItemOk(r, i)'
  BY <1>1, <1>3, <1>4 DEF ItemOk, PayloadOf, Verdict
<1>6. QED
  BY <1>1, <1>2, <1>5, QuietMove

\* A rejection is audited before its client is told.
LEMMA AuditInvariant ==
  ASSUME IngestInv, NEW r \in Requests, NEW i,
         At(r, i, "audit"), invalidEvents' = invalidEvents \cup {RejectionOf(r, i)},
         UNCHANGED <<rawEvents, forwarded>>,
         Move(r, i, "rejected", {}) \/ Move(r, i, "threw", {})
  PROVE  IngestInv'
<1>1. i \in DOMAIN request[r].items /\ ItemOk(r, i) /\ TypeOK
  BY DEF At, IngestInv, ItemsOk
<1>2. PICK step \in {"rejected", "threw"} : Move(r, i, step, {})
  OBVIOUS
<1>3. step \in ItemStep \ {"inserted"}
  BY DEF ItemStep, Ended
<1>4. RejectionOf(r, i) \in Rejection
  <2>1. PayloadOf(r, i) \in Payloads /\ request[r].credential \in Credentials
    BY <1>1, ItemTyped DEF PayloadOf, ItemOk
  <2>2. Verdict(PayloadOf(r, i), request[r].credential) # "permitted"
    BY <1>1 DEF At, ItemOk, PayloadOf
  <2>3. QED
    BY <2>1, <2>2, VerdictTyped DEF RejectionOf, Rejection
<1>5. /\ request'[r].credential = request[r].credential
      /\ request'[r].items[i].payload = request[r].items[i].payload
      /\ request'[r].items[i].step = step /\ RejectionOf(r, i)' = RejectionOf(r, i)
  BY <1>1, <1>2, <1>3, QuietItem
<1>6. ItemOk(r, i)'
  BY <1>1, <1>5 DEF At, ItemOk, Verdict
<1>7. invalidEvents \subseteq invalidEvents' /\ invalidEvents' \subseteq Rejection
  BY <1>1, <1>4 DEF TypeOK
<1>8. QED
  BY <1>1, <1>2, <1>3, <1>6, <1>7, QuietMove

\* A statement that fails tells its item nothing; one whose acknowledgement is lost has still
\* stored its row.
LEMMA FailureInvariant ==
  ASSUME IngestInv, NEW r \in Requests, NEW i, StatementFails(r, i) \/ AckLost(r, i)
  PROVE  IngestInv'
<1>1. /\ i \in DOMAIN request[r].items /\ ItemOk(r, i) /\ TypeOK /\ ForwardOk
      /\ Move(r, i, "threw", {}) /\ forwarded' = forwarded
      /\ "threw" \in ItemStep \ {"inserted"} /\ "threw" \in ItemStep
  BY DEF StatementFails, AckLost, At, IngestInv, ItemsOk, ItemStep, Ended
<1>2. /\ request'[r].credential = request[r].credential
      /\ request'[r].items[i].payload = request[r].items[i].payload
      /\ request'[r].items[i].step = "threw"
      /\ \A q \in Requests \ {r} : request'[q] = request[q]
      /\ DOMAIN request'[r].items = DOMAIN request[r].items
      /\ \A k \in DOMAIN request[r].items \ {i} : request'[r].items[k] = request[r].items[k]
  BY <1>1, MoveEffect
<1>3. ItemOk(r, i)'
  BY <1>1, <1>2 DEF ItemOk
<1>4. CASE StatementFails(r, i)
  <2>1. /\ rawEvents' = rawEvents /\ invalidEvents \subseteq invalidEvents'
        /\ invalidEvents' \subseteq Rejection
    BY <1>1, <1>4 DEF StatementFails, TypeOK
  <2>2. QED
    BY <1>1, <1>3, <2>1, QuietMove
<1>5. CASE At(r, i, "audit") /\ AckLost(r, i)
  BY <1>1, <1>5, AuditInvariant DEF AckLost, At
<1>6. CASE At(r, i, "insert") /\ StoreRow(r, i) /\ UNCHANGED invalidEvents
  <2>1. RowsOk' /\ rawEvents' \subseteq Row /\ TablesGrow
    BY <1>6, InsertingItem DEF StoreRow, TablesGrow
  <2>2. ASSUME NEW q \in Requests, NEW k \in DOMAIN request'[q].items, Pending(q, k)'
        PROVE  Pending(q, k) /\ PayloadOf(q, k)' = PayloadOf(q, k)
    <3>1. ~(q = r /\ k = i)
      BY <1>2, <2>2 DEF Pending
    <3>2. k \in DOMAIN request[q].items /\ request'[q].items[k] = request[q].items[k]
      BY <1>2, <3>1
    <3>3. QED
      BY <2>2, <3>2 DEF Pending, PayloadOf
  <2>3. ForwardOk'
    BY <1>1, <2>1, <2>2, ForwardKept
  <2>4. invalidEvents' \subseteq Rejection /\ forwarded' \in [Events -> Nat]
    BY <1>1, <1>6 DEF TypeOK
  <2>5. QED
    BY <1>1, <1>3, <2>1, <2>3, <2>4, MoveInvariant
<1>7. QED
  BY <1>4, <1>5, <1>6 DEF AckLost

-------------------------------------------------------------------------------
(* The steps of a request, and the invariant.                              *)

\* A step that puts a new request in a place, or answers the one there, stores nothing: it has
\* to account for the items of that request, none of which may have come to be pending.
LEMMA ReplaceInvariant ==
  ASSUME IngestInv, NEW r \in Requests, NEW new \in Request,
         request' = [request EXCEPT ![r] = new],
         UNCHANGED <<rawEvents, invalidEvents, forwarded>>,
         \A i \in DOMAIN new.items :
           /\ ItemOk(r, i)'
           /\ new.items[i].step = "inserted" =>
                i \in DOMAIN request[r].items /\ new.items[i] = request[r].items[i]
  PROVE  IngestInv'
<1>1. /\ TypeOK /\ RowsOk /\ ItemsOk /\ ForwardOk /\ TablesGrow
      /\ request \in [Requests -> Request]
  BY DEF IngestInv, TablesGrow, TypeOK, Request
<1>2. /\ request' \in [Requests -> Request] /\ request'[r] = new
      /\ \A q \in Requests \ {r} : request'[q] = request[q]
  BY <1>1
<1>3. TypeOK'
  BY <1>1, <1>2 DEF TypeOK, Request
<1>4. RowsOk'
  BY <1>1 DEF RowsOk, Verdict, Identity
<1>5. ASSUME NEW q \in Requests, NEW k \in DOMAIN request'[q].items PROVE ItemOk(q, k)'
  <2>1. CASE q = r
    BY <1>2, <2>1
  <2>2. CASE q # r
    <3>1. k \in DOMAIN request[q].items /\ request'[q] = request[q]
      BY <1>2, <2>2
    <3>2. QED
      BY <1>1, <3>1, ItemKept
  <2>3. QED
    BY <2>1, <2>2
<1>6. ASSUME NEW q \in Requests, NEW k \in DOMAIN request'[q].items, Pending(q, k)'
      PROVE  Pending(q, k) /\ PayloadOf(q, k)' = PayloadOf(q, k)
  <2>1. CASE q = r
    BY <1>2, <1>6, <2>1 DEF Pending, PayloadOf
  <2>2. CASE q # r
    BY <1>2, <1>6, <2>2 DEF Pending, PayloadOf
  <2>3. QED
    BY <2>1, <2>2
<1>7. ForwardOk'
  BY <1>1, <1>6, ForwardKept
<1>8. QED
  BY <1>3, <1>4, <1>5, <1>7 DEF IngestInv, ItemsOk

\* A request starts with items that know nothing but their verdicts.
LEMMA ReceiveInvariant ==
  ASSUME IngestInv, NEW r \in Requests, NEW s, WellFormed(s), Receive(r, s)
  PROVE  IngestInv'
<1> DEFINE items == [i \in DOMAIN s.payloads |-> NewItem(s.payloads[i], s.credential)]
           new == [route |-> s.route, credential |-> s.credential, status |-> Unanswered,
                   items |-> items]
<1>1. /\ s.credential \in Credentials /\ request' = [request EXCEPT ![r] = new]
      /\ UNCHANGED <<rawEvents, invalidEvents, forwarded>>
      /\ request \in [Requests -> Request]
  BY DEF Receive, IngestInv, TypeOK, Request
<1>2. /\ DOMAIN s.payloads = 1..Len(s.payloads) /\ Len(s.payloads) \in Nat
      /\ \A i \in DOMAIN s.payloads : s.payloads[i] \in Payloads
  BY DEF WellFormed
<1>3. \A i \in DOMAIN s.payloads :
        /\ items[i] = NewItem(s.payloads[i], s.credential) /\ items[i] \in Item
        /\ items[i].step = IF Verdict(s.payloads[i], s.credential) = "permitted"
                           THEN "insert" ELSE "audit"
        /\ items[i].payload = s.payloads[i]
  BY <1>2 DEF NewItem, Item, ItemStep
<1>4. items \in Seq(Item)
  <2>1. items = [i \in 1..Len(s.payloads) |-> NewItem(s.payloads[i], s.credential)]
    BY <1>2
  <2>2. \A i \in 1..Len(s.payloads) : NewItem(s.payloads[i], s.credential) \in Item
    BY <1>2, <1>3
  <2>3. items \in [1..Len(s.payloads) -> Item]
    BY <2>1, <2>2
  <2>4. QED
    BY <1>2, <2>3
<1>5. new \in Request
  BY <1>1, <1>4 DEF Request, WellFormed, Status, Unanswered
<1>6. request'[r] = new
  BY <1>1
<1>7. ASSUME NEW i \in DOMAIN new.items
      PROVE  ItemOk(r, i)' /\ new.items[i].step # "inserted"
  <2>1. /\ request'[r].items[i] = items[i] /\ request'[r].credential = s.credential
        /\ i \in DOMAIN s.payloads
    BY <1>6
  <2> HIDE DEF items
  <2>2. request'[r].items[i].step = "insert" \/ request'[r].items[i].step = "audit"
    BY <1>3, <2>1
  <2>3. /\ request'[r].items[i].step = "insert" =>
             Verdict(request'[r].items[i].payload, request'[r].credential) = "permitted"
        /\ request'[r].items[i].step = "audit" =>
             Verdict(request'[r].items[i].payload, request'[r].credential) # "permitted"
    BY <1>3, <2>1
  <2>4. ItemOk(r, i)'
    BY <1>1, <2>1, <2>2, <2>3 DEF ItemOk, Verdict
  <2>5. QED
    BY <1>3, <2>1, <2>4
<1>8. QED
  <2> HIDE DEF new
  <2>1. QED
    BY <1>1, <1>5, <1>7, ReplaceInvariant

LEMMA EmptyInvariant ==
  ASSUME IngestInv, NEW r \in Requests,
         \/ \E s : Refuse(r, s)
         \/ Crash(r)
  PROVE  IngestInv'
<1>1. PICK status \in {Unanswered, 401} :
        request' = [request EXCEPT ![r] = [NoRequest EXCEPT !.status = status]]
  BY DEF Refuse, Crash, NoRequest, Unanswered
<1>2. UNCHANGED <<rawEvents, invalidEvents, forwarded>>
  BY DEF Refuse, Crash
<1> DEFINE new == [NoRequest EXCEPT !.status = status]
<1>3. /\ new = [route |-> "/events", credential |-> NoCredential, items |-> <<>>,
                status |-> status]
      /\ DOMAIN new.items = {} /\ <<>> \in Seq(Item)
  BY DEF NoRequest
<1>4. new \in Request
  <2>1. status \in Status
    BY DEF Status, Unanswered
  <2>2. [route |-> "/events", credential |-> NoCredential, items |-> <<>>,
         status |-> status] \in Request
    BY <1>3, <2>1 DEF Request, Routes
  <2> HIDE DEF new
  <2>3. QED
    BY <1>3, <2>2
<1>5. QED
  <2>1. request' = [request EXCEPT ![r] = new]
    BY <1>1
  <2> HIDE DEF new
  <2>2. \A i \in DOMAIN new.items :
          /\ ItemOk(r, i)'
          /\ new.items[i].step = "inserted" =>
               i \in DOMAIN request[r].items /\ new.items[i] = request[r].items[i]
    BY <1>3
  <2>3. QED
    BY <1>2, <1>4, <2>1, <2>2, ReplaceInvariant

LEMMA AnswerInvariant ==
  ASSUME IngestInv, NEW r \in Requests, Answer(r)
  PROVE  IngestInv'
<1>1. PICK status \in {500, 207, ItemStatus(r, 1)} :
        request' = [request EXCEPT ![r].status = status]
  <2> DEFINE single == request[r].route = "/events" \/ PayloadOf(r, 1) = NotAnArray
  <2>1. request' = [request EXCEPT ![r].status =
          CASE Thrown(r) -> 500
            [] ~Thrown(r) /\ single -> ItemStatus(r, 1)
            [] OTHER -> 207]
    BY DEF Answer
  <2>2. CASE Thrown(r)
    BY <2>1, <2>2
  <2>3. CASE ~Thrown(r) /\ single
    BY <2>1, <2>3
  <2>4. CASE ~Thrown(r) /\ ~single
    BY <2>1, <2>4
  <2>5. QED
    BY <2>2, <2>3, <2>4
<1>2. /\ UNCHANGED <<rawEvents, invalidEvents, forwarded>>
      /\ request[r] \in Request /\ ItemsOk /\ TablesGrow
      /\ request \in [Requests -> Request]
  BY DEF Answer, IngestInv, TypeOK, Request, TablesGrow
<1>3. status \in Status
  BY DEF Status, ItemStatus
<1> DEFINE new == [request[r] EXCEPT !.status = status]
<1>4. /\ new \in Request /\ new.items = request[r].items
      /\ new.credential = request[r].credential
  BY <1>2, <1>3 DEF Request
<1>5. request' = [request EXCEPT ![r] = new] /\ request'[r] = new
  BY <1>1, <1>2
<1>6. \A i \in DOMAIN new.items : ItemOk(r, i)'
  <2> HIDE DEF new
  <2>1. QED
    BY <1>2, <1>4, <1>5, ItemKept
<1>7. QED
  <2> HIDE DEF new
  <2>1. QED
    BY <1>2, <1>4, <1>5, <1>6, ReplaceInvariant

LEMMA HandleInvariant ==
  ASSUME IngestInv, NEW r \in Requests, Handle(r) \/ GoWrong(r)
  PROVE  IngestInv'
<1>1. CASE Answer(r)
  BY <1>1, AnswerInvariant
<1>2. CASE Crash(r)
  BY <1>2, EmptyInvariant
<1>3. ASSUME NEW i \in DOMAIN request[r].items, PersistInvalid(r, i)
      PROVE  IngestInv'
  <2>1. /\ At(r, i, "audit") /\ invalidEvents' = invalidEvents \cup {RejectionOf(r, i)}
        /\ UNCHANGED <<rawEvents, forwarded>> /\ Move(r, i, "rejected", {})
    BY <1>3 DEF PersistInvalid
  <2>2. QED
    BY <2>1, AuditInvariant
<1>4. QED
  BY <1>1, <1>2, <1>3, InsertInvariant, ConflictInvariant, DuplicateInvariant,
     ForwardInvariant, FailureInvariant
  DEF Handle, HandleItem, GoWrong

LEMMA IngestInvUnchanged ==
  ASSUME IngestInv, UNCHANGED vars
  PROVE  IngestInv'
<1>1. rawEvents' = rawEvents /\ invalidEvents' = invalidEvents /\ forwarded' = forwarded
      /\ request' = request
  BY DEF vars
<1>2. TypeOK' /\ RowsOk'
  BY <1>1 DEF IngestInv, TypeOK, RowsOk, Verdict, Identity
<1>3. ItemsOk'
  BY <1>1, ItemKept DEF IngestInv, ItemsOk, TablesGrow
<1>4. ForwardOk'
  <2>1. TablesGrow /\ ForwardOk
    BY <1>1 DEF TablesGrow, IngestInv
  <2>2. \A r \in Requests : \A i \in DOMAIN request'[r].items :
          Pending(r, i)' => Pending(r, i) /\ PayloadOf(r, i)' = PayloadOf(r, i)
    BY <1>1 DEF Pending, PayloadOf
  <2>3. QED
    BY <1>1, <2>1, <2>2, ForwardKept
<1>5. QED
  BY <1>2, <1>3, <1>4 DEF IngestInv

LEMMA InitIngest == Init => IngestInv
<1> SUFFICES ASSUME Init PROVE IngestInv
  OBVIOUS
<1>1. /\ request = [r \in Requests |-> NoRequest] /\ rawEvents = {} /\ invalidEvents = {}
      /\ forwarded = [e \in Events |-> 0]
  BY DEF Init
<1>2. /\ NoRequest \in Request /\ DOMAIN NoRequest.items = {}
  <2>1. <<>> \in Seq(Item) /\ DOMAIN <<>> = {}
    OBVIOUS
  <2>2. QED
    BY <2>1 DEF NoRequest, Request, Routes, Status, Unanswered
<1>3. TypeOK
  BY <1>1, <1>2 DEF TypeOK, Request
<1>4. \A r \in Requests : DOMAIN request[r].items = {}
  BY <1>1, <1>2
<1>5. RowsOk /\ ItemsOk
  BY <1>1, <1>4 DEF RowsOk, ItemsOk
<1>6. ForwardOk
  BY <1>1, <1>4 DEF ForwardOk
<1>7. QED
  BY <1>3, <1>5, <1>6 DEF IngestInv

LEMMA SubmissionsWellFormed == \A s \in Submissions : WellFormed(s)
BY IngestionAssumption DEF WellFormed

LEMMA NextInvariant == IngestInv /\ [Next]_vars => IngestInv'
<1> SUFFICES ASSUME IngestInv, [Next]_vars PROVE IngestInv'
  OBVIOUS
<1>1. CASE UNCHANGED vars
  BY <1>1, IngestInvUnchanged
<1>2. ASSUME NEW r \in Requests, NEW s \in Submissions, Receive(r, s) \/ Refuse(r, s)
      PROVE  IngestInv'
  BY <1>2, SubmissionsWellFormed, ReceiveInvariant, EmptyInvariant
<1>3. ASSUME NEW r \in Requests, Handle(r) \/ GoWrong(r)
      PROVE  IngestInv'
  BY <1>3, HandleInvariant
<1>4. QED
  BY <1>1, <1>2, <1>3 DEF Next

\* The inductive invariant holds in every state ingestion reaches.
THEOREM IngestInvariant == Spec => []IngestInv
BY InitIngest, NextInvariant, PTL DEF Spec

-------------------------------------------------------------------------------
(* What ingestion promises.                                                *)

\* Rows, rejections and requests keep their shape.
THEOREM IngestionTyped == Spec => []TypeOK
<1>1. IngestInv => TypeOK
  BY DEF IngestInv
<1>2. QED
  BY <1>1, IngestInvariant, PTL

\* However requests, failed statements, lost acknowledgements and crashes interleave, a fact
\* reaches product analytics at most once, after it was stored, and under one event only.
LEMMA ForwardedOnce == IngestInv => AnalyticsOncePerFact
<1> SUFFICES ASSUME IngestInv, NEW e \in Events, forwarded[e] > 0
             PROVE  /\ forwarded[e] = 1
                    /\ \E row \in rawEvents : row.event = e
                    /\ \A f \in Events \ {e} : Identity(f) = Identity(e) => forwarded[f] = 0
  BY DEF AnalyticsOncePerFact
<1>1. RowsOk /\ forwarded \in [Events -> Nat] /\ ForwardOk
  BY DEF IngestInv, TypeOK
<1>2. forwarded[e] = 1 /\ \E row \in rawEvents : row.event = e
  BY <1>1 DEF ForwardOk
<1>3. ASSUME NEW f \in Events \ {e}, Identity(f) = Identity(e), forwarded[f] # 0
      PROVE  FALSE
  <2>1. forwarded[f] > 0
    BY <1>1, <1>3
  <2>2. PICK x \in rawEvents, y \in rawEvents : x.event = e /\ y.event = f
    BY <1>1, <1>2, <2>1 DEF ForwardOk
  <2>3. QED
    BY <1>1, <1>3, <2>2 DEF RowsOk
<1>4. QED
  BY <1>2, <1>3

THEOREM FactsAreForwardedOnce == Spec => []AnalyticsOncePerFact
BY ForwardedOnce, IngestInvariant, PTL

\* Identities name their merchant, so a row that a client is answered with is of its tenant.
LEMMA AnswersOwn == IngestInv => AnswersOwnRecord
<1> SUFFICES ASSUME IngestInv, NEW r \in Requests, NEW i \in DOMAIN request[r].items,
                    Is(r, i, {"inserted", "accepted", "duplicate"})
             PROVE  \E row \in rawEvents :
                      /\ request[r].items[i].row = {row}
                      /\ Identity(row.event) = Identity(PayloadOf(r, i))
                      /\ row.event.merchant = request[r].credential.merchant
  BY DEF AnswersOwnRecord
<1>1. /\ ItemOk(r, i) /\ PayloadOf(r, i) \in Payloads
      /\ request[r].items[i].step \in {"inserted", "accepted", "duplicate"}
  BY ItemTyped DEF IngestInv, ItemsOk, PayloadOf, Is
<1>2. PICK row \in rawEvents : /\ request[r].items[i].row = {row}
                               /\ Identity(row.event) = Identity(PayloadOf(r, i))
  BY <1>1 DEF ItemOk, SameIdentity, RowOf, PayloadOf
<1>3. PayloadOf(r, i).merchant = request[r].credential.merchant
  <2>1. Verdict(PayloadOf(r, i), request[r].credential) = "permitted"
    BY <1>1 DEF ItemOk, PayloadOf
  <2>2. QED
    BY <1>1, <2>1, VerdictTyped
<1>4. row.event.merchant = PayloadOf(r, i).merchant
  BY <1>2 DEF Identity
<1>5. QED
  BY <1>2, <1>3, <1>4

\* No interleaving answers a client with a record that is not stored, or not its tenant's.
THEOREM AnswersAreOwnRecords == Spec => []AnswersOwnRecord
BY AnswersOwn, IngestInvariant, PTL

\* What a credential may not send is never accepted, and a rejection is audited before its
\* client hears of it.
THEOREM RejectionsAreAudited == Spec => []RejectedNeverAccepted
<1>1. IngestInv => RejectedNeverAccepted
  BY DEF IngestInv, RowsOk, ItemsOk, ItemOk, RejectedNeverAccepted, Is
<1>2. QED
  BY <1>1, IngestInvariant, PTL

\* Rows stay, so the row that made an INSERT fail is there for both SELECTs: only an event id
\* of another identity ends in an error.
THEOREM ConflictsAreForeign == Spec => []OnlyForeignIdsConflict
<1>1. IngestInv => OnlyForeignIdsConflict
  <2> SUFFICES ASSUME IngestInv, NEW r \in Requests, NEW i \in DOMAIN request[r].items,
                      Is(r, i, {"conflict"})
               PROVE  \E row \in rawEvents :
                        /\ row.event.eventId = PayloadOf(r, i).eventId
                        /\ Identity(row.event) # Identity(PayloadOf(r, i))
    BY DEF OnlyForeignIdsConflict
  <2>1. SameEventId(PayloadOf(r, i)) \ SameIdentity(PayloadOf(r, i)) # {}
    BY DEF IngestInv, ItemsOk, ItemOk, Is, PayloadOf
  <2>2. QED
    BY <2>1 DEF SameEventId, SameIdentity
<1>2. QED
  BY <1>1, IngestInvariant, PTL

-------------------------------------------------------------------------------
(* The statements implement the atomic store.                              *)

\* The items of a request are calls of the store.
CallsOk == \A r \in Requests : \A i \in DOMAIN request[r].items : <<r, i>> \in Calls

\* The calls of one place of requests.
CallsOf(r) == {c \in Calls : c[1] = r}

TakenOver == {"inserted", "accepted"}
Repeated == {"byIdentity", "duplicate"}

\* An item that has stored its row, or found one, is a decided call.
Decided(r, i, steps) == i \in DOMAIN request[r].items /\ request[r].items[i].step \in steps
Found(r, i) == {row.event : row \in SameIdentity(PayloadOf(r, i))}

AnswerFor(step, found) ==
  [duplicate |-> step \in Repeated,
   record |-> IF step \in TakenOver \cup Repeated THEN found ELSE {}]

LEMMA AnswerForValue ==
  ASSUME NEW step, NEW found
  PROVE  /\ step \notin TakenOver \cup Repeated =>
              AnswerFor(step, found) = [duplicate |-> FALSE, record |-> {}]
         /\ step \in TakenOver =>
              AnswerFor(step, found) = [duplicate |-> FALSE, record |-> found]
         /\ step \in Repeated =>
              AnswerFor(step, found) = [duplicate |-> TRUE, record |-> found]
<1>1. /\ step \notin Repeated => (step \in Repeated) = FALSE
      /\ step \in Repeated => (step \in Repeated) = TRUE
  OBVIOUS
<1>2. step \in TakenOver => step \notin Repeated
  BY DEF TakenOver, Repeated
<1>3. /\ step \in TakenOver \cup Repeated =>
           (IF step \in TakenOver \cup Repeated THEN found ELSE {}) = found
      /\ step \notin TakenOver \cup Repeated =>
           (IF step \in TakenOver \cup Repeated THEN found ELSE {}) = {}
  OBVIOUS
<1>4. CASE step \notin TakenOver \cup Repeated
  <2>1. (step \in Repeated) = FALSE
    BY <1>1, <1>4
  <2>2. QED
    BY <1>2, <1>3, <1>4, <2>1, Zenon DEF AnswerFor
<1>5. CASE step \in TakenOver
  <2>1. (step \in Repeated) = FALSE
    BY <1>1, <1>2, <1>5
  <2>2. QED
    BY <1>2, <1>3, <1>5, <2>1, Zenon DEF AnswerFor
<1>6. CASE step \in Repeated
  <2>1. (step \in Repeated) = TRUE
    BY <1>1, <1>6
  <2>2. QED
    BY <1>2, <1>3, <1>6, <2>1, Zenon DEF AnswerFor
<1>7. QED
  BY <1>4, <1>5, <1>6

LEMMA AnswerValue ==
  ASSUME NEW r, NEW i
  PROVE  /\ ~Decided(r, i, TakenOver) /\ ~Decided(r, i, Repeated) =>
              AnswerOf(r, i) = [duplicate |-> FALSE, record |-> {}]
         /\ Decided(r, i, TakenOver) =>
              AnswerOf(r, i) = [duplicate |-> FALSE, record |-> Found(r, i)]
         /\ Decided(r, i, Repeated) =>
              AnswerOf(r, i) = [duplicate |-> TRUE, record |-> Found(r, i)]
<1> DEFINE step == IF i \in DOMAIN request[r].items THEN request[r].items[i].step ELSE "none"
<1>1. AnswerOf(r, i) = AnswerFor(step, Found(r, i))
  BY DEF AnswerOf, AnswerFor, Found, TakenOver, Repeated
<1>2. /\ Decided(r, i, TakenOver) => step \in TakenOver
      /\ Decided(r, i, Repeated) => step \in Repeated
      /\ ~Decided(r, i, TakenOver) /\ ~Decided(r, i, Repeated) =>
           step \notin TakenOver \cup Repeated
  BY DEF Decided, TakenOver, Repeated
<1>3. QED
  <2> HIDE DEF step
  <2>1. QED
    BY <1>1, <1>2, AnswerForValue

LEMMA AnswerValueNext ==
  ASSUME NEW r, NEW i
  PROVE  /\ ~Decided(r, i, TakenOver)' /\ ~Decided(r, i, Repeated)' =>
              AnswerOf(r, i)' = [duplicate |-> FALSE, record |-> {}]
         /\ Decided(r, i, TakenOver)' =>
              AnswerOf(r, i)' = [duplicate |-> FALSE, record |-> Found(r, i)']
         /\ Decided(r, i, Repeated)' =>
              AnswerOf(r, i)' = [duplicate |-> TRUE, record |-> Found(r, i)']
<1> DEFINE step == IF i \in DOMAIN request'[r].items THEN request'[r].items[i].step ELSE "none"
<1>1. AnswerOf(r, i)' = AnswerFor(step, Found(r, i)')
  BY DEF AnswerOf, AnswerFor, Found, TakenOver, Repeated
<1>2. /\ Decided(r, i, TakenOver)' => step \in TakenOver
      /\ Decided(r, i, Repeated)' => step \in Repeated
      /\ ~Decided(r, i, TakenOver)' /\ ~Decided(r, i, Repeated)' =>
           step \notin TakenOver \cup Repeated
  BY DEF Decided, TakenOver, Repeated
<1>3. QED
  <2> HIDE DEF step
  <2>1. QED
    BY <1>1, <1>2, AnswerForValue

\* What a call is decided with stays: its row keeps its identity to itself.
LEMMA AnswerKept ==
  ASSUME IngestInv, TablesGrow, RowsOk', NEW r \in Requests, NEW i,
         Decided(r, i, TakenOver)' <=> Decided(r, i, TakenOver),
         Decided(r, i, Repeated)' <=> Decided(r, i, Repeated),
         Decided(r, i, TakenOver \cup Repeated) => PayloadOf(r, i)' = PayloadOf(r, i)
  PROVE  AnswerOf(r, i)' = AnswerOf(r, i)
<1>1. CASE ~Decided(r, i, TakenOver) /\ ~Decided(r, i, Repeated)
  BY <1>1, AnswerValue, AnswerValueNext
<1>2. ASSUME Decided(r, i, TakenOver \cup Repeated)
      PROVE  Found(r, i)' = Found(r, i)
  <2>1. ItemOk(r, i) /\ PayloadOf(r, i)' = PayloadOf(r, i)
    BY <1>2 DEF Decided, IngestInv, ItemsOk
  <2>2. PICK row \in rawEvents : Identity(row.event) = Identity(PayloadOf(r, i))
    BY <1>2, <2>1
    DEF Decided, ItemOk, SameIdentity, RowOf, PayloadOf, TakenOver, Repeated
  <2>3. /\ row \in rawEvents' /\ rawEvents \subseteq rawEvents'
        /\ \A x, y \in rawEvents' : Identity(x.event) = Identity(y.event) => x = y
    BY <2>2 DEF TablesGrow, RowsOk, Identity
  <2>4. SameIdentity(PayloadOf(r, i)) = {row}
    BY <2>2, <2>3 DEF SameIdentity
  <2>5. {x \in rawEvents' : Identity(x.event) = Identity(PayloadOf(r, i))} = {row}
    BY <2>2, <2>3
  <2>6. SameIdentity(PayloadOf(r, i))' = {row}
    BY <2>1, <2>5 DEF SameIdentity, Identity
  <2>7. QED
    BY <2>4, <2>6 DEF Found
<1>3. CASE Decided(r, i, TakenOver)
  <2>1. Found(r, i)' = Found(r, i)
    BY <1>2, <1>3 DEF Decided
  <2>2. QED
    BY <1>3, <2>1, AnswerValue, AnswerValueNext
<1>4. CASE Decided(r, i, Repeated)
  <2>1. Found(r, i)' = Found(r, i)
    BY <1>2, <1>4 DEF Decided
  <2>2. QED
    BY <1>4, <2>1, AnswerValue, AnswerValueNext
<1>5. QED
  BY <1>1, <1>3, <1>4

\* A step of an item leaves the answers of all other calls alone.
LEMMA OthersKeepAnswers ==
  ASSUME IngestInv, IngestInv', TablesGrow, NEW r \in Requests,
         NEW i \in DOMAIN request[r].items, NEW step \in ItemStep, NEW row \in SUBSET Row,
         Move(r, i, step, row), NEW c \in Calls, c # <<r, i>>
  PROVE  AnswerOf(c[1], c[2])' = AnswerOf(c[1], c[2])
<1>1. /\ c[1] \in Requests /\ ~(c[1] = r /\ c[2] = i)
  BY DEF Calls
<1>2. /\ DOMAIN request'[c[1]].items = DOMAIN request[c[1]].items
      /\ c[2] \in DOMAIN request[c[1]].items =>
           request'[c[1]].items[c[2]] = request[c[1]].items[c[2]]
  BY <1>1, MoveEffect DEF IngestInv
<1>3. /\ Decided(c[1], c[2], TakenOver)' <=> Decided(c[1], c[2], TakenOver)
      /\ Decided(c[1], c[2], Repeated)' <=> Decided(c[1], c[2], Repeated)
      /\ Decided(c[1], c[2], TakenOver \cup Repeated) =>
           PayloadOf(c[1], c[2])' = PayloadOf(c[1], c[2])
  BY <1>2 DEF Decided, PayloadOf, TakenOver, Repeated
<1>4. RowsOk'
  BY DEF IngestInv
<1>5. QED
  BY <1>1, <1>3, <1>4, AnswerKept

\* The store's variables, as the items and rows show them.
Answers == [c \in Calls |-> AnswerOf(c[1], c[2])]
Accepted == {row.event : row \in rawEvents}

LEMMA AnswersEqual ==
  ASSUME \A c \in Calls : AnswerOf(c[1], c[2])' = AnswerOf(c[1], c[2])
  PROVE  Answers' = Answers
BY DEF Answers

LEMMA AcceptedGrows ==
  ASSUME NEW r, NEW i, StoreRow(r, i)
  PROVE  /\ Accepted' = Accepted \cup {PayloadOf(r, i)}
         /\ {f \in Accepted : EventIdOf(f) = EventIdOf(PayloadOf(r, i))} = {}
         /\ {f \in Accepted : Identity(f) = Identity(PayloadOf(r, i))} = {}
<1>1. rawEvents' = rawEvents \cup {RowOf(r, i)} /\ RowOf(r, i).event = PayloadOf(r, i)
  BY DEF StoreRow, RowOf
<1>2. Accepted' = Accepted \cup {PayloadOf(r, i)}
  BY <1>1 DEF Accepted
<1>3. QED
  BY <1>2 DEF StoreRow, SameEventId, SameIdentity, Accepted, EventIdOf

\* An INSERT that stores its row accepts the event; with a lost acknowledgement, unnoticed.
LEMMA InsertAccepts ==
  ASSUME IngestInv, IngestInv', CallsOk, NEW r \in Requests, NEW i, Insert(r, i)
  PROVE  Store!Next
<1> SUFFICES ASSUME NEW e \in Events, PayloadOf(r, i) = e PROVE Store!Next
  BY InsertingItem DEF Insert
<1>1. /\ At(r, i, "insert") /\ StoreRow(r, i) /\ i \in DOMAIN request[r].items
      /\ Move(r, i, "inserted", {RowOf(r, i)}) /\ "inserted" \in ItemStep
      /\ <<r, i>> \in Calls /\ TypeOK
  BY DEF Insert, At, CallsOk, ItemStep, IngestInv
<1>2. e \in Events /\ {RowOf(r, i)} \in SUBSET Row /\ TablesGrow
  BY <1>1, InsertingItem DEF StoreRow, TablesGrow, Insert
<1>3. /\ i \in DOMAIN request'[r].items /\ request'[r].items[i].step = "inserted"
      /\ PayloadOf(r, i)' = e
  BY <1>1, <1>2, MoveEffect DEF PayloadOf
<1>4. AnswerOf(r, i) = [duplicate |-> FALSE, record |-> {}]
  <2>1. ~Decided(r, i, TakenOver) /\ ~Decided(r, i, Repeated)
    BY <1>1 DEF At, Decided, TakenOver, Repeated
  <2>2. QED
    BY <2>1, AnswerValue
<1>5. AnswerOf(r, i)' = [duplicate |-> FALSE, record |-> {e}]
  <2>1. Decided(r, i, TakenOver)'
    BY <1>3 DEF Decided, TakenOver
  <2>2. SameIdentity(e) = {} /\ rawEvents' = rawEvents \cup {RowOf(r, i)}
    BY <1>1 DEF StoreRow
  <2>3. {x \in rawEvents' : Identity(x.event) = Identity(e)} = {RowOf(r, i)}
    BY <2>2 DEF SameIdentity, RowOf
  <2>4. SameIdentity(PayloadOf(r, i))' = {RowOf(r, i)}
    BY <1>3, <2>3 DEF SameIdentity, Identity
  <2>5. Found(r, i)' = {e}
    BY <2>4 DEF Found, RowOf
  <2>6. QED
    BY <2>1, <2>5, AnswerValueNext
<1>6. Answers' = [Answers EXCEPT ![<<r, i>>] = [duplicate |-> FALSE, record |-> {e}]]
  <2>1. \A c \in Calls : c # <<r, i>> => AnswerOf(c[1], c[2])' = AnswerOf(c[1], c[2])
    BY <1>1, <1>2, OthersKeepAnswers
  <2>2. \A c \in Calls : AnswerOf(c[1], c[2])' =
          IF c = <<r, i>> THEN [duplicate |-> FALSE, record |-> {e}] ELSE AnswerOf(c[1], c[2])
    <3>1. ASSUME NEW c \in Calls, c = <<r, i>>
          PROVE  AnswerOf(c[1], c[2])' = AnswerOf(r, i)'
      BY <3>1 DEF AnswerOf, PayloadOf, SameIdentity, Identity
    <3>2. QED
      BY <1>5, <2>1, <3>1
  <2>3. QED
    BY <2>2 DEF Answers
<1>7. Answers[<<r, i>>] = [duplicate |-> FALSE, record |-> {}]
  BY <1>1, <1>4 DEF Answers
<1>8. Store!Accept(<<r, i>>, e)
  <2>1. Store!Decide(<<r, i>>, FALSE, e)
    BY <1>6, <1>7 DEF Store!Decide, Store!Undecided, Answers
  <2>2. /\ Accepted' = Accepted \cup {e}
        /\ {f \in Accepted : EventIdOf(f) = EventIdOf(e)} = {}
        /\ {f \in Accepted : Identity(f) = Identity(e)} = {}
    BY <1>1, AcceptedGrows DEF EventIdOf, Identity
  <2>3. QED
    BY <2>1, <2>2 DEF Store!Accept, Store!SameId, Store!SameIdentity, Accepted
<1>9. QED
  BY <1>1, <1>2, <1>8 DEF Store!Next

LEMMA LostInsertAccepts ==
  ASSUME IngestInv, IngestInv', NEW r \in Requests, NEW i, AckLost(r, i),
         StoreRow(r, i), At(r, i, "insert")
  PROVE  Store!Next
<1> SUFFICES ASSUME NEW e \in Events, PayloadOf(r, i) = e PROVE Store!Next
  BY InsertingItem
<1>1. /\ i \in DOMAIN request[r].items /\ Move(r, i, "threw", {}) /\ TypeOK
      /\ "threw" \in ItemStep /\ {} \in SUBSET Row /\ ItemsOk
      /\ request[r].items[i].step = "insert"
  BY DEF AckLost, At, ItemStep, Ended, IngestInv
<1>2. e \in Events /\ TablesGrow
  <2>1. invalidEvents \subseteq invalidEvents'
    BY DEF AckLost, At
  <2>2. QED
    BY <2>1, InsertingItem DEF StoreRow, TablesGrow
<1>3. request'[r].items[i].step = "threw"
  BY <1>1, MoveEffect
<1>4. AnswerOf(r, i)' = AnswerOf(r, i)
  <2>1. /\ ~Decided(r, i, TakenOver) /\ ~Decided(r, i, Repeated)
        /\ ~Decided(r, i, TakenOver)' /\ ~Decided(r, i, Repeated)'
    BY <1>1, <1>3 DEF Decided, TakenOver, Repeated
  <2>2. QED
    BY <2>1, AnswerValue, AnswerValueNext
<1>5. Answers' = Answers
  <2>1. \A c \in Calls : c # <<r, i>> => AnswerOf(c[1], c[2])' = AnswerOf(c[1], c[2])
    BY <1>1, <1>2, OthersKeepAnswers
  <2>2. \A c \in Calls : AnswerOf(c[1], c[2])' = AnswerOf(c[1], c[2])
    BY <1>4, <2>1
  <2>3. QED
    BY <2>2, AnswersEqual
<1>6. Store!AcceptUnnoticed(e)
  BY <1>5, AcceptedGrows
  DEF Store!AcceptUnnoticed, Store!SameId, Store!SameIdentity, Answers, Accepted
<1>7. QED
  BY <1>2, <1>6 DEF Store!Next

\* The SELECT by event id decides for a repetition, unless a row of another identity has the id.
LEMMA FindRecognises ==
  ASSUME IngestInv, IngestInv', CallsOk, NEW r \in Requests, NEW i, FindByEventId(r, i),
         SameEventId(PayloadOf(r, i)) \ SameIdentity(PayloadOf(r, i)) = {}
  PROVE  Store!Next
<1> DEFINE e == PayloadOf(r, i)
<1>1. /\ i \in DOMAIN request[r].items /\ request[r].items[i].step = "byEventId"
      /\ Move(r, i, "byIdentity", {}) /\ "byIdentity" \in ItemStep /\ {} \in SUBSET Row
      /\ <<r, i>> \in Calls /\ TypeOK /\ RowsOk /\ ItemOk(r, i) /\ TablesGrow
      /\ rawEvents' = rawEvents
  BY DEF FindByEventId, At, CallsOk, ItemStep, IngestInv, ItemsOk, TablesGrow
<1>2. /\ i \in DOMAIN request'[r].items /\ request'[r].items[i].step = "byIdentity"
      /\ PayloadOf(r, i)' = e
  BY <1>1, MoveEffect DEF PayloadOf
<1>3. PICK row \in rawEvents : Identity(row.event) = Identity(e)
  BY <1>1 DEF ItemOk, SameIdentity, PayloadOf
<1>4. SameIdentity(e) = {row} /\ SameEventId(e) \subseteq {row}
  BY <1>1, <1>3 DEF RowsOk, SameIdentity
<1>5. e \in Events
  <2>1. e \in Payloads /\ Verdict(e, request[r].credential) = "permitted"
    BY <1>1, ItemTyped DEF ItemOk, PayloadOf
  <2>2. QED
    BY <2>1, VerdictTyped
<1>6. AnswerOf(r, i) = [duplicate |-> FALSE, record |-> {}]
  <2>1. ~Decided(r, i, TakenOver) /\ ~Decided(r, i, Repeated)
    BY <1>1 DEF Decided, TakenOver, Repeated
  <2>2. QED
    BY <2>1, AnswerValue
<1>7. AnswerOf(r, i)' = [duplicate |-> TRUE, record |-> {row.event}]
  <2>1. Decided(r, i, Repeated)'
    BY <1>2 DEF Decided, Repeated
  <2>2. SameIdentity(PayloadOf(r, i))' = {row}
    BY <1>1, <1>2, <1>4 DEF SameIdentity, Identity
  <2>3. Found(r, i)' = {row.event}
    BY <2>2 DEF Found
  <2>4. QED
    BY <2>1, <2>3, AnswerValueNext
<1>8. Answers' = [Answers EXCEPT ![<<r, i>>] = [duplicate |-> TRUE, record |-> {row.event}]]
  <2>1. \A c \in Calls : c # <<r, i>> => AnswerOf(c[1], c[2])' = AnswerOf(c[1], c[2])
    BY <1>1, OthersKeepAnswers
  <2>2. \A c \in Calls : AnswerOf(c[1], c[2])' =
          IF c = <<r, i>> THEN [duplicate |-> TRUE, record |-> {row.event}]
          ELSE AnswerOf(c[1], c[2])
    <3>1. ASSUME NEW c \in Calls, c = <<r, i>>
          PROVE  AnswerOf(c[1], c[2])' = AnswerOf(r, i)'
      BY <3>1 DEF AnswerOf, PayloadOf, SameIdentity, Identity
    <3>2. QED
      BY <1>7, <2>1, <3>1
  <2>3. QED
    BY <2>2 DEF Answers
<1>9. Answers[<<r, i>>] = [duplicate |-> FALSE, record |-> {}]
  BY <1>1, <1>6 DEF Answers
<1>10. /\ Accepted' = Accepted /\ row.event \in Accepted
       /\ \A f \in Accepted : EventIdOf(f) = EventIdOf(e) => Identity(f) = Identity(e)
  <2>1. \A x \in rawEvents : x.event.eventId = e.eventId => Identity(x.event) = Identity(e)
    BY <1>3, <1>4 DEF SameEventId
  <2>2. QED
    BY <1>1, <2>1 DEF Accepted, EventIdOf
<1>11. Store!Decide(<<r, i>>, TRUE, row.event)
  BY <1>8, <1>9 DEF Store!Decide, Store!Undecided, Answers
<1>12. Store!Recognise(<<r, i>>, e)
  BY <1>3, <1>10, <1>11
  DEF Store!Recognise, Store!SameId, Store!SameIdentity, Accepted
<1>13. QED
  BY <1>1, <1>5, <1>12 DEF Store!Next

\* The other steps of an item are not seen by the store: what it was decided with stays.
LEMMA ItemStutters ==
  ASSUME IngestInv, IngestInv', TablesGrow, rawEvents' = rawEvents,
         NEW r \in Requests, NEW i \in DOMAIN request[r].items,
         NEW step \in ItemStep, NEW row \in SUBSET Row, Move(r, i, step, row),
         step \in TakenOver <=> request[r].items[i].step \in TakenOver,
         step \in Repeated <=> request[r].items[i].step \in Repeated
  PROVE  UNCHANGED <<Accepted, Answers>>
<1>1. Accepted' = Accepted /\ RowsOk'
  BY DEF Accepted, IngestInv
<1>2. /\ i \in DOMAIN request'[r].items /\ request'[r].items[i].step = step
      /\ request'[r].items[i].payload = request[r].items[i].payload
  BY MoveEffect DEF IngestInv
<1>3. /\ Decided(r, i, TakenOver)' <=> Decided(r, i, TakenOver)
      /\ Decided(r, i, Repeated)' <=> Decided(r, i, Repeated)
      /\ PayloadOf(r, i)' = PayloadOf(r, i)
  BY <1>2 DEF Decided, TakenOver, Repeated, PayloadOf
<1>4. AnswerOf(r, i)' = AnswerOf(r, i)
  BY <1>1, <1>3, AnswerKept
<1>5. ASSUME NEW c \in Calls PROVE AnswerOf(c[1], c[2])' = AnswerOf(c[1], c[2])
  <2>1. CASE c = <<r, i>>
    <3>1. AnswerOf(c[1], c[2])' = AnswerOf(r, i)'
      BY <2>1 DEF AnswerOf, PayloadOf, SameIdentity, Identity
    <3>2. AnswerOf(c[1], c[2]) = AnswerOf(r, i)
      BY <2>1
    <3>3. QED
      BY <1>4, <3>1, <3>2
  <2>2. CASE c # <<r, i>>
    BY <2>2, OthersKeepAnswers
  <2>3. QED
    BY <2>1, <2>2
<1>6. QED
  BY <1>1, <1>5, AnswersEqual

\* A call that failed, or vanished with its request, is undecided.
LEMMA ForgetsCalls ==
  ASSUME rawEvents' = rawEvents, NEW done \in SUBSET Calls,
         \A c \in Calls : AnswerOf(c[1], c[2])' =
           IF c \in done THEN [duplicate |-> FALSE, record |-> {}] ELSE AnswerOf(c[1], c[2])
  PROVE  Store!Next
<1>1. Accepted' = Accepted
  BY DEF Accepted
<1>2. Answers' = [c \in Calls |-> IF c \in done THEN [duplicate |-> FALSE, record |-> {}]
                                  ELSE Answers[c]]
  BY DEF Answers
<1>3. Store!Forget(done)
  BY <1>1, <1>2 DEF Store!Forget, Store!Undecided, Answers, Accepted
<1>4. QED
  BY <1>3 DEF Store!Next

LEMMA FailureForgets ==
  ASSUME IngestInv, IngestInv', CallsOk, NEW r \in Requests, NEW i, StatementFails(r, i)
  PROVE  Store!Next
<1>1. /\ i \in DOMAIN request[r].items /\ Move(r, i, "threw", {}) /\ TypeOK
      /\ "threw" \in ItemStep /\ {} \in SUBSET Row /\ <<r, i>> \in Calls
      /\ rawEvents' = rawEvents /\ TablesGrow
  BY DEF StatementFails, At, ItemStep, Ended, IngestInv, CallsOk, TablesGrow
<1>2. request'[r].items[i].step = "threw"
  BY <1>1, MoveEffect
<1>3. AnswerOf(r, i)' = [duplicate |-> FALSE, record |-> {}]
  <2>1. ~Decided(r, i, TakenOver)' /\ ~Decided(r, i, Repeated)'
    BY <1>2 DEF Decided, TakenOver, Repeated
  <2>2. QED
    BY <2>1, AnswerValueNext
<1>4. ASSUME NEW c \in Calls
      PROVE  AnswerOf(c[1], c[2])' =
               IF c \in {<<r, i>>} THEN [duplicate |-> FALSE, record |-> {}]
               ELSE AnswerOf(c[1], c[2])
  <2>1. CASE c = <<r, i>>
    BY <1>3, <2>1 DEF AnswerOf, PayloadOf, SameIdentity, Identity
  <2>2. CASE c # <<r, i>>
    <3>1. AnswerOf(c[1], c[2])' = AnswerOf(c[1], c[2])
      BY <1>1, <2>2, OthersKeepAnswers
    <3>2. QED
      BY <2>2, <3>1
  <2>3. QED
    BY <2>1, <2>2
<1>5. QED
  BY <1>1, <1>4, ForgetsCalls

\* A place that takes a new request, or loses the one it had, has no decided call; the calls of
\* the other places stay.
LEMMA PlaceForgets ==
  ASSUME IngestInv, IngestInv', NEW r \in Requests, rawEvents' = rawEvents, TablesGrow,
         \A q \in Requests \ {r} : request'[q] = request[q],
         \A i \in DOMAIN request'[r].items :
           request'[r].items[i].step \notin TakenOver \cup Repeated
  PROVE  Store!Next
<1>1. ASSUME NEW c \in Calls
      PROVE  AnswerOf(c[1], c[2])' =
               IF c \in CallsOf(r) THEN [duplicate |-> FALSE, record |-> {}]
               ELSE AnswerOf(c[1], c[2])
  <2>1. c[1] \in Requests /\ (c \in CallsOf(r) <=> c[1] = r)
    BY DEF Calls, CallsOf
  <2>2. CASE c[1] = r
    <3>1. ~Decided(c[1], c[2], TakenOver)' /\ ~Decided(c[1], c[2], Repeated)'
      BY <2>2 DEF Decided
    <3>2. QED
      BY <2>1, <2>2, <3>1, AnswerValueNext
  <2>3. CASE c[1] # r
    <3>1. request'[c[1]] = request[c[1]]
      BY <2>1, <2>3
    <3>2. /\ Decided(c[1], c[2], TakenOver)' <=> Decided(c[1], c[2], TakenOver)
          /\ Decided(c[1], c[2], Repeated)' <=> Decided(c[1], c[2], Repeated)
          /\ PayloadOf(c[1], c[2])' = PayloadOf(c[1], c[2]) /\ RowsOk'
      BY <3>1 DEF Decided, TakenOver, Repeated, PayloadOf, IngestInv
    <3>3. AnswerOf(c[1], c[2])' = AnswerOf(c[1], c[2])
      BY <2>1, <3>2, AnswerKept
    <3>4. QED
      BY <2>1, <2>3, <3>3
  <2>4. QED
    BY <2>2, <2>3
<1>2. CallsOf(r) \in SUBSET Calls
  BY DEF CallsOf
<1>3. QED
  <2> DEFINE done == CallsOf(r)
  <2>1. done \in SUBSET Calls
    BY <1>2
  <2>2. \A c \in Calls : AnswerOf(c[1], c[2])' =
          IF c \in done THEN [duplicate |-> FALSE, record |-> {}] ELSE AnswerOf(c[1], c[2])
    BY <1>1
  <2> HIDE DEF done
  <2>3. QED
    BY <2>1, <2>2, ForgetsCalls

\* Every step of an item moves it to another step, with rows.
LEMMA ItemMoves ==
  ASSUME IngestInv, NEW r \in Requests, NEW i \in DOMAIN request[r].items,
         HandleItem(r, i) \/ StatementFails(r, i) \/ AckLost(r, i)
  PROVE  \E step \in ItemStep, row \in SUBSET Row : Move(r, i, step, row)
<1>1. /\ TypeOK /\ {} \in SUBSET Row /\ request[r].items[i].row \in SUBSET Row
      /\ \A p : SameIdentity(p) \in SUBSET Row
      /\ {"inserted", "byEventId", "byIdentity", "conflict", "duplicate", "accepted", "rejected",
          "threw"} \subseteq ItemStep
  BY ItemTyped DEF IngestInv, TypeOK, SameIdentity, ItemStep, Ended
<1>2. CASE Insert(r, i)
  <2>1. {RowOf(r, i)} \in SUBSET Row
    BY <1>2, InsertingItem DEF Insert
  <2>2. QED
    BY <1>1, <1>2, <2>1 DEF Insert
<1>3. CASE InsertViolatesUnique(r, i) \/ EnqueueProductAnalytics(r, i) \/ PersistInvalid(r, i)
  BY <1>1, <1>3 DEF InsertViolatesUnique, EnqueueProductAnalytics, PersistInvalid
<1>4. CASE FindByEventId(r, i)
  <2>1. CASE SameEventId(PayloadOf(r, i)) \ SameIdentity(PayloadOf(r, i)) # {}
    BY <1>1, <1>4, <2>1 DEF FindByEventId
  <2>2. CASE SameEventId(PayloadOf(r, i)) \ SameIdentity(PayloadOf(r, i)) = {}
    BY <1>1, <1>4, <2>2 DEF FindByEventId
  <2>3. QED
    BY <2>1, <2>2
<1>5. CASE FindByTenantIdempotency(r, i)
  <2>1. CASE SameIdentity(PayloadOf(r, i)) = {}
    BY <1>1, <1>5, <2>1 DEF FindByTenantIdempotency
  <2>2. CASE SameIdentity(PayloadOf(r, i)) # {}
    BY <1>1, <1>5, <2>2 DEF FindByTenantIdempotency
  <2>3. QED
    BY <2>1, <2>2
<1>6. CASE StatementFails(r, i) \/ AckLost(r, i)
  BY <1>1, <1>6 DEF StatementFails, AckLost
<1>7. QED
  BY <1>2, <1>3, <1>4, <1>5, <1>6 DEF HandleItem

\* An item has been received with a submission, as one of its payloads.
LEMMA CallsInvariant ==
  ASSUME IngestInv, CallsOk, [Next]_vars
  PROVE  CallsOk'
<1>1. TypeOK /\ request \in [Requests -> Request]
  BY DEF IngestInv, TypeOK, Request
<1>2. ASSUME NEW r \in Requests, NEW new,
             request' = [request EXCEPT ![r] = new],
             \A i \in DOMAIN new.items : <<r, i>> \in Calls
      PROVE  CallsOk'
  BY <1>1, <1>2 DEF CallsOk, Calls
<1>3. CASE UNCHANGED vars
  BY <1>3 DEF CallsOk, vars, Calls
<1>4. ASSUME NEW r \in Requests, NEW s \in Submissions, Receive(r, s) PROVE CallsOk'
  <2> DEFINE new == [route |-> s.route, credential |-> s.credential, status |-> Unanswered,
                     items |-> [i \in DOMAIN s.payloads |-> NewItem(s.payloads[i], s.credential)]]
  <2>1. request' = [request EXCEPT ![r] = new]
    BY <1>4 DEF Receive
  <2>2. DOMAIN new.items = DOMAIN s.payloads
    OBVIOUS
  <2>3. \A i \in DOMAIN new.items : <<r, i>> \in Calls
    BY <2>2 DEF Calls
  <2> HIDE DEF new
  <2>4. QED
    BY <1>2, <2>1, <2>3
<1>5. ASSUME NEW r \in Requests, Crash(r) \/ \E s \in Submissions : Refuse(r, s) PROVE CallsOk'
  <2>1. PICK status \in {Unanswered, 401} :
          request' = [request EXCEPT ![r] = [NoRequest EXCEPT !.status = status]]
    BY <1>5 DEF Refuse, Crash, NoRequest, Unanswered
  <2> DEFINE new == [NoRequest EXCEPT !.status = status]
  <2>2. DOMAIN new.items = {}
    BY DEF NoRequest
  <2>3. request' = [request EXCEPT ![r] = new]
    BY <2>1
  <2> HIDE DEF new
  <2>4. QED
    BY <1>2, <2>2, <2>3
<1>6. ASSUME NEW r \in Requests, Answer(r) PROVE CallsOk'
  <2>1. PICK status : request' = [request EXCEPT ![r].status = status]
    BY <1>6 DEF Answer
  <2> DEFINE new == [request[r] EXCEPT !.status = status]
  <2>2. request' = [request EXCEPT ![r] = new] /\ new.items = request[r].items
    BY <1>1, <2>1 DEF Request
  <2>3. \A i \in DOMAIN new.items : <<r, i>> \in Calls
    BY <2>2 DEF CallsOk
  <2> HIDE DEF new
  <2>4. QED
    BY <1>2, <2>2, <2>3
<1>7. ASSUME NEW r \in Requests, NEW i \in DOMAIN request[r].items,
             NEW step \in ItemStep, NEW row \in SUBSET Row, Move(r, i, step, row)
      PROVE  CallsOk'
  <2>1. \A q \in Requests : DOMAIN request'[q].items = DOMAIN request[q].items
    BY <1>1, <1>7, MoveEffect
  <2>2. QED
    BY <2>1 DEF CallsOk, Calls
<1>8. ASSUME NEW r \in Requests, NEW i \in DOMAIN request[r].items,
             HandleItem(r, i) \/ StatementFails(r, i) \/ AckLost(r, i)
      PROVE  \E step \in ItemStep, row \in SUBSET Row : Move(r, i, step, row)
  BY <1>8, ItemMoves
<1>9. CallsOk' \/ \E r \in Requests : \E i \in DOMAIN request[r].items :
        \E step \in ItemStep, row \in SUBSET Row : Move(r, i, step, row)
  BY <1>3, <1>4, <1>5, <1>6, <1>8 DEF Next, Handle, GoWrong
<1>10. QED
  BY <1>7, <1>9

\* A step of a request's item is a step of the store, or is not seen by it.
LEMMA ItemImplements ==
  ASSUME IngestInv, IngestInv', CallsOk, NEW r \in Requests, NEW i \in DOMAIN request[r].items,
         HandleItem(r, i) \/ StatementFails(r, i) \/ AckLost(r, i)
  PROVE  Store!Next \/ UNCHANGED <<Accepted, Answers>>
<1>1. /\ TypeOK /\ ItemOk(r, i) /\ {} \in SUBSET Row
      /\ request[r].items[i].row \in SUBSET Row
      /\ \A p : SameIdentity(p) \in SUBSET Row
      /\ {"inserted", "byEventId", "byIdentity", "conflict", "duplicate", "accepted", "rejected",
          "threw"} \subseteq ItemStep
  BY ItemTyped DEF IngestInv, TypeOK, SameIdentity, ItemStep, Ended, ItemsOk
<1>2. CASE Insert(r, i)
  BY <1>2, InsertAccepts
<1>3. CASE StatementFails(r, i)
  BY <1>3, FailureForgets
<1>4. CASE InsertViolatesUnique(r, i)
  <2>1. /\ Move(r, i, "byEventId", {}) /\ rawEvents' = rawEvents /\ TablesGrow
        /\ request[r].items[i].step = "insert"
    BY <1>4 DEF InsertViolatesUnique, At, TablesGrow
  <2>2. QED
    BY <1>1, <2>1, ItemStutters DEF TakenOver, Repeated
<1>5. CASE FindByEventId(r, i)
  <2>1. CASE SameEventId(PayloadOf(r, i)) \ SameIdentity(PayloadOf(r, i)) = {}
    BY <1>5, <2>1, FindRecognises
  <2>2. CASE SameEventId(PayloadOf(r, i)) \ SameIdentity(PayloadOf(r, i)) # {}
    <3>1. /\ Move(r, i, "conflict", {}) /\ rawEvents' = rawEvents /\ TablesGrow
          /\ request[r].items[i].step = "byEventId"
      BY <1>5, <2>2 DEF FindByEventId, At, TablesGrow
    <3>2. QED
      BY <1>1, <3>1, ItemStutters DEF TakenOver, Repeated
  <2>3. QED
    BY <2>1, <2>2
<1>6. CASE FindByTenantIdempotency(r, i)
  <2>1. /\ request[r].items[i].step = "byIdentity" /\ SameIdentity(PayloadOf(r, i)) # {}
        /\ rawEvents' = rawEvents /\ TablesGrow
    BY <1>1, <1>6 DEF FindByTenantIdempotency, At, ItemOk, PayloadOf, TablesGrow
  <2>2. Move(r, i, "duplicate", SameIdentity(PayloadOf(r, i)))
    BY <1>6, <2>1 DEF FindByTenantIdempotency
  <2>3. QED
    BY <1>1, <2>1, <2>2, ItemStutters DEF TakenOver, Repeated
<1>7. CASE EnqueueProductAnalytics(r, i)
  <2>1. /\ Move(r, i, "accepted", request[r].items[i].row) /\ rawEvents' = rawEvents
        /\ TablesGrow /\ request[r].items[i].step = "inserted"
    BY <1>7 DEF EnqueueProductAnalytics, At, TablesGrow
  <2>2. QED
    BY <1>1, <2>1, ItemStutters DEF TakenOver, Repeated
<1>8. CASE \/ PersistInvalid(r, i)
           \/ AckLost(r, i) /\ At(r, i, "audit")
  <2>1. /\ Move(r, i, "rejected", {}) \/ Move(r, i, "threw", {})
        /\ rawEvents' = rawEvents /\ TablesGrow /\ request[r].items[i].step = "audit"
    BY <1>8 DEF PersistInvalid, AckLost, At, TablesGrow
  <2>2. PICK step \in {"rejected", "threw"} : Move(r, i, step, {})
    BY <2>1
  <2>3. /\ step \in ItemStep
        /\ step \in TakenOver <=> request[r].items[i].step \in TakenOver
        /\ step \in Repeated <=> request[r].items[i].step \in Repeated
    BY <1>1, <2>1 DEF TakenOver, Repeated
  <2>4. QED
    BY <1>1, <2>1, <2>2, <2>3, ItemStutters
<1>9. CASE AckLost(r, i) /\ At(r, i, "insert") /\ StoreRow(r, i)
  BY <1>9, LostInsertAccepts
<1>10. QED
  BY <1>2, <1>3, <1>4, <1>5, <1>6, <1>7, <1>8, <1>9 DEF HandleItem, AckLost

LEMMA RequestImplements ==
  ASSUME IngestInv, IngestInv', NEW r \in Requests,
         \/ \E s \in Submissions : Receive(r, s) \/ Refuse(r, s)
         \/ Answer(r) \/ Crash(r)
  PROVE  Store!Next \/ UNCHANGED <<Accepted, Answers>>
<1>1. /\ request \in [Requests -> Request] /\ RowsOk'
  BY DEF IngestInv, TypeOK, Request
<1>2. rawEvents' = rawEvents /\ TablesGrow
  BY DEF Receive, Refuse, Answer, Crash, TablesGrow
<1>3. ASSUME NEW s \in Submissions, Receive(r, s) PROVE Store!Next
  <2> DEFINE items == [i \in DOMAIN s.payloads |-> NewItem(s.payloads[i], s.credential)]
  <2>1. /\ \A q \in Requests \ {r} : request'[q] = request[q]
        /\ request'[r].items = items
    BY <1>1, <1>3 DEF Receive
  <2>2. \A i \in DOMAIN items : items[i].step \notin TakenOver \cup Repeated
    BY DEF NewItem, TakenOver, Repeated
  <2> HIDE DEF items
  <2>3. QED
    BY <1>2, <2>1, <2>2, PlaceForgets
<1>4. ASSUME Crash(r) \/ \E s \in Submissions : Refuse(r, s) PROVE Store!Next
  <2>1. PICK status \in {Unanswered, 401} :
          request' = [request EXCEPT ![r] = [NoRequest EXCEPT !.status = status]]
    BY <1>4 DEF Refuse, Crash, NoRequest, Unanswered
  <2>2. [NoRequest EXCEPT !.status = status].items = <<>>
    BY DEF NoRequest
  <2>3. /\ \A q \in Requests \ {r} : request'[q] = request[q]
        /\ request'[r].items = <<>>
    BY <1>1, <2>1, <2>2
  <2>4. QED
    BY <1>2, <2>3, PlaceForgets
<1>5. ASSUME Answer(r) PROVE UNCHANGED <<Accepted, Answers>>
  <2>1. PICK status : request' = [request EXCEPT ![r].status = status]
    BY <1>5 DEF Answer
  <2>2. \A q \in Requests : request'[q].items = request[q].items
    BY <1>1, <2>1 DEF Request
  <2>3. ASSUME NEW c \in Calls PROVE AnswerOf(c[1], c[2])' = AnswerOf(c[1], c[2])
    <3>1. c[1] \in Requests /\ request'[c[1]].items = request[c[1]].items
      BY <2>2 DEF Calls
    <3>2. /\ Decided(c[1], c[2], TakenOver)' <=> Decided(c[1], c[2], TakenOver)
          /\ Decided(c[1], c[2], Repeated)' <=> Decided(c[1], c[2], Repeated)
          /\ PayloadOf(c[1], c[2])' = PayloadOf(c[1], c[2])
      BY <3>1 DEF Decided, PayloadOf, TakenOver, Repeated
    <3>3. QED
      BY <1>1, <1>2, <3>1, <3>2, AnswerKept
  <2>4. Accepted' = Accepted
    BY <1>2 DEF Accepted
  <2>5. QED
    BY <2>3, <2>4, AnswersEqual
<1>6. QED
  BY <1>3, <1>4, <1>5

LEMMA StepImplements ==
  ASSUME IngestInv, IngestInv', CallsOk, [Next]_vars
  PROVE  [Store!Next]_Store!storeVars
<1>1. CASE UNCHANGED vars
  BY <1>1 DEF vars, Store!storeVars, AnswerOf, PayloadOf, SameIdentity, Identity
<1>2. ASSUME NEW r \in Requests,
             \/ \E s \in Submissions : Receive(r, s) \/ Refuse(r, s)
             \/ Handle(r) \/ GoWrong(r)
      PROVE  Store!Next \/ UNCHANGED <<Accepted, Answers>>
  BY <1>2, ItemImplements, RequestImplements DEF Handle, GoWrong
<1>3. UNCHANGED <<Accepted, Answers>> => UNCHANGED Store!storeVars
  BY DEF Store!storeVars, Accepted, Answers
<1>4. QED
  BY <1>1, <1>2, <1>3 DEF Next

LEMMA InitImplements == Init => Store!Init /\ CallsOk
<1> SUFFICES ASSUME Init PROVE Store!Init /\ CallsOk
  OBVIOUS
<1>1. \A r \in Requests : DOMAIN request[r].items = {}
  BY DEF Init, NoRequest
<1>2. CallsOk
  BY <1>1 DEF CallsOk
<1>3. Accepted = {}
  BY DEF Init, Accepted
<1>4. ASSUME NEW c \in Calls
      PROVE  AnswerOf(c[1], c[2]) = [duplicate |-> FALSE, record |-> {}]
  <2>1. ~Decided(c[1], c[2], TakenOver) /\ ~Decided(c[1], c[2], Repeated)
    BY <1>1 DEF Decided, Calls
  <2>2. QED
    BY <2>1, AnswerValue
<1>5. QED
  BY <1>2, <1>3, <1>4 DEF Store!Init, Store!Undecided, Accepted

\* Racing calls of the PostgreSQL repository, each an INSERT and up to two SELECTs that may
\* fail between any two of them, answer like calls of a store that decides each of them in one
\* step: the interface the in-memory store shows and the handlers rely on.
THEOREM StoreImplemented == Spec => ImplementsStore
<1>1. Init => IngestInv /\ CallsOk /\ Store!Init
  BY InitIngest, InitImplements
<1>2. IngestInv /\ CallsOk /\ [Next]_vars => IngestInv' /\ CallsOk'
  BY NextInvariant, CallsInvariant
<1>3. IngestInv /\ IngestInv' /\ CallsOk /\ [Next]_vars => [Store!Next]_Store!storeVars
  BY StepImplements
<1>4. QED
  BY <1>1, <1>2, <1>3, PTL DEF Spec, ImplementsStore, Store!Spec
===============================================================================
