--------------------------- MODULE PosDeliveryProofs ---------------------------
(***************************************************************************)
(* Theorems about PosDelivery, for every set of deliveries, requests,      *)
(* events and credentials, and every number of late requests.              *)
(*                                                                         *)
(* The argument: the request a delivery waits for is its own - no other     *)
(* delivery waits for it and no other submission takes its place - so the   *)
(* answer is about the delivery's payload and credential; what the answer   *)
(* says of the store was true when it was given and stays true.             *)
(***************************************************************************)
EXTENDS PosDelivery, EventIngestionProofs

\* What a delivery that waits for request r can find there: the refusal of its credential,
\* nothing (the process stopped), or its item, and in the end the answer to it.
WaitOk(d, r) ==
  \/ /\ request[r].items = <<>> /\ request[r].status = 401
     /\ delivery[d].credential = NoCredential
  \/ request[r].items = <<>> /\ request[r].status = Unanswered
  \/ /\ request[r].route = "/events" /\ DOMAIN request[r].items = {1}
     /\ request[r].credential = delivery[d].credential
     /\ PayloadOf(r, 1) = delivery[d].payload
     /\ delivery[d].known => request[r].items[1].step \notin {"inserted", "accepted"}
     /\ \/ request[r].status \in {Unanswered, 500}
        \/ /\ request[r].status = ItemStatus(r, 1)
           /\ request[r].items[1].step \in {"accepted", "duplicate", "rejected"}

DeliveredOk(d) ==
  /\ delivery[d].known => Stored(delivery[d].payload) /\ delivery[d].outcome # "sent"
  /\ delivery[d].outcome \in {"sent", "duplicate"} =>
       \E row \in rawEvents : /\ Identity(row.event) = Identity(delivery[d].payload)
                              /\ row.event.merchant = delivery[d].credential.merchant

\* What a producer was told of its payload, credential and tenant.
DefectOk(d) ==
  delivery[d].payload # NotSent =>
    LET c == delivery[d].credential
        p == delivery[d].payload
    IN  /\ delivery[d].outcome = "unauthorized" => c = NoCredential
        /\ delivery[d].outcome = "invalid_payload" =>
             c # NoCredential /\ Verdict(p, c) = "invalid"
        /\ delivery[d].outcome = "tenant_identity_required" =>
             c # NoCredential /\ Verdict(p, c) = "TENANT_IDENTITY_REQUIRED"
        /\ delivery[d].outcome = "tenant_mismatch" =>
             c # NoCredential /\ Verdict(p, c) = "TENANT_MISMATCH"

\* A delivery waits for one request, while it is under way it has no outcome, and only what
\* does not map has no payload.
DeliveryOk(d) ==
  /\ delivery[d].step # "ended" => delivery[d].payload # NotSent /\ delivery[d].outcome = "none"
  /\ delivery[d].step # "waiting" => delivery[d].request = {}
  /\ delivery[d].step = "waiting" => \E r \in Requests : delivery[d].request = {r} /\ WaitOk(d, r)
  /\ DeliveredOk(d) /\ DefectOk(d)

OneWaiter ==
  \A d, f \in Deliveries : \A r \in delivery[d].request : r \in delivery[f].request => d = f

PosInv ==
  /\ IngestInv /\ DeliveryTypeOK /\ OneWaiter
  /\ \A d \in Deliveries : DeliveryOk(d)

InFlight == {Submission(p, c) : p \in Payloads, c \in Credentials \cup {NoCredential}}

-------------------------------------------------------------------------------
(* What the steps of others leave alone.                                   *)

\* A step of one request grows the tables and leaves the other requests.
LEMMA ServerEffect ==
  ASSUME IngestInv, NEW r \in Requests,
         \/ \E s : Receive(r, s) \/ Refuse(r, s)
         \/ Handle(r) \/ GoWrong(r)
  PROVE  TablesGrow /\ \A q \in Requests \ {r} : request'[q] = request[q]
<1>1. request \in [Requests -> Request]
  BY DEF IngestInv, TypeOK, Request
<1>2. CASE Answer(r) \/ Crash(r) \/ \E s : Receive(r, s) \/ Refuse(r, s)
  BY <1>1, <1>2 DEF Answer, Crash, Receive, Refuse, TablesGrow
<1>3. ASSUME NEW i \in DOMAIN request[r].items,
             HandleItem(r, i) \/ StatementFails(r, i) \/ AckLost(r, i)
      PROVE  TablesGrow /\ \A q \in Requests \ {r} : request'[q] = request[q]
  <2>1. PICK step \in ItemStep, row \in SUBSET Row : Move(r, i, step, row)
    BY <1>3, ItemMoves
  <2>2. \A q \in Requests \ {r} : request'[q] = request[q]
    BY <2>1, MoveEffect DEF IngestInv
  <2>3. TablesGrow
    BY <1>3
    DEF TablesGrow, HandleItem, Insert, InsertViolatesUnique, FindByEventId, StoreRow,
        FindByTenantIdempotency, EnqueueProductAnalytics, PersistInvalid, StatementFails, AckLost
  <2>4. QED
    BY <2>2, <2>3
<1>4. QED
  BY <1>2, <1>3 DEF Handle, GoWrong

LEMMA DeliveredKept ==
  ASSUME TablesGrow, NEW d, DeliveredOk(d), delivery'[d] = delivery[d]
  PROVE  DeliveredOk(d)'
<1>1. SameIdentity(delivery[d].payload) \subseteq
        {row \in rawEvents' : Identity(row.event) = Identity(delivery[d].payload)}
  BY DEF TablesGrow, SameIdentity
<1>2. delivery[d].known => Stored(delivery[d].payload)'
  BY <1>1 DEF DeliveredOk, Stored, SameIdentity, Identity
<1>3. QED
  BY <1>2 DEF DeliveredOk, TablesGrow, Identity

LEMMA DefectKept ==
  ASSUME NEW d, DefectOk(d), delivery'[d] = delivery[d]
  PROVE  DefectOk(d)'
BY DEF DefectOk, Verdict

LEMMA WaitKept ==
  ASSUME NEW d, NEW r, WaitOk(d, r), delivery'[d] = delivery[d], request'[r] = request[r]
  PROVE  WaitOk(d, r)'
<1>1. ItemStatus(r, 1)' = ItemStatus(r, 1)
  BY DEF ItemStatus, PayloadOf, Verdict
<1>2. QED
  BY <1>1 DEF WaitOk, PayloadOf

\* A delivery whose request no one touches stays as it was.
LEMMA DeliveryKept ==
  ASSUME PosInv, TablesGrow, NEW d \in Deliveries, delivery'[d] = delivery[d],
         \A r \in delivery[d].request : request'[r] = request[r]
  PROVE  DeliveryOk(d)'
<1>1. DeliveryOk(d)
  BY DEF PosInv
<1>2. DeliveredOk(d)' /\ DefectOk(d)'
  BY <1>1, DeliveredKept, DefectKept DEF DeliveryOk
<1>3. ASSUME delivery'[d].step = "waiting"
      PROVE  \E r \in Requests : delivery'[d].request = {r} /\ WaitOk(d, r)'
  <2>1. PICK r \in Requests : delivery[d].request = {r} /\ WaitOk(d, r)
    BY <1>1, <1>3 DEF DeliveryOk
  <2>2. WaitOk(d, r)'
    BY <2>1, WaitKept
  <2>3. QED
    BY <2>1, <2>2
<1>4. QED
  BY <1>1, <1>2, <1>3 DEF DeliveryOk

\* What a step of one delivery has to account for.
LEMMA PosStep ==
  ASSUME PosInv, IngestInv', TablesGrow, NEW d \in Deliveries, NEW new \in Delivery,
         delivery' = [delivery EXCEPT ![d] = new], late' \subseteq InFlight,
         \A f \in Deliveries \ {d} : \A r \in delivery[f].request :
           request'[r] = request[r] /\ r \notin new.request,
         DeliveryOk(d)'
  PROVE  PosInv'
<1>1. /\ delivery \in [Deliveries -> Delivery] /\ OneWaiter
  BY DEF PosInv, DeliveryTypeOK
<1>2. /\ delivery' \in [Deliveries -> Delivery] /\ delivery'[d] = new
      /\ \A f \in Deliveries \ {d} : delivery'[f] = delivery[f]
  BY <1>1
<1>3. DeliveryTypeOK'
  BY <1>2 DEF DeliveryTypeOK, IngestInv, InFlight, Submission
<1>4. OneWaiter'
  BY <1>1, <1>2 DEF OneWaiter
<1>5. \A f \in Deliveries : DeliveryOk(f)'
  BY <1>2, DeliveryKept
<1>6. QED
  BY <1>3, <1>4, <1>5 DEF PosInv

\* What a step of one request has to account for: the deliveries that wait for it.
LEMMA RequestStep ==
  ASSUME PosInv, IngestInv', TablesGrow, NEW r \in Requests, delivery' = delivery,
         late' \subseteq InFlight, \A q \in Requests \ {r} : request'[q] = request[q],
         \A d \in Deliveries : r \in delivery[d].request => WaitOk(d, r)'
  PROVE  PosInv'
<1>1. /\ delivery \in [Deliveries -> Delivery] /\ OneWaiter
  BY DEF PosInv, DeliveryTypeOK
<1>2. DeliveryTypeOK' /\ OneWaiter'
  BY <1>1 DEF DeliveryTypeOK, OneWaiter, IngestInv, InFlight, Submission
<1>3. ASSUME NEW d \in Deliveries PROVE DeliveryOk(d)'
  <2>1. DeliveryOk(d) /\ delivery'[d] = delivery[d] /\ delivery[d].request \subseteq Requests
    BY <1>1 DEF PosInv, Delivery
  <2>2. CASE r \notin delivery[d].request
    BY <2>1, <2>2, DeliveryKept
  <2>3. CASE r \in delivery[d].request
    <3>1. delivery[d].request = {r}
      BY <2>1, <2>3 DEF DeliveryOk
    <3>2. DeliveredOk(d)' /\ DefectOk(d)'
      BY <2>1, DeliveredKept, DefectKept DEF DeliveryOk
    <3>3. WaitOk(d, r)'
      BY <2>3
    <3>4. QED
      BY <2>1, <3>1, <3>2, <3>3 DEF DeliveryOk
  <2>4. QED
    BY <2>2, <2>3
<1>4. QED
  BY <1>2, <1>3 DEF PosInv

-------------------------------------------------------------------------------
(* The steps of the server.                                                *)

\* A fact that was stored when it was sent is not inserted for the delivery that waits.
LEMMA KnownNotInserted ==
  ASSUME IngestInv, NEW r \in Requests, NEW i \in DOMAIN request[r].items,
         Stored(PayloadOf(r, i)), request[r].items[i].step \notin {"inserted", "accepted"},
         HandleItem(r, i) \/ StatementFails(r, i) \/ AckLost(r, i)
  PROVE  request'[r].items[i].step \notin {"inserted", "accepted"}
<1>1. ~Insert(r, i) /\ ~EnqueueProductAnalytics(r, i)
  BY DEF Insert, StoreRow, Stored, EnqueueProductAnalytics, At
<1>2. PICK step \in ItemStep, row \in SUBSET Row :
        Move(r, i, step, row) /\ step \notin {"inserted", "accepted"}
  <2>1. {} \in SUBSET Row /\ SameIdentity(PayloadOf(r, i)) \in SUBSET Row
    BY DEF IngestInv, TypeOK, SameIdentity
  <2>2. {"byEventId", "byIdentity", "conflict", "duplicate", "rejected", "threw"} \subseteq
          ItemStep \ {"inserted", "accepted"}
    BY DEF ItemStep, Ended
  <2>3. CASE InsertViolatesUnique(r, i) \/ PersistInvalid(r, i)
             \/ StatementFails(r, i) \/ AckLost(r, i)
    BY <2>1, <2>2, <2>3 DEF InsertViolatesUnique, PersistInvalid, StatementFails, AckLost
  <2>4. CASE FindByEventId(r, i)
    <3>1. Move(r, i, "conflict", {}) \/ Move(r, i, "byIdentity", {})
      BY <2>4 DEF FindByEventId
    <3>2. QED
      BY <2>1, <2>2, <3>1
  <2>5. CASE FindByTenantIdempotency(r, i)
    <3>1. \/ Move(r, i, "conflict", SameIdentity(PayloadOf(r, i)))
          \/ Move(r, i, "duplicate", SameIdentity(PayloadOf(r, i)))
      BY <2>5 DEF FindByTenantIdempotency
    <3>2. QED
      BY <2>1, <2>2, <3>1
  <2>6. QED
    BY <1>1, <2>3, <2>4, <2>5 DEF HandleItem
<1>3. QED
  BY <1>2, MoveEffect DEF IngestInv

LEMMA ItemsAreOpen ==
  ASSUME NEW r, NEW i, HandleItem(r, i) \/ StatementFails(r, i) \/ AckLost(r, i)
  PROVE  request[r].items[i].step \notin {"accepted", "duplicate", "rejected"}
BY DEF HandleItem, Insert, InsertViolatesUnique, FindByEventId, FindByTenantIdempotency,
       EnqueueProductAnalytics, PersistInvalid, StatementFails, AckLost, At

\* Whatever the server does to the request of a delivery, it stays its request.
LEMMA WaitHandled ==
  ASSUME PosInv, IngestInv', NEW d \in Deliveries, NEW r \in Requests, WaitOk(d, r),
         delivery' = delivery, Handle(r) \/ GoWrong(r)
  PROVE  WaitOk(d, r)'
<1>1. /\ IngestInv /\ TypeOK /\ request \in [Requests -> Request] /\ request[r] \in Request
      /\ delivery[d].known => Stored(delivery[d].payload)
  BY DEF PosInv, DeliveryOk, DeliveredOk, IngestInv, TypeOK, Request
<1>2. CASE Crash(r)
  <2>1. request'[r] = NoRequest
    BY <1>1, <1>2 DEF Crash
  <2>2. request'[r].items = <<>> /\ request'[r].status = Unanswered
    BY <2>1 DEF NoRequest
  <2>3. QED
    BY <2>2 DEF WaitOk
<1>3. CASE Answer(r)
  <2>1. /\ request[r].route = "/events" /\ DOMAIN request[r].items = {1}
        /\ request[r].credential = delivery[d].credential
        /\ PayloadOf(r, 1) = delivery[d].payload
        /\ delivery[d].known => request[r].items[1].step \notin {"inserted", "accepted"}
    BY <1>3 DEF Answer, WaitOk
  <2>2. PICK status : /\ request' = [request EXCEPT ![r].status = status]
                      /\ status = IF Thrown(r) THEN 500 ELSE ItemStatus(r, 1)
    <3>1. CASE Thrown(r)
      BY <1>3, <3>1 DEF Answer
    <3>2. CASE ~Thrown(r)
      BY <1>3, <2>1, <3>2 DEF Answer
    <3>3. QED
      BY <3>1, <3>2
  <2>3. /\ request'[r].status = status /\ request'[r].items = request[r].items
        /\ request'[r].route = request[r].route
        /\ request'[r].credential = request[r].credential
    BY <1>1, <2>2 DEF Request
  <2>4. ItemStatus(r, 1)' = ItemStatus(r, 1) /\ PayloadOf(r, 1)' = PayloadOf(r, 1)
    BY <2>3 DEF ItemStatus, PayloadOf, Verdict
  <2>5. ~Thrown(r) => request[r].items[1].step \in {"accepted", "duplicate", "rejected"}
    BY <1>3, <2>1 DEF Answer, Thrown, OpenItems, Ended
  <2>6. QED
    BY <2>1, <2>2, <2>3, <2>4, <2>5 DEF WaitOk
<1>4. ASSUME NEW i \in DOMAIN request[r].items,
             HandleItem(r, i) \/ StatementFails(r, i) \/ AckLost(r, i)
      PROVE  WaitOk(d, r)'
  <2>1. /\ request[r].items[i].step \notin {"accepted", "duplicate", "rejected"}
        /\ DOMAIN request[r].items # {}
    BY <1>4, ItemsAreOpen
  <2>2. /\ request[r].route = "/events" /\ DOMAIN request[r].items = {1} /\ i = 1
        /\ request[r].credential = delivery[d].credential
        /\ PayloadOf(r, i) = delivery[d].payload
        /\ delivery[d].known => request[r].items[i].step \notin {"inserted", "accepted"}
        /\ request[r].status \in {Unanswered, 500}
    BY <2>1 DEF WaitOk
  <2>3. PICK step \in ItemStep, row \in SUBSET Row : Move(r, i, step, row)
    BY <1>1, <1>4, ItemMoves
  <2>4. /\ request'[r].route = request[r].route /\ request'[r].status = request[r].status
        /\ request'[r].credential = request[r].credential
        /\ DOMAIN request'[r].items = DOMAIN request[r].items
        /\ request'[r].items[i].payload = request[r].items[i].payload
    BY <1>1, <2>3, MoveEffect
  <2>5. delivery[d].known => request'[r].items[i].step \notin {"inserted", "accepted"}
    BY <1>1, <1>4, <2>2, KnownNotInserted
  <2>6. QED
    BY <2>2, <2>4, <2>5 DEF WaitOk, PayloadOf
<1>5. QED
  BY <1>2, <1>3, <1>4 DEF Handle, GoWrong

LEMMA SubmissionWellFormed ==
  ASSUME NEW p \in Payloads, NEW c \in Credentials \cup {NoCredential}
  PROVE  WellFormed(Submission(p, c))
<1>1. <<p>> \in Seq(Payloads)
  OBVIOUS
<1>2. QED
  BY <1>1 DEF WellFormed, Submission, Routes

\* Requests of others take a place that no delivery waits for.
LEMMA ServerInvariant ==
  ASSUME PosInv, NEW r \in Requests, Server(r)
  PROVE  PosInv'
<1>1. IngestInv /\ late \subseteq InFlight
  BY DEF PosInv, DeliveryTypeOK, InFlight
<1>2. ASSUME NEW s, WellFormed(s), Unwaited(r), Receive(r, s) \/ Refuse(r, s),
             delivery' = delivery, late' \subseteq late
      PROVE  PosInv'
  <2>1. IngestInv'
    BY <1>1, <1>2, ReceiveInvariant, EmptyInvariant
  <2>2. TablesGrow /\ \A q \in Requests \ {r} : request'[q] = request[q]
    BY <1>1, <1>2, ServerEffect
  <2>3. \A d \in Deliveries : r \notin delivery[d].request
    BY <1>2 DEF Unwaited
  <2>4. QED
    BY <1>1, <1>2, <2>1, <2>2, <2>3, RequestStep
<1>3. CASE ArriveLate(r)
  <2>1. PICK s \in late : Receive(r, s) \/ Refuse(r, s)
    BY <1>3 DEF ArriveLate
  <2>2. /\ Unwaited(r) /\ late' \subseteq late /\ delivery' = delivery
    BY <1>3 DEF ArriveLate
  <2>3. WellFormed(s)
    <3>1. PICK p \in Payloads, c \in Credentials \cup {NoCredential} : s = Submission(p, c)
      BY <1>1, <2>1 DEF InFlight
    <3>2. QED
      BY <3>1, SubmissionWellFormed
  <2>4. QED
    BY <1>2, <2>1, <2>2, <2>3
<1>4. ASSUME Unwaited(r), NEW s \in Submissions, Receive(r, s) \/ Refuse(r, s),
             UNCHANGED deliveryVars
      PROVE  PosInv'
  BY <1>2, <1>4, SubmissionsWellFormed DEF deliveryVars
<1>5. ASSUME Handle(r) \/ GoWrong(r), UNCHANGED deliveryVars PROVE PosInv'
  <2>1. IngestInv' /\ delivery' = delivery /\ late' = late
    BY <1>1, <1>5, HandleInvariant DEF deliveryVars
  <2>2. TablesGrow /\ \A q \in Requests \ {r} : request'[q] = request[q]
    BY <1>1, <1>5, ServerEffect
  <2>3. ASSUME NEW d \in Deliveries, r \in delivery[d].request PROVE WaitOk(d, r)'
    <3>1. WaitOk(d, r)
      BY <2>3 DEF PosInv, DeliveryOk
    <3>2. QED
      BY <1>5, <2>1, <3>1, WaitHandled
  <2>4. QED
    BY <1>1, <2>1, <2>2, <2>3, RequestStep
<1>6. QED
  BY <1>3, <1>4, <1>5 DEF Server

-------------------------------------------------------------------------------
(* The steps of a delivery.                                                *)

\* An outcome that is no lie about a delivery, its payload and its credential.
TrueOutcome(d, outcome) ==
  LET c == delivery[d].credential
      p == delivery[d].payload
  IN  /\ delivery[d].known => outcome # "sent"
      /\ outcome \in {"sent", "duplicate"} =>
           \E row \in rawEvents : /\ Identity(row.event) = Identity(p)
                                  /\ row.event.merchant = c.merchant
      /\ outcome = "unauthorized" => c = NoCredential
      /\ outcome = "invalid_payload" => c # NoCredential /\ Verdict(p, c) = "invalid"
      /\ outcome = "tenant_identity_required" =>
           c # NoCredential /\ Verdict(p, c) = "TENANT_IDENTITY_REQUIRED"
      /\ outcome = "tenant_mismatch" => c # NoCredential /\ Verdict(p, c) = "TENANT_MISMATCH"

LEMMA ResolveEffect ==
  ASSUME delivery \in [Deliveries -> Delivery], NEW d \in Deliveries,
         NEW outcome \in Outcome, NEW statusCode \in Status, Resolve(d, outcome, statusCode)
  PROVE  \E new \in Delivery :
           /\ delivery' = [delivery EXCEPT ![d] = new]
           /\ new.step = "ended" /\ new.request = {} /\ new.outcome = outcome
           /\ new.payload = delivery[d].payload /\ new.credential = delivery[d].credential
           /\ new.known = delivery[d].known
<1> DEFINE old == delivery[d]
           new == [step |-> "ended", payload |-> old.payload, credential |-> old.credential,
                   request |-> {}, known |-> old.known, outcome |-> outcome,
                   statusCode |-> statusCode]
<1>1. /\ old \in Delivery
      /\ old = [step |-> old.step, payload |-> old.payload, credential |-> old.credential,
                request |-> old.request, known |-> old.known, outcome |-> old.outcome,
                statusCode |-> old.statusCode]
  BY DEF Delivery
<1>2. new \in Delivery
  BY <1>1 DEF Delivery
<1> DEFINE stepped == [old EXCEPT !.step = "ended"]
           left == [stepped EXCEPT !.request = {}]
           told == [left EXCEPT !.outcome = outcome]
           coded == [told EXCEPT !.statusCode = statusCode]
<1>3. delivery' = [delivery EXCEPT ![d] = coded]
  BY <1>1 DEF Resolve
<1>4. coded = new
  <2>1. stepped = [step |-> "ended", payload |-> old.payload, credential |-> old.credential,
                   request |-> old.request, known |-> old.known, outcome |-> old.outcome,
                   statusCode |-> old.statusCode]
    BY <1>1
  <2> HIDE DEF stepped
  <2>2. left = [step |-> "ended", payload |-> old.payload, credential |-> old.credential,
                request |-> {}, known |-> old.known, outcome |-> old.outcome,
                statusCode |-> old.statusCode]
    BY <2>1
  <2> HIDE DEF left
  <2>3. told = [step |-> "ended", payload |-> old.payload, credential |-> old.credential,
                request |-> {}, known |-> old.known, outcome |-> outcome,
                statusCode |-> old.statusCode]
    BY <2>2
  <2> HIDE DEF told
  <2>4. QED
    BY <2>3
<1>5. delivery' = [delivery EXCEPT ![d] = new]
  <2> HIDE DEF coded, new
  <2>1. QED
    BY <1>3, <1>4
<1>6. QED
  BY <1>2, <1>5

\* What the answer of its request says of a delivery is true of it.
LEMMA AnswerIsTrue ==
  ASSUME PosInv, NEW d \in Deliveries, NEW r \in Requests, WaitOk(d, r),
         request[r].status # Unanswered
  PROVE  /\ Classify(r) \in Outcome /\ request[r].status \in Status
         /\ TrueOutcome(d, Classify(r))
<1> DEFINE c == delivery[d].credential
           p == delivery[d].payload
<1>1. TypeOK /\ ItemsOk /\ request[r].status \in Status
  BY DEF PosInv, IngestInv, TypeOK
<1>2. CASE request[r].status = 401 /\ c = NoCredential
  BY <1>1, <1>2 DEF Classify, Outcome, TrueOutcome
<1>3. CASE request[r].status = 500
  BY <1>1, <1>3 DEF Classify, Outcome, TrueOutcome
<1>4. CASE /\ DOMAIN request[r].items = {1} /\ request[r].credential = c
           /\ PayloadOf(r, 1) = p
           /\ delivery[d].known => request[r].items[1].step \notin {"inserted", "accepted"}
           /\ request[r].status = ItemStatus(r, 1)
           /\ request[r].items[1].step \in {"accepted", "duplicate", "rejected"}
  <2>1. /\ ItemOk(r, 1) /\ 1 \in DOMAIN request[r].items /\ p \in Payloads
        /\ request[r].items[1].payload = p
    BY <1>1, <1>4, ItemTyped DEF ItemsOk, PayloadOf
  <2>2. c \in Credentials /\ c # NoCredential
    BY <1>4, <2>1, IngestionAssumption DEF ItemOk
  <2>3. Verdict(p, c) \in {"invalid", "TENANT_IDENTITY_REQUIRED", "TENANT_MISMATCH", "permitted"}
    BY <2>1, VerdictTyped DEF Reasons
  <2>4. request[r].status = CASE Verdict(p, c) = "permitted" -> 202
                              [] Verdict(p, c) = "TENANT_MISMATCH" -> 403
                              [] OTHER -> 400
    BY <1>4 DEF ItemStatus
  <2>5. CASE Verdict(p, c) = "permitted"
    <3>1. /\ request[r].status = 202
          /\ request[r].items[1].step = "duplicate" => Classify(r) = "duplicate"
          /\ request[r].items[1].step # "duplicate" => Classify(r) = "sent"
      BY <2>1, <2>4, <2>5 DEF Classify, At
    <3>2. request[r].items[1].step \in {"accepted", "duplicate"}
      BY <1>4, <2>1, <2>5 DEF ItemOk
    <3>3. p.merchant = c.merchant
      BY <2>1, <2>5, VerdictTyped
    <3>4. PICK row \in rawEvents : Identity(row.event) = Identity(p)
      BY <1>4, <2>1, <3>2 DEF ItemOk, RowOf, SameIdentity
    <3>5. row.event.merchant = c.merchant
      BY <3>3, <3>4 DEF Identity
    <3>6. QED
      BY <1>1, <1>4, <3>1, <3>2, <3>4, <3>5 DEF Outcome, TrueOutcome
  <2>6. CASE Verdict(p, c) = "TENANT_MISMATCH"
    <3>1. request[r].status = 403 /\ Classify(r) = "tenant_mismatch"
      BY <2>4, <2>6 DEF Classify
    <3>2. QED
      BY <1>1, <2>2, <2>6, <3>1 DEF Outcome, TrueOutcome
  <2>7. CASE Verdict(p, c) \in {"invalid", "TENANT_IDENTITY_REQUIRED"}
    <3>1. request[r].status = 400
      BY <2>4, <2>7
    <3>2. Classify(r) = IF Verdict(p, c) = "TENANT_IDENTITY_REQUIRED"
                        THEN "tenant_identity_required" ELSE "invalid_payload"
      BY <1>4, <3>1 DEF Classify
    <3>3. QED
      BY <1>1, <2>2, <2>7, <3>1, <3>2 DEF Outcome, TrueOutcome
  <2>8. QED
    BY <2>3, <2>5, <2>6, <2>7
<1>5. QED
  BY <1>2, <1>3, <1>4 DEF WaitOk

\* A step of the producer alone leaves ingestion as it is.
LEMMA ProducerAlone ==
  ASSUME PosInv, UNCHANGED vars
  PROVE  IngestInv' /\ TablesGrow /\ request' = request
BY IngestInvUnchanged DEF PosInv, vars, TablesGrow

LEMMA SendInvariant ==
  ASSUME PosInv, NEW d \in Deliveries, MapFails(d) \/ Send(d)
  PROVE  PosInv'
<1>1. /\ IngestInv' /\ TablesGrow /\ request' = request /\ late' \subseteq InFlight
      /\ delivery \in [Deliveries -> Delivery] /\ rawEvents' = rawEvents
  <2>1. UNCHANGED vars /\ late' = late
    BY DEF MapFails, Send
  <2>2. QED
    BY <2>1, ProducerAlone DEF PosInv, DeliveryTypeOK, InFlight, vars
<1>2. CASE MapFails(d)
  <2> DEFINE new == [NoDelivery EXCEPT !.outcome = "invalid_payload"]
  <2>1. new \in Delivery /\ delivery' = [delivery EXCEPT ![d] = new] /\ delivery'[d] = new
    BY <1>1, <1>2 DEF MapFails, NoDelivery, Delivery, Outcome, Status
  <2>2. /\ new.step = "ended" /\ new.request = {} /\ new.payload = NotSent
        /\ new.known = FALSE /\ new.outcome = "invalid_payload"
    BY DEF NoDelivery
  <2> HIDE DEF new
  <2>3. DeliveryOk(d)'
    BY <2>1, <2>2 DEF DeliveryOk, DeliveredOk, DefectOk
  <2>4. QED
    BY <1>1, <2>1, <2>2, <2>3, PosStep
<1>3. CASE Send(d)
  <2>1. PICK s \in Sends :
          delivery' = [delivery EXCEPT ![d] = [NoDelivery EXCEPT
            !.step = "sent", !.payload = s.payload, !.credential = s.credential,
            !.known = Stored(s.payload)]]
    BY <1>3 DEF Send
  <2>2. s.payload \in Payloads /\ s.credential \in Credentials \cup {NoCredential}
    BY DeliveryAssumption
  <2>3. PICK known \in BOOLEAN : known = Stored(s.payload)
    BY DEF Stored
  <2> DEFINE new == [step |-> "sent", payload |-> s.payload, credential |-> s.credential,
                     request |-> {}, known |-> known, outcome |-> "none",
                     statusCode |-> Unanswered]
  <2>4. delivery' = [delivery EXCEPT ![d] = new] /\ delivery'[d] = new
    <3> DEFINE sent == [NoDelivery EXCEPT !.step = "sent"]
               loaded == [sent EXCEPT !.payload = s.payload]
               signed == [loaded EXCEPT !.credential = s.credential]
    <3>1. delivery' = [delivery EXCEPT ![d] = [signed EXCEPT !.known = Stored(s.payload)]]
      BY <2>1
    <3>2. PICK no \in BOOLEAN : no = FALSE
      OBVIOUS
    <3>3. NoDelivery =
         [step |-> "ended", payload |-> NotSent, credential |-> NoCredential,
          request |-> {}, known |-> no, outcome |-> "none", statusCode |-> Unanswered]
      BY <3>2, Zenon DEF NoDelivery
    <3>4. sent =
         [step |-> "sent", payload |-> NotSent, credential |-> NoCredential,
          request |-> {}, known |-> no, outcome |-> "none", statusCode |-> Unanswered]
      BY <3>3
    <3> HIDE DEF sent
    <3>5. loaded =
         [step |-> "sent", payload |-> s.payload, credential |-> NoCredential,
          request |-> {}, known |-> no, outcome |-> "none", statusCode |-> Unanswered]
      BY <3>4
    <3> HIDE DEF loaded
    <3>6. signed =
         [step |-> "sent", payload |-> s.payload, credential |-> s.credential,
          request |-> {}, known |-> no, outcome |-> "none", statusCode |-> Unanswered]
      BY <3>5
    <3> HIDE DEF signed
    <3>7. [signed EXCEPT !.known = known] = new
      BY <3>6
    <3>8. delivery' = [delivery EXCEPT ![d] = new]
      BY <2>3, <3>1, <3>7
    <3>9. QED
      BY <1>1, <3>8
  <2>5. new \in Delivery
    BY <2>2, <2>3 DEF Delivery, Outcome, Status
  <2>6. /\ new.step = "sent" /\ new.request = {} /\ new.payload = s.payload
        /\ new.known = known /\ new.outcome = "none"
    OBVIOUS
  <2> HIDE DEF new
  <2>7. new.payload # NotSent /\ (known => Stored(s.payload))
    BY <2>2, <2>3, <2>6, DeliveryAssumption
  <2>8. known => Stored(delivery[d].payload)'
    BY <1>1, <2>4, <2>6, <2>7 DEF Stored, SameIdentity, Identity
  <2>9. DeliveryOk(d)'
    BY <2>4, <2>6, <2>7, <2>8 DEF DeliveryOk, DeliveredOk, DefectOk
  <2>10. QED
    BY <1>1, <2>4, <2>5, <2>6, <2>9, PosStep
<1>4. QED
  BY <1>2, <1>3

LEMMA ResolveInvariant ==
  ASSUME PosInv, NEW d \in Deliveries, Answered(d) \/ NoAnswer(d)
  PROVE  PosInv'
<1>1. /\ IngestInv' /\ TablesGrow /\ request' = request
      /\ delivery \in [Deliveries -> Delivery] /\ rawEvents' = rawEvents
      /\ delivery[d].step # "ended" /\ DeliveryOk(d) /\ late \subseteq InFlight
  BY ProducerAlone
  DEF Answered, NoAnswer, PosInv, DeliveryTypeOK, InFlight, vars
<1>2. late' \subseteq InFlight
  <2>1. CASE Answered(d)
    BY <1>1, <2>1 DEF Answered
  <2>2. CASE NoAnswer(d)
    <3>1. delivery[d].payload \in Payloads
          /\ delivery[d].credential \in Credentials \cup {NoCredential}
      BY <1>1 DEF DeliveryOk, Delivery
    <3>2. SubmissionOf(d) \in InFlight
      BY <3>1 DEF SubmissionOf, InFlight
    <3>3. QED
      BY <1>1, <2>2, <3>2 DEF NoAnswer
  <2>3. QED
    BY <2>1, <2>2
<1>3. \E outcome \in Outcome, statusCode \in Status :
        Resolve(d, outcome, statusCode) /\ TrueOutcome(d, outcome)
  <2>1. CASE Answered(d)
    <3>1. PICK r \in delivery[d].request :
            request[r].status # Unanswered /\ Resolve(d, Classify(r), request[r].status)
      BY <2>1 DEF Answered
    <3>2. r \in Requests /\ WaitOk(d, r)
      BY <2>1, <3>1, <1>1 DEF Answered, DeliveryOk
    <3>3. QED
      BY <3>1, <3>2, AnswerIsTrue
  <2>2. CASE NoAnswer(d)
    <3>1. "transient_send_failure" \in Outcome /\ Unanswered \in Status
          /\ TrueOutcome(d, "transient_send_failure")
      BY DEF Outcome, Status, TrueOutcome
    <3>2. QED
      BY <2>2, <3>1 DEF NoAnswer
  <2>3. QED
    BY <2>1, <2>2
<1>4. PICK outcome \in Outcome, statusCode \in Status :
        Resolve(d, outcome, statusCode) /\ TrueOutcome(d, outcome)
  BY <1>3
<1>5. PICK new \in Delivery :
        /\ delivery' = [delivery EXCEPT ![d] = new]
        /\ new.step = "ended" /\ new.request = {} /\ new.outcome = outcome
        /\ new.payload = delivery[d].payload /\ new.credential = delivery[d].credential
        /\ new.known = delivery[d].known
  BY <1>1, <1>4, ResolveEffect
<1>6. delivery'[d] = new
  BY <1>1, <1>5
<1>7. delivery[d].known => Stored(delivery[d].payload)'
  <2>1. delivery[d].known => Stored(delivery[d].payload)
    BY <1>1 DEF DeliveryOk, DeliveredOk
  <2>2. QED
    BY <1>1, <1>5, <1>6, <2>1 DEF Stored, SameIdentity, Identity
<1>8. DeliveredOk(d)'
  BY <1>1, <1>4, <1>5, <1>6, <1>7 DEF DeliveredOk, TrueOutcome, Identity
<1>9. DefectOk(d)'
  BY <1>4, <1>5, <1>6 DEF DefectOk, TrueOutcome, Verdict
<1>10. DeliveryOk(d)'
  BY <1>5, <1>6, <1>8, <1>9 DEF DeliveryOk
<1>11. QED
  BY <1>1, <1>2, <1>5, <1>10, PosStep

LEMMA ArrivedOk ==
  ASSUME PosInv, IngestInv', TablesGrow, NEW d \in Deliveries, NEW r \in Requests, Unwaited(r),
         late' \subseteq InFlight, \A q \in Requests \ {r} : request'[q] = request[q],
         NEW new \in Delivery, delivery' = [delivery EXCEPT ![d] = new],
         new.step = "waiting", new.request = {r}, new.payload = delivery[d].payload,
         new.payload # NotSent, new.known = delivery[d].known, new.outcome = "none",
         WaitOk(d, r)'
  PROVE  PosInv'
<1>1. delivery \in [Deliveries -> Delivery] /\ DeliveryOk(d) /\ delivery'[d] = new
  BY DEF PosInv, DeliveryTypeOK
<1>2. new.known => Stored(delivery[d].payload)'
  <2>1. new.known => Stored(delivery[d].payload)
    BY <1>1 DEF DeliveryOk, DeliveredOk
  <2>2. QED
    BY <1>1, <2>1 DEF Stored, SameIdentity, Identity, TablesGrow
<1>3. DeliveryOk(d)'
  BY <1>1, <1>2 DEF DeliveryOk, DeliveredOk, DefectOk
<1>4. \A f \in Deliveries \ {d} : \A q \in delivery[f].request :
        request'[q] = request[q] /\ q \notin new.request
  <2>1. ASSUME NEW f \in Deliveries \ {d}, NEW q \in delivery[f].request
        PROVE  q # r /\ q \in Requests
    BY <1>1, <2>1 DEF Unwaited, Delivery
  <2>2. QED
    BY <2>1
<1>5. QED
  BY <1>3, <1>4, PosStep


\* A submission that arrives becomes the request its delivery waits for.
LEMMA ArriveInvariant ==
  ASSUME PosInv, NEW d \in Deliveries, NEW r \in Requests, Arrive(d, r)
  PROVE  PosInv'
<1> DEFINE p == delivery[d].payload
           c == delivery[d].credential
<1>1. /\ IngestInv /\ delivery \in [Deliveries -> Delivery] /\ delivery[d] \in Delivery
      /\ delivery[d].step = "sent" /\ DeliveryOk(d) /\ late' \subseteq InFlight
      /\ request \in [Requests -> Request]
  BY DEF Arrive, PosInv, DeliveryTypeOK, InFlight, IngestInv, TypeOK, Request
<1>2. p \in Payloads /\ c \in Credentials \cup {NoCredential} /\ delivery[d].outcome = "none"
  BY <1>1 DEF DeliveryOk, Delivery
<1>3. /\ Receive(r, Submission(p, c)) \/ Refuse(r, Submission(p, c))
      /\ Unwaited(r)
  BY DEF Arrive, SubmissionOf
<1>4. IngestInv' /\ TablesGrow /\ \A q \in Requests \ {r} : request'[q] = request[q]
  BY <1>1, <1>2, <1>3, SubmissionWellFormed, ReceiveInvariant, EmptyInvariant, ServerEffect
<1> DEFINE new == [step |-> "waiting", payload |-> p, credential |-> c, request |-> {r},
                   known |-> delivery[d].known, outcome |-> "none",
                   statusCode |-> delivery[d].statusCode]
<1>5. /\ delivery' = [delivery EXCEPT ![d] = new] /\ new \in Delivery /\ delivery'[d] = new
  <2> DEFINE waiting == [delivery[d] EXCEPT !.step = "waiting"]
  <2>1. delivery' = [delivery EXCEPT ![d] = [waiting EXCEPT !.request = {r}]]
    BY <1>1 DEF Arrive
  <2>2. waiting = [step |-> "waiting", payload |-> p, credential |-> c,
                   request |-> delivery[d].request, known |-> delivery[d].known,
                   outcome |-> "none", statusCode |-> delivery[d].statusCode]
    BY <1>1, <1>2 DEF Delivery
  <2> HIDE DEF waiting
  <2>3. [waiting EXCEPT !.request = {r}] = new
    BY <2>2
  <2>4. new \in Delivery
    BY <1>1, <1>2 DEF Delivery, Outcome
  <2>5. QED
    BY <1>1, <2>1, <2>3, <2>4
<1>6. /\ new.step = "waiting" /\ new.request = {r} /\ new.payload = p /\ new.credential = c
      /\ new.known = delivery[d].known /\ new.outcome = "none"
  OBVIOUS
<1>7. p # NotSent
  BY <1>2, DeliveryAssumption
<1> HIDE DEF new
<1>8. CASE Refuse(r, Submission(p, c))
  <2>1. request'[r] = [NoRequest EXCEPT !.status = 401] /\ c = NoCredential
    BY <1>1, <1>8 DEF Refuse, Submission
  <2>2. request'[r].items = <<>> /\ request'[r].status = 401
    BY <2>1 DEF NoRequest
  <2>3. WaitOk(d, r)'
    BY <1>5, <1>6, <2>1, <2>2 DEF WaitOk
  <2>4. QED
    BY <1>1, <1>2, <1>3, <1>4, <1>5, <1>6, <1>7, <2>3, ArrivedOk
<1>9. CASE Receive(r, Submission(p, c))
  <2>1. request'[r] = [route |-> "/events", credential |-> c, status |-> Unanswered,
                       items |-> [i \in DOMAIN <<p>> |-> NewItem(<<p>>[i], c)]]
    BY <1>1, <1>9 DEF Receive, Submission
  <2>2. /\ DOMAIN request'[r].items = {1} /\ request'[r].items[1] = NewItem(p, c)
        /\ request'[r].route = "/events" /\ request'[r].credential = c
        /\ request'[r].status = Unanswered
    BY <2>1
  <2>3. NewItem(p, c).payload = p /\ NewItem(p, c).step \in {"insert", "audit"}
    BY DEF NewItem
  <2>4. WaitOk(d, r)'
    BY <1>5, <1>6, <2>2, <2>3 DEF WaitOk, PayloadOf
  <2>5. QED
    BY <1>1, <1>2, <1>3, <1>4, <1>5, <1>6, <1>7, <2>4, ArrivedOk
<1>10. QED
  BY <1>3, <1>8, <1>9

-------------------------------------------------------------------------------
(* The invariant, and what a delivery promises.                            *)

LEMMA InitPos == DeliveryInit => PosInv
<1> SUFFICES ASSUME DeliveryInit PROVE PosInv
  OBVIOUS
<1>1. IngestInv
  BY InitIngest DEF DeliveryInit
<1>2. /\ NoDelivery \in Delivery /\ NoDelivery.step = "ended" /\ NoDelivery.request = {}
      /\ NoDelivery.payload = NotSent /\ NoDelivery.known = FALSE
      /\ NoDelivery.outcome = "none"
  BY DEF NoDelivery, Delivery, Outcome, Status, Unanswered
<1>3. delivery \in [Deliveries -> Delivery] /\ \A d \in Deliveries : delivery[d] = NoDelivery
  BY <1>2 DEF DeliveryInit
<1>4. DeliveryTypeOK /\ OneWaiter
  BY <1>1, <1>2, <1>3 DEF DeliveryInit, DeliveryTypeOK, OneWaiter, IngestInv
<1>5. \A d \in Deliveries : DeliveryOk(d)
  BY <1>2, <1>3 DEF DeliveryOk, DeliveredOk, DefectOk
<1>6. QED
  BY <1>1, <1>4, <1>5 DEF PosInv

LEMMA DeliveryNextInvariant == PosInv /\ [DeliveryNext]_allVars => PosInv'
<1> SUFFICES ASSUME PosInv, [DeliveryNext]_allVars PROVE PosInv'
  OBVIOUS
<1>1. CASE UNCHANGED allVars
  <2>1. IngestInv' /\ TablesGrow /\ request' = request /\ delivery' = delivery /\ late' = late
    BY <1>1, ProducerAlone DEF allVars, deliveryVars
  <2>2. \A d \in Deliveries : DeliveryOk(d)'
    BY <2>1, DeliveryKept
  <2>3. DeliveryTypeOK' /\ OneWaiter'
    BY <2>1 DEF PosInv, DeliveryTypeOK, OneWaiter, IngestInv, Submission
  <2>4. QED
    BY <2>1, <2>2, <2>3 DEF PosInv
<1>2. QED
  BY <1>1, SendInvariant, ResolveInvariant, ArriveInvariant, ServerInvariant
  DEF DeliveryNext, Producer

\* The inductive invariant holds in every state deliveries and ingestion reach together.
THEOREM DeliveryInvariant == DeliverySpec => []PosInv
BY InitPos, DeliveryNextInvariant, PTL DEF DeliverySpec

\* Deliveries and what is in flight keep their shape, and so does ingestion under them.
THEOREM DeliveriesTyped == DeliverySpec => []DeliveryTypeOK
<1>1. PosInv => DeliveryTypeOK
  BY DEF PosInv
<1>2. QED
  BY <1>1, DeliveryInvariant, PTL

\* A producer that was told "sent" or "duplicate" may forget the fact: it is stored, under the
\* producer's own merchant.
THEOREM DeliveredFactsAreStored == DeliverySpec => []DeliveredIsStored
<1>1. PosInv => DeliveredIsStored
  BY DEF PosInv, DeliveryOk, DeliveredOk, DeliveredIsStored, Outcomes
<1>2. QED
  BY <1>1, DeliveryInvariant, PTL

\* A producer is told of a defect only where the delivery has it.
THEOREM ReportedDefectsAreReal == DeliverySpec => []DefectsAreReal
<1>1. PosInv => DefectsAreReal
  <2> SUFFICES ASSUME PosInv, NEW d \in Deliveries, delivery[d].payload # NotSent
               PROVE  LET c == delivery[d].credential
                          verdict == IF c = NoCredential THEN "unauthorized"
                                     ELSE Verdict(delivery[d].payload, c)
                      IN  /\ Outcomes(d, {"unauthorized"}) => verdict = "unauthorized"
                          /\ Outcomes(d, {"invalid_payload"}) => verdict = "invalid"
                          /\ Outcomes(d, {"tenant_identity_required"}) =>
                               verdict = "TENANT_IDENTITY_REQUIRED"
                          /\ Outcomes(d, {"tenant_mismatch"}) => verdict = "TENANT_MISMATCH"
    BY DEF DefectsAreReal
  <2>1. DefectOk(d)
    BY DEF PosInv, DeliveryOk
  <2>2. QED
    BY <2>1 DEF DefectOk, Outcomes
<1>2. QED
  BY <1>1, DeliveryInvariant, PTL

\* A fact that was stored when it was sent - by a delivery that was reported as failed, by a
\* late request, by a backfill - is never reported as newly sent.
THEOREM ReplaysAreDuplicates == DeliverySpec => []ReplayIsDuplicate
<1>1. PosInv => ReplayIsDuplicate
  BY DEF PosInv, DeliveryOk, DeliveredOk, ReplayIsDuplicate, Outcomes
<1>2. QED
  BY <1>1, DeliveryInvariant, PTL

\* Requests that arrive after their producer has given up, next to repeated deliveries of the
\* same fact, still reach product analytics once.
THEOREM LateFactsAreForwardedOnce == DeliverySpec => []AnalyticsOncePerFact
<1>1. PosInv => AnalyticsOncePerFact
  BY ForwardedOnce DEF PosInv
<1>2. QED
  BY <1>1, DeliveryInvariant, PTL
===============================================================================
