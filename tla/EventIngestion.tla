---------------------------- MODULE EventIngestion ----------------------------
(***************************************************************************)
(* Authenticated ingestion: POST /events and POST /events/batch, the event *)
(* handlers behind them, the PostgreSQL raw event repository and the        *)
(* optional product analytics sink.                                         *)
(*                                                                         *)
(* A request is validated in the step that receives it; from there every   *)
(* item of its body runs on its own (Promise.all), one SQL statement at a   *)
(* time, and a batch is answered as soon as one of its items throws, while  *)
(* the others go on.                                                        *)
(***************************************************************************)
EXTENDS Integers, Sequences, FiniteSets

CONSTANTS
  Requests,     \* requests that may be open at once
  Events,       \* the events clients send: see EventFields
  Malformed,    \* payloads that do not parse as an event
  NotAnArray,   \* the one of them that stands for a batch body that is no array
  Submissions,  \* what clients send: [route, credential, payloads]
  Credentials,  \* the configured ingestion credentials
  NoCredential, \* no bearer token, or an unknown one
  Absent,       \* an optional field that is missing
  Faults        \* a subset of {"statement", "ack", "crash"}

Payloads == Events \cup Malformed
Routes == {"/events", "/events/batch"}
EventFields == {"eventId", "merchant", "store", "service", "environment", "source", "scope", "key"}

ASSUME IngestionAssumption ==
  /\ Events # {} /\ Events \cap Malformed = {} /\ NotAnArray \in Malformed
  /\ \A e \in Events : DOMAIN e = EventFields
  /\ NoCredential \notin Credentials
  /\ \A s \in Submissions :
       /\ s.route \in Routes
       /\ s.credential \in Credentials \cup {NoCredential}
       /\ s.payloads \in Seq(Payloads) /\ s.payloads # <<>>
       /\ s.route = "/events" => Len(s.payloads) = 1
       /\ \A i \in DOMAIN s.payloads : s.payloads[i] = NotAnArray =>
            s.route = "/events/batch" /\ Len(s.payloads) = 1
  /\ Faults \subseteq {"statement", "ack", "crash"}

VARIABLES
  rawEvents,      \* raw_events: the event of each row and the credential that sent it
  invalidEvents,  \* invalid_raw_events: payload, credential and reason of the rejections
  forwarded,      \* how often an event was handed to the analytics sink
  request         \* the open requests

vars == <<rawEvents, invalidEvents, forwarded, request>>

Row == [event : Events, credential : Credentials]
Reasons == {"invalid", "TENANT_IDENTITY_REQUIRED", "TENANT_MISMATCH"}
Rejection == [payload : Payloads, credential : Credentials, reason : Reasons]

\* Where an item is in handlePostEvent.  "conflict" rethrows the unique violation, "threw"
\* is any other error.
Ended == {"accepted", "duplicate", "rejected", "conflict", "threw"}
ItemStep == {"insert", "inserted", "byEventId", "byIdentity", "audit"} \cup Ended
Item == [payload : Payloads, step : ItemStep, row : SUBSET Row]

Unanswered == 0
Status == {Unanswered, 202, 207, 400, 401, 403, 500}
NoRequest == [route |-> "/events", credential |-> NoCredential, items |-> <<>>,
              status |-> Unanswered]

Init ==
  /\ rawEvents = {}
  /\ invalidEvents = {}
  /\ forwarded = [e \in Events |-> 0]
  /\ request = [r \in Requests |-> NoRequest]

-------------------------------------------------------------------------------
(* Identity and tenant policy.                                             *)

\* Mutant of Identity: the merchant is left out.
IdentityOfStore(e) == <<e.store, e.service, e.environment, e.source, e.scope, e.key>>

\* The canonical idempotency identity, also the columns of the unique index.
Identity(e) == <<e.merchant, e.store, e.service, e.environment, e.source, e.scope, e.key>>

Verdict(p, c) ==
  CASE p \in Malformed -> "invalid"
    [] p \notin Malformed /\ (Absent \in {p.merchant, p.store, p.environment} \/ p.scope # "store")
         -> "TENANT_IDENTITY_REQUIRED"
    [] p \notin Malformed /\ Absent \notin {p.merchant, p.store, p.environment} /\ p.scope = "store"
       /\ \/ p.merchant # c.merchant \/ p.store \notin c.stores
          \/ p.service # c.service \/ p.environment # c.environment \/ p.source # c.source
         -> "TENANT_MISMATCH"
    [] OTHER -> "permitted"

SameEventId(e) == {row \in rawEvents : row.event.eventId = e.eventId}
SameIdentity(e) == {row \in rawEvents : Identity(row.event) = Identity(e)}

-------------------------------------------------------------------------------
(* Requests.                                                               *)

OpenItems(r) == {i \in DOMAIN request[r].items : request[r].items[i].step \notin Ended}

\* Nothing of an earlier request is left to do in this place.
Free(r) ==
  /\ request[r].items = <<>> \/ request[r].status # Unanswered
  /\ OpenItems(r) = {}

\* Mutant of NewItem: a tenant mismatch is not rejected.
NewItemUnmatched(p, c) ==
  [payload |-> p, row |-> {},
   step |-> IF Verdict(p, c) \in {"permitted", "TENANT_MISMATCH"} THEN "insert" ELSE "audit"]

NewItem(p, c) ==
  [payload |-> p, step |-> IF Verdict(p, c) = "permitted" THEN "insert" ELSE "audit", row |-> {}]

Receive(r, s) ==
  /\ Free(r)
  /\ s.credential \in Credentials
  /\ request' = [request EXCEPT ![r] =
       [route |-> s.route, credential |-> s.credential, status |-> Unanswered,
        items |-> [i \in DOMAIN s.payloads |-> NewItem(s.payloads[i], s.credential)]]]
  /\ UNCHANGED <<rawEvents, invalidEvents, forwarded>>

\* requireAuthorizedIngestion answers before the body is looked at: nothing is stored.
Refuse(r, s) ==
  /\ Free(r)
  /\ s.credential = NoCredential
  /\ request' = [request EXCEPT ![r] = [NoRequest EXCEPT !.status = 401]]
  /\ UNCHANGED <<rawEvents, invalidEvents, forwarded>>

At(r, i, step) == i \in DOMAIN request[r].items /\ request[r].items[i].step = step
PayloadOf(r, i) == request[r].items[i].payload

Move(r, i, step, row) ==
  request' = [request EXCEPT ![r].items[i].step = step, ![r].items[i].row = row]

-------------------------------------------------------------------------------
(* persistAccepted: INSERT, and after a unique violation two SELECTs.      *)

RowOf(r, i) == [event |-> PayloadOf(r, i), credential |-> request[r].credential]

\* Mutant of StoreRow: event_id is the only unique column.
StoreRowById(r, i) ==
  /\ SameEventId(PayloadOf(r, i)) = {}
  /\ rawEvents' = rawEvents \cup {RowOf(r, i)}

\* Both unique indexes let the row in.
StoreRow(r, i) ==
  /\ SameEventId(PayloadOf(r, i)) = {} /\ SameIdentity(PayloadOf(r, i)) = {}
  /\ rawEvents' = rawEvents \cup {RowOf(r, i)}

Insert(r, i) ==
  /\ At(r, i, "insert")
  /\ StoreRow(r, i)
  /\ Move(r, i, "inserted", {RowOf(r, i)})
  /\ UNCHANGED <<invalidEvents, forwarded>>

InsertViolatesUnique(r, i) ==
  /\ At(r, i, "insert")
  /\ SameEventId(PayloadOf(r, i)) # {} \/ SameIdentity(PayloadOf(r, i)) # {}
  /\ Move(r, i, "byEventId", {})
  /\ UNCHANGED <<rawEvents, invalidEvents, forwarded>>

\* Mutant of FindByEventId: any row with the event id is taken for a conflict.
FindAnyByEventId(r, i) ==
  /\ At(r, i, "byEventId")
  /\ Move(r, i, IF SameEventId(PayloadOf(r, i)) # {} THEN "conflict" ELSE "byIdentity", {})
  /\ UNCHANGED <<rawEvents, invalidEvents, forwarded>>

FindByEventId(r, i) ==
  /\ At(r, i, "byEventId")
  /\ LET mismatched == SameEventId(PayloadOf(r, i)) \ SameIdentity(PayloadOf(r, i))
     IN  Move(r, i, IF mismatched # {} THEN "conflict" ELSE "byIdentity", {})
  /\ UNCHANGED <<rawEvents, invalidEvents, forwarded>>

\* Mutant of FindByTenantIdempotency: a duplicate goes on like a new row.
FindAndForward(r, i) ==
  /\ At(r, i, "byIdentity")
  /\ LET found == SameIdentity(PayloadOf(r, i))
     IN  Move(r, i, IF found = {} THEN "conflict" ELSE "inserted", found)
  /\ UNCHANGED <<rawEvents, invalidEvents, forwarded>>

FindByTenantIdempotency(r, i) ==
  /\ At(r, i, "byIdentity")
  /\ LET found == SameIdentity(PayloadOf(r, i))
     IN  Move(r, i, IF found = {} THEN "conflict" ELSE "duplicate", found)
  /\ UNCHANGED <<rawEvents, invalidEvents, forwarded>>

\* The handler goes on after its insert: the sink is called, nobody waits for it.
EnqueueProductAnalytics(r, i) ==
  /\ At(r, i, "inserted")
  /\ forwarded' = [forwarded EXCEPT ![PayloadOf(r, i)] = @ + 1]
  /\ Move(r, i, "accepted", request[r].items[i].row)
  /\ UNCHANGED <<rawEvents, invalidEvents>>

RejectionOf(r, i) ==
  [payload |-> PayloadOf(r, i), credential |-> request[r].credential,
   reason |-> Verdict(PayloadOf(r, i), request[r].credential)]

PersistInvalid(r, i) ==
  /\ At(r, i, "audit")
  /\ invalidEvents' = invalidEvents \cup {RejectionOf(r, i)}
  /\ Move(r, i, "rejected", {})
  /\ UNCHANGED <<rawEvents, forwarded>>

StatementFails(r, i) ==
  /\ "statement" \in Faults
  /\ \E step \in {"insert", "byEventId", "byIdentity", "audit"} : At(r, i, step)
  /\ Move(r, i, "threw", {})
  /\ UNCHANGED <<rawEvents, invalidEvents, forwarded>>

\* The row is committed, the handler sees an error.
AckLost(r, i) ==
  /\ "ack" \in Faults
  /\ \/ At(r, i, "insert") /\ StoreRow(r, i) /\ UNCHANGED invalidEvents
     \/ /\ At(r, i, "audit")
        /\ invalidEvents' = invalidEvents \cup {RejectionOf(r, i)}
        /\ UNCHANGED rawEvents
  /\ Move(r, i, "threw", {})
  /\ UNCHANGED forwarded

-------------------------------------------------------------------------------
(* Answers.                                                                *)

Thrown(r) == \E i \in DOMAIN request[r].items : request[r].items[i].step \in {"conflict", "threw"}

\* Mutant of ItemStatus: accepted events are answered with the default status.
DefaultStatus(r, i) ==
  LET verdict == Verdict(PayloadOf(r, i), request[r].credential) IN
  CASE verdict = "permitted" -> 200
    [] verdict = "TENANT_MISMATCH" -> 403
    [] OTHER -> 400

\* The status of an item that ended without throwing.
ItemStatus(r, i) ==
  LET verdict == Verdict(PayloadOf(r, i), request[r].credential) IN
  CASE verdict = "permitted" -> 202
    [] verdict = "TENANT_MISMATCH" -> 403
    [] OTHER -> 400

\* Mutant of Answer: errors of the handlers are not caught.
AnswerUnlessThrown(r) ==
  /\ request[r].items # <<>> /\ request[r].status = Unanswered
  /\ ~Thrown(r) /\ OpenItems(r) = {}
  /\ request' = [request EXCEPT ![r].status =
       IF request[r].route = "/events" \/ PayloadOf(r, 1) = NotAnArray
       THEN ItemStatus(r, 1) ELSE 207]
  /\ UNCHANGED <<rawEvents, invalidEvents, forwarded>>

\* The first item that throws rejects the whole answer; otherwise it waits for all items.
Answer(r) ==
  /\ request[r].items # <<>> /\ request[r].status = Unanswered
  /\ Thrown(r) \/ OpenItems(r) = {}
  /\ request' = [request EXCEPT ![r].status =
       CASE Thrown(r) -> 500
         [] ~Thrown(r) /\ (request[r].route = "/events" \/ PayloadOf(r, 1) = NotAnArray)
              -> ItemStatus(r, 1)
         [] OTHER -> 207]
  /\ UNCHANGED <<rawEvents, invalidEvents, forwarded>>

\* The process of a request stops.
Crash(r) ==
  /\ "crash" \in Faults
  /\ ~Free(r)
  /\ request' = [request EXCEPT ![r] = NoRequest]
  /\ UNCHANGED <<rawEvents, invalidEvents, forwarded>>

HandleItem(r, i) ==
  \/ Insert(r, i) \/ InsertViolatesUnique(r, i)
  \/ FindByEventId(r, i) \/ FindByTenantIdempotency(r, i)
  \/ EnqueueProductAnalytics(r, i) \/ PersistInvalid(r, i)

Handle(r) ==
  \/ Answer(r)
  \/ \E i \in DOMAIN request[r].items : HandleItem(r, i)

GoWrong(r) ==
  \/ Crash(r)
  \/ \E i \in DOMAIN request[r].items : StatementFails(r, i) \/ AckLost(r, i)

Next ==
  \E r \in Requests :
    \/ \E s \in Submissions : Receive(r, s) \/ Refuse(r, s)
    \/ Handle(r)
    \/ GoWrong(r)

Spec == Init /\ [][Next]_vars

\* The event loop goes on with every request whose statements return.
FairSpec == Spec /\ \A r \in Requests : WF_vars(Handle(r))

-------------------------------------------------------------------------------
(* What ingestion promises.                                                *)

\* Every variable holds rows and requests of the declared shape.
TypeOK ==
  /\ rawEvents \subseteq Row
  /\ invalidEvents \subseteq Rejection
  /\ forwarded \in [Events -> Nat]
  /\ request \in [Requests -> [route : Routes, credential : Credentials \cup {NoCredential},
                               items : Seq(Item), status : Status]]

Is(r, i, steps) == request[r].items[i].step \in steps

\* "Repeated events return the original persisted record and do not enqueue another product
\* analytics event", and the sink "is called only after raw persistence succeeds": whatever
\* requests race, one accepted fact is forwarded at most once, and only the stored event of it.
AnalyticsOncePerFact ==
  \A e \in Events : forwarded[e] > 0 =>
    /\ forwarded[e] = 1
    /\ \E row \in rawEvents : row.event = e
    /\ \A f \in Events \ {e} : Identity(f) = Identity(e) => forwarded[f] = 0

\* An item that resolves as accepted or duplicate returns a stored row of its own tenant
\* identity; duplicate or not, no client is ever given another tenant's record.
AnswersOwnRecord ==
  \A r \in Requests : \A i \in DOMAIN request[r].items :
    Is(r, i, {"inserted", "accepted", "duplicate"}) =>
      \E row \in rawEvents :
        /\ request[r].items[i].row = {row}
        /\ Identity(row.event) = Identity(PayloadOf(r, i))
        /\ row.event.merchant = request[r].credential.merchant

\* Nothing is stored as an accepted fact that its credential may not send, and every
\* rejection a client is told of can be audited, also inside a batch that fails.
RejectedNeverAccepted ==
  /\ \A row \in rawEvents : Verdict(row.event, row.credential) = "permitted"
  /\ \A r \in Requests : \A i \in DOMAIN request[r].items :
       Is(r, i, {"rejected"}) => RejectionOf(r, i) \in invalidEvents

\* persistAccepted rethrows a unique violation only when the event id belongs to another
\* identity: losing a race against the same fact, in any order of the INSERTs and the two
\* SELECTs of several requests, always ends as a duplicate, never as an error.
OnlyForeignIdsConflict ==
  \A r \in Requests : \A i \in DOMAIN request[r].items :
    Is(r, i, {"conflict"}) =>
      \E row \in rawEvents : /\ row.event.eventId = PayloadOf(r, i).eventId
                             /\ Identity(row.event) # Identity(PayloadOf(r, i))

\* Every request is answered and all its items come to an end, also those a failed batch
\* no longer waits for.
RequestsEnd == \A r \in Requests : ~Free(r) ~> Free(r)
===============================================================================
