------------------------------ MODULE PosDelivery ------------------------------
(***************************************************************************)
(* The POS producer of order-paid facts delivering them to POST /events:    *)
(* the mapper, one bounded wait per delivery, and the classification of the *)
(* answer, composed with the ingestion it talks to.                         *)
(*                                                                         *)
(* The wait ends, the HTTP request does not: it may arrive, be handled and  *)
(* be answered after the producer has already reported a failure.           *)
(***************************************************************************)
EXTENDS EventIngestion

CONSTANTS
  Deliveries,  \* deliveries that may be under way at once
  Sends,       \* what producers send: [payload, credential], NoCredential for a wrong token
  NotSent,     \* stands for the payload of a fixture that does not map
  MaxLate      \* bound on the requests that are still in flight though nobody waits

\* mapPosOrderPaidToDataDynaEvent of a fixture [merchant, store, order, payment]: the event id
\* names store, order and payment.
PosEvent(f) ==
  [eventId |-> <<f.store, f.order, f.payment>>, merchant |-> f.merchant, store |-> f.store,
   service |-> "pos-lite-cashier", environment |-> "test", source |-> "pos",
   scope |-> "store", key |-> <<f.order, f.payment>>]

ASSUME DeliveryAssumption ==
  /\ Sends \subseteq [payload : Payloads, credential : Credentials \cup {NoCredential}]
  /\ NotSent \notin Payloads
  /\ MaxLate \in Nat

VARIABLES
  delivery,  \* each delivery, its outcome once it has one
  late       \* requests that may still reach the server though nobody waits for them

deliveryVars == <<delivery, late>>
allVars == <<vars, deliveryVars>>

Outcome == {"none", "sent", "duplicate", "invalid_payload", "tenant_identity_required",
            "unauthorized", "tenant_mismatch", "transient_send_failure"}

\* "sent" is in flight to the server, "waiting" for the answer of the request it became.
\* known is an auxiliary field: whether the fact was already stored when it was sent.
Delivery == [step : {"ended", "sent", "waiting"}, payload : Payloads \cup {NotSent},
             credential : Credentials \cup {NoCredential}, request : SUBSET Requests,
             known : BOOLEAN, outcome : Outcome, statusCode : Status]

NoDelivery == [step |-> "ended", payload |-> NotSent, credential |-> NoCredential, request |-> {},
               known |-> FALSE, outcome |-> "none", statusCode |-> Unanswered]

DeliveryInit ==
  /\ Init
  /\ delivery = [d \in Deliveries |-> NoDelivery]
  /\ late = {}

Submission(p, c) == [route |-> "/events", credential |-> c, payloads |-> <<p>>]
SubmissionOf(d) == Submission(delivery[d].payload, delivery[d].credential)

Stored(p) == p \in Events /\ SameIdentity(p) # {}

Resolve(d, outcome, statusCode) ==
  delivery' = [delivery EXCEPT ![d].step = "ended", ![d].request = {},
                               ![d].outcome = outcome, ![d].statusCode = statusCode]

-------------------------------------------------------------------------------

\* The fixture does not map: nothing is sent.
MapFails(d) ==
  /\ delivery[d].step = "ended"
  /\ delivery' = [delivery EXCEPT ![d] = [NoDelivery EXCEPT !.outcome = "invalid_payload"]]
  /\ UNCHANGED <<vars, late>>

Send(d) ==
  /\ delivery[d].step = "ended"
  /\ \E s \in Sends :
       delivery' = [delivery EXCEPT ![d] = [NoDelivery EXCEPT
         !.step = "sent", !.payload = s.payload, !.credential = s.credential,
         !.known = Stored(s.payload)]]
  /\ UNCHANGED <<vars, late>>

\* A place for requests in which no delivery expects its answer.
Unwaited(r) == \A d \in Deliveries : r \notin delivery[d].request

Arrive(d, r) ==
  /\ delivery[d].step = "sent"
  /\ Unwaited(r)
  /\ Receive(r, SubmissionOf(d)) \/ Refuse(r, SubmissionOf(d))
  /\ delivery' = [delivery EXCEPT ![d].step = "waiting", ![d].request = {r}]
  /\ UNCHANGED late

ArriveLate(r) ==
  /\ Unwaited(r)
  /\ \E s \in late :
       /\ Receive(r, s) \/ Refuse(r, s)
       /\ late' = late \ {s}
  /\ UNCHANGED delivery

\* Mutants of Classify: the error code is ignored; the body is ignored; the outcome of the
\* producer contract's prose.
ClassifyByStatus(r) ==
  CASE request[r].status = 202 -> IF At(r, 1, "duplicate") THEN "duplicate" ELSE "sent"
    [] request[r].status = 401 -> "unauthorized"
    [] request[r].status = 403 -> "tenant_mismatch"
    [] request[r].status = 400 -> "invalid_payload"
    [] request[r].status = 500 -> "transient_send_failure"
ClassifyAsSent(r) ==
  IF request[r].status = 202 THEN "sent" ELSE "transient_send_failure"
ClassifyAsUnavailable(r) ==
  IF request[r].status = 500 THEN "unavailable" ELSE "transient_send_failure"

\* classifyEventsDeliveryResponse, for the answer to a single event.
Classify(r) ==
  LET verdict == Verdict(PayloadOf(r, 1), request[r].credential) IN
  CASE request[r].status = 202 -> IF At(r, 1, "duplicate") THEN "duplicate" ELSE "sent"
    [] request[r].status = 401 -> "unauthorized"
    [] request[r].status = 403 -> "tenant_mismatch"
    [] request[r].status = 400 -> IF verdict = "TENANT_IDENTITY_REQUIRED"
                                  THEN "tenant_identity_required" ELSE "invalid_payload"
    [] request[r].status = 500 -> "transient_send_failure"

Answered(d) ==
  /\ delivery[d].step = "waiting"
  /\ \E r \in delivery[d].request :
       /\ request[r].status # Unanswered
       /\ Resolve(d, Classify(r), request[r].status)
  /\ UNCHANGED <<vars, late>>

\* Mutant of NoAnswer: what was sent without an error is taken for delivered.
NoAnswerIsSent(d) ==
  /\ delivery[d].step # "ended"
  /\ Resolve(d, "sent", Unanswered)
  /\ UNCHANGED <<vars, late>>

\* The timer fires or the transport rejects, before or after the request reached the server.
\* A request in flight may still arrive, or is lost; beyond MaxLate of them it is lost.
NoAnswer(d) ==
  /\ delivery[d].step # "ended"
  /\ Resolve(d, "transient_send_failure", Unanswered)
  /\ late' = IF delivery[d].step = "sent" /\ Cardinality(late) < MaxLate
             THEN late \cup {SubmissionOf(d)}
             ELSE late
  /\ UNCHANGED vars

Producer(d) ==
  \/ MapFails(d) \/ Send(d) \/ Answered(d) \/ NoAnswer(d)
  \/ \E r \in Requests : Arrive(d, r)

Server(r) ==
  \/ ArriveLate(r)
  \/ /\ \/ Unwaited(r) /\ \E s \in Submissions : Receive(r, s) \/ Refuse(r, s)
        \/ Handle(r)
        \/ GoWrong(r)
     /\ UNCHANGED deliveryVars

DeliveryNext ==
  \/ \E d \in Deliveries : Producer(d)
  \/ \E r \in Requests : Server(r)

DeliverySpec == DeliveryInit /\ [][DeliveryNext]_allVars

-------------------------------------------------------------------------------
(* What a delivery promises.                                               *)

\* Deliveries and requests in flight keep their shape.
DeliveryTypeOK ==
  /\ TypeOK
  /\ delivery \in [Deliveries -> Delivery]
  /\ late \subseteq {Submission(p, c) : p \in Payloads, c \in Credentials \cup {NoCredential}}

Outcomes(d, outcomes) == delivery[d].outcome \in outcomes

\* "202 accepted and 202 duplicate" are successes: the fact the producer may forget is
\* stored, for its own merchant, whatever crashed or raced.
DeliveredIsStored ==
  \A d \in Deliveries : Outcomes(d, {"sent", "duplicate"}) =>
    \E row \in rawEvents : /\ Identity(row.event) = Identity(delivery[d].payload)
                           /\ row.event.merchant = delivery[d].credential.merchant

\* A producer told to fix its payload, credentials or tenant mapping is told the truth: the
\* delivery could never have been accepted, however the answer was produced.
DefectsAreReal ==
  \A d \in Deliveries : delivery[d].payload # NotSent =>
    LET c == delivery[d].credential
        verdict == IF c = NoCredential THEN "unauthorized" ELSE Verdict(delivery[d].payload, c)
    IN  /\ Outcomes(d, {"unauthorized"}) => verdict = "unauthorized"
        /\ Outcomes(d, {"invalid_payload"}) => verdict = "invalid"
        /\ Outcomes(d, {"tenant_identity_required"}) => verdict = "TENANT_IDENTITY_REQUIRED"
        /\ Outcomes(d, {"tenant_mismatch"}) => verdict = "TENANT_MISMATCH"

\* "Re-emitting the same fact must produce a Data Dyna duplicate, not a second business
\* event": a fact that was stored when it was sent is never reported as newly sent, although
\* an earlier delivery of it was reported as a failure and arrived late.
ReplayIsDuplicate ==
  \A d \in Deliveries : delivery[d].known => ~Outcomes(d, {"sent"})

\* docs/integration/pos-event-mapping.md:167: "Fixture matches credential tenant/source/producer
\* and parses | `202` accepted or `202` duplicate", and 5xx are "transient send failures": where
\* nothing fails, a permitted fact that is answered at all is answered as sent or duplicate.
PermittedFactsAreAccepted ==
  \A d \in Deliveries :
    /\ delivery[d].statusCode # Unanswered
    /\ delivery[d].credential \in Credentials
    /\ Verdict(delivery[d].payload, delivery[d].credential) = "permitted"
    => Outcomes(d, {"sent", "duplicate"})
===============================================================================
