----------------------- MODULE EventIngestionRefinement -----------------------
(***************************************************************************)
(* The statements of the PostgreSQL repository implement RawEventStore: a   *)
(* call is decided by its INSERT when that stores the row, and otherwise    *)
(* when the SELECT by event id finds no row of another identity.            *)
(***************************************************************************)
EXTENDS EventIngestion

Calls == {<<r, i>> : r \in Requests, i \in UNION {DOMAIN s.payloads : s \in Submissions}}

EventIdOf(e) == e.eventId

AnswerOf(r, i) ==
  LET step == IF i \in DOMAIN request[r].items THEN request[r].items[i].step ELSE "none" IN
  [duplicate |-> step \in {"byIdentity", "duplicate"},
   record |-> IF step \in {"inserted", "accepted", "byIdentity", "duplicate"}
              THEN {row.event : row \in SameIdentity(PayloadOf(r, i))}
              ELSE {}]

Store == INSTANCE RawEventStore WITH
  IdentityOf <- Identity,
  accepted   <- {row.event : row \in rawEvents},
  answer     <- [c \in Calls |-> AnswerOf(c[1], c[2])]

\* The INSERT and the two SELECTs of racing calls, with their failures, look like one
\* atomic decision of the store interface.
ImplementsStore == Store!Spec
===============================================================================
