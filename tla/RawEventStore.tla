---------------------------- MODULE RawEventStore ----------------------------
(***************************************************************************)
(* What the RawEventStore interface promises, as InMemoryRawEventStore     *)
(* provides it: persistAccepted decides in one step whether an event is     *)
(* new or a repetition of an accepted one, whatever other calls are under   *)
(* way.  A call may also fail, before or after the event was accepted.      *)
(***************************************************************************)
CONSTANTS
  Calls,           \* persistAccepted calls that may be under way at once
  Events,          \* events
  EventIdOf(_),    \* correlation.eventId
  IdentityOf(_)    \* the tenant idempotency identity

VARIABLES
  accepted,  \* the accepted events
  answer     \* what each call will resolve with, once that is decided

storeVars == <<accepted, answer>>

Undecided == [duplicate |-> FALSE, record |-> {}]

Init ==
  /\ accepted = {}
  /\ answer = [c \in Calls |-> Undecided]

SameId(e) == {f \in accepted : EventIdOf(f) = EventIdOf(e)}
SameIdentity(e) == {f \in accepted : IdentityOf(f) = IdentityOf(e)}

Decide(c, duplicate, record) ==
  /\ answer[c] = Undecided
  /\ answer' = [answer EXCEPT ![c] = [duplicate |-> duplicate, record |-> {record}]]

\* Neither the event id nor the identity is known: the event is stored.
Accept(c, e) ==
  /\ SameId(e) = {} /\ SameIdentity(e) = {}
  /\ accepted' = accepted \cup {e}
  /\ Decide(c, FALSE, e)

\* The identity is known, and the event id is not used for another one: the call resolves
\* with the event that was accepted first.
Recognise(c, e) ==
  /\ SameId(e) \subseteq SameIdentity(e)
  /\ \E original \in SameIdentity(e) : Decide(c, TRUE, original)
  /\ UNCHANGED accepted

\* The event is stored, and the call fails.
AcceptUnnoticed(e) ==
  /\ SameId(e) = {} /\ SameIdentity(e) = {}
  /\ accepted' = accepted \cup {e}
  /\ UNCHANGED answer

\* Calls resolved, failed or vanished with their process.
Forget(done) ==
  /\ answer' = [c \in Calls |-> IF c \in done THEN Undecided ELSE answer[c]]
  /\ UNCHANGED accepted

Next ==
  \/ \E c \in Calls, e \in Events : Accept(c, e) \/ Recognise(c, e)
  \/ \E e \in Events : AcceptUnnoticed(e)
  \/ \E done \in SUBSET Calls : Forget(done)

Spec == Init /\ [][Next]_storeVars
===============================================================================
