---------------------------- MODULE MCPosDelivery ----------------------------
(* Small instances of PosDelivery for TLC.                                 *)
EXTENDS PosDelivery, TLC

\* Two cafes that number their stores, orders and payments alike.
MCCredential(m) == [merchant |-> m, stores |-> {"main"}, service |-> "pos-lite-cashier",
                    environment |-> "test", source |-> "pos"]
MCCredentials == {MCCredential("cafe"), MCCredential("bar")}
MCFixture(m) == [merchant |-> m, store |-> "main", order |-> "o", payment |-> "p"]

MCFact(m) == PosEvent(MCFixture(m))

\* The cafe's fact with a scope that is refused, and under another event id.
MCUnscoped == [MCFact("cafe") EXCEPT !.scope = "global", !.eventId = <<"u">>]
MCBackfilled == [MCFact("cafe") EXCEPT !.eventId = <<"b">>]
MCEvents == {MCFact("cafe"), MCFact("bar"), MCUnscoped, MCBackfilled}

MCSend(p, c) == [payload |-> p, credential |-> c]

\* The cafe delivers its fact with its own and with a wrong token, and two defective ones.
MCCafeSends ==
  {MCSend(MCFact("cafe"), MCCredential("cafe")), MCSend(MCFact("cafe"), NoCredential),
   MCSend(MCUnscoped, MCCredential("cafe")), MCSend(MCFact("bar"), MCCredential("cafe"))}

\* Each cafe delivers its own fact.
MCBothSend == {MCSend(MCFact(m), MCCredential(m)) : m \in {"cafe", "bar"}}

\* A backfill of the cafe's fact that races its delivery.
MCBackfill ==
  {[route |-> "/events", credential |-> MCCredential("cafe"), payloads |-> <<MCBackfilled>>]}
MCNoOthers == {}

Symmetry == Permutations(Requests)
===============================================================================
