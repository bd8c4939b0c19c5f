----------------------------- MODULE MCIngestion -----------------------------
(* Small instances of EventIngestion for TLC.                              *)
EXTENDS EventIngestionRefinement

\* Two cafes whose stores have the same id, as their POS systems may number them.
MCCredential(m) == [merchant |-> m, stores |-> {"main"}, service |-> "pos-lite-cashier",
                    environment |-> "test", source |-> "pos"]
MCCredentials == {MCCredential("cafe"), MCCredential("bar")}

MCEvent(id, m) ==
  [eventId |-> id, merchant |-> m, store |-> "main", service |-> "pos-lite-cashier",
   environment |-> "test", source |-> "pos", scope |-> "store", key |-> "k"]

\* A fact, the same fact under another event id, and a fact of another merchant under the
\* first event id.
MCPaid == MCEvent(1, "cafe")
MCPaidAgain == MCEvent(2, "cafe")
MCPaidElsewhere == MCEvent(1, "bar")
MCEvents == {MCPaid, MCPaidAgain, MCPaidElsewhere}

MCOne(c, p) == [route |-> "/events", credential |-> c, payloads |-> <<p>>]
MCBatch(c, ps) == [route |-> "/events/batch", credential |-> c, payloads |-> ps]

\* The second batch item of the cafe is the other merchant's fact.
MCSubmissions ==
  {MCOne(MCCredential("cafe"), MCPaid),
   MCBatch(MCCredential("cafe"), <<MCPaidAgain, MCPaidElsewhere>>),
   MCOne(MCCredential("bar"), MCPaidElsewhere),
   MCBatch(MCCredential("bar"), <<NotAnArray>>),
   MCOne(NoCredential, MCPaid)}
===============================================================================
