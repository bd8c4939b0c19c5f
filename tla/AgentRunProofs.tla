---------------------------- MODULE AgentRunProofs ----------------------------
(***************************************************************************)
(* Proofs about AgentRun: its audit is numbered, what its calls and rows    *)
(* report is in the audit, its tools answer within the policy, and reviews  *)
(* are requested through the gate only.                                     *)
(*                                                                         *)
(* The invariant is stated about values: a call m, the entries E the audit  *)
(* holds of it, a tool call t, a row, a review. A step of a call is then    *)
(* one of the moves of CallMoves, whatever action of the module it is.      *)
(***************************************************************************)
EXTENDS AgentRun, FiniteSetTheorems, WellFoundedInduction, TLAPS

Main == [step : MainStep, run : Runs, setup : DOMAIN Setups \cup {"none"}, number : Nat,
         events : Nat, draft : Drafts \cup {NoDraft}, transcript : 0 .. MaxTranscript,
         holdsTools : BOOLEAN]
Tool == [step : ToolStep, of : Calls \cup {"none"}, call : ToolCalls, number : Nat]
Review == [step : ReviewStep, context : Contexts]

Gates == {"run_started", "attempt_loaded", "policy_evaluated", "runtime_selected",
          "harness_invoked"}
Later == {"harness_transcript_event", "draft_captured", "run_failed"}

\* The gate event or failure an entry of this number may be, and what a later one may not be.
InPlace(number, type) ==
  IF number =< 5 THEN type \in {GateEvents[number], "run_failed"} ELSE type \notin Gates

Prepared(m) == Attempts[m.setup].status = "prepared"
Permitted(m) == Setups[m.setup].allowed \subseteq Attempts[m.setup].tools

\* What the step of a call says of the call.
MainOk(m) ==
  /\ m.step # "idle" => m.setup \in DOMAIN Setups
  /\ m.step \in {"idle", "append_run"} => m.events = 0
  /\ m.step \in {"idle", "append_run"} \cup Gates => ~m.holdsTools
  /\ m.step \in MainEvents => m.number \in 1 .. m.events /\ InPlace(m.number, m.step)
  /\ m.step \in Gates => m.events = m.number
  /\ m.step = "attempt_loaded" => Prepared(m)
  /\ m.step \in {"policy_evaluated", "runtime_selected", "harness_invoked"} =>
       Prepared(m) /\ Permitted(m)
  /\ m.holdsTools => m.events >= 5 /\ Prepared(m) /\ Permitted(m)
  /\ m.step \in {"turn", "harness_transcript_event", "draft_captured", "replace_captured",
                 "captured"} => m.holdsTools
  /\ m.step \in {"draft_captured", "replace_captured", "captured"} => m.draft # NoDraft

Own(c, L) == {e \in L : e.call = c}
Has(E, type) == \E e \in E : e.type = type

\* The entries of a call whose events array has length n.
Numbered(E, n) ==
  /\ \A e \in E : e.number =< n
  /\ \A e, f \in E : e.number = f.number /\ e.number > 0 => e = f
  /\ \A e \in E : e.number > 0 => InPlace(e.number, e.type)
  /\ \A e, f \in E : e.type = "draft_captured" /\ f.type = "harness_transcript_event" =>
       f.number < e.number
  /\ \A e, f \in E : e.type = "run_failed" /\ f.type \in Later => f.number =< e.number

\* The entry a call waits for is new, and follows those of its own that are stored.
Pending(E, m) ==
  m.step \in MainEvents => \A e \in E :
    e.number # m.number /\ (e.type \in MainEvents => e.number < m.number)

\* What is in the audit of a call that is done with its draft, or has failed.
Outcome(E, m) ==
  /\ Has(E, "draft_captured") =>
       m.step \in {"replace_captured", "captured", "run_failed", "replace_failed", "failed",
                   "rejected"}
  /\ Has(E, "run_failed") => m.step \in {"replace_failed", "failed", "rejected"}
  /\ m.step \in {"replace_captured", "captured"} => Has(E, "draft_captured")
  /\ m.step \in {"replace_failed", "failed"} => Has(E, "run_failed")

CallOk(c) ==
  /\ MainOk(main[c])
  /\ Numbered(Own(c, log), main[c].events)
  /\ Pending(Own(c, log), main[c])
  /\ Outcome(Own(c, log), main[c])

HasTool(E, type, name) == \E e \in E : e.type = type /\ e.tool = name

\* The entry a tool call t of a call m waits for is new.
ToolPending(t, m, E) ==
  t.step \in ToolEvents =>
    /\ t.number \in 6 .. m.events
    /\ \A e \in E : e.number # t.number
    /\ m.step \in MainEvents => m.number # t.number

\* A tool that ran was allowed to, and what it answers was within bounds.
ToolGuarded(t, setup, E) ==
  /\ t.step = "tool_call_attempt" => t.call.name \in Setups[setup].allowed
  /\ \/ t.step \in {"tool_result_sanitized", "answered"}
     \/ t.step = "tool_call_denied" /\ t.call.name \in Setups[setup].allowed
     => /\ t.call.name \in Setups[setup].allowed
        /\ HasTool(E, "tool_call_attempt", t.call.name)
  /\ t.step \in {"tool_result_sanitized", "answered"} =>
       /\ ~PreparedToolThrows(Attempts[setup], t.call)
       /\ t.call.name # "read_dead_letter_diagnosis"
       /\ ~(AnswerSize(Attempts[setup], t.call) > Attempts[setup].maxToolResult)
  /\ t.step = "answered" => HasTool(E, "tool_result_sanitized", t.call.name)

ToolOk(t, m, E) ==
  t.step # "closed" =>
    t.of \in Calls /\ m.holdsTools /\ ToolPending(t, m, E) /\ ToolGuarded(t, m.setup, E)

SlotOk(s) == ToolOk(tool[s], main[tool[s].of], Own(tool[s].of, log))

\* Two tool calls of one call wait for entries of different numbers.
SlotsApart ==
  \A s1, s2 \in Slots :
    /\ s1 # s2 /\ tool[s1].of = tool[s2].of
    /\ tool[s1].step \in ToolEvents /\ tool[s2].step \in ToolEvents
    => tool[s1].number # tool[s2].number

\* What a row says, by the steps of the calls of its run.
RowOk(r) ==
  /\ runs[r].status = "none" => \A c \in CallsOf(r) : main[c].step \in {"append_run", "rejected"}
  /\ runs[r].status = "started" =>
       \E c \in CallsOf(r) : main[c].step \notin {"captured", "failed"}
  /\ runs[r].status = "draft_captured" => \E c \in CallsOf(r) :
       /\ Has(Own(c, log), "draft_captured") /\ main[c].draft = runs[r].draft
       /\ main[c].step \in {"captured", "run_failed", "replace_failed", "rejected"}
  /\ runs[r].status = "failed" => \E c \in CallsOf(r) :
       Has(Own(c, log), "run_failed") /\ main[c].step \in {"failed", "rejected"}

ReviewOk(c) ==
  /\ review[c].step # "none" => main[c].step = "captured"
  /\ review[c].step \in {"requesting", "requested"} =>
       /\ Has(Own(c, log), "draft_validation_evaluated")
       /\ ValidationDecision(main[c].draft, review[c].context) = "accept"
  /\ review[c].step = "requested" => Has(Own(c, log), "merchant_review_requested")

AgentInv ==
  /\ TypeOK
  /\ IsFiniteSet(log)
  /\ \A c \in Calls : CallOk(c) /\ ReviewOk(c)
  /\ \A s \in Slots : tool[s].step # "closed" => SlotOk(s)
  /\ SlotsApart
  /\ \A r \in Runs : RowOk(r)

-------------------------------------------------------------------------------
\* Facts about the names of events.

LEMMA GateFacts ==
  /\ DOMAIN GateEvents = 1 .. 5 /\ Len(GateEvents) = 5
  /\ GateEvents[1] = "run_started" /\ GateEvents[2] = "attempt_loaded"
  /\ GateEvents[3] = "policy_evaluated" /\ GateEvents[4] = "runtime_selected"
  /\ GateEvents[5] = "harness_invoked"
<1>. QED BY DEF GateEvents

LEMMA GateSet == ToSet(GateEvents) = Gates
<1>1. DOMAIN GateEvents = 1 .. 5 BY GateFacts
<1>2. 1 .. 5 = {1, 2, 3, 4, 5} OBVIOUS
<1>. QED BY <1>1, <1>2, GateFacts DEF ToSet, Gates

LEMMA MainEventSet ==
  /\ MainEvents = Gates \cup Later
  /\ MainEvents \cap ToolEvents = {} /\ MainEvents \cap ReviewEvents = {}
  /\ ToolEvents \cap ReviewEvents = {}
<1>. QED BY GateSet DEF MainEvents, Gates, Later, ToolEvents, ReviewEvents

\* A gate event in its place has the number of its place.
LEMMA GateNumber ==
  ASSUME NEW n \in Nat, n >= 1, NEW type, InPlace(n, type)
  PROVE  type \in Gates =>
           /\ n \in 1 .. 5 /\ type = GateEvents[n]
           /\ type = "run_started" => n = 1
           /\ type = "attempt_loaded" => n = 2
           /\ type = "policy_evaluated" => n = 3
           /\ type = "runtime_selected" => n = 4
           /\ type = "harness_invoked" => n = 5
<1>. SUFFICES ASSUME type \in Gates PROVE
           /\ n \in 1 .. 5 /\ type = GateEvents[n]
           /\ type = "run_started" => n = 1
           /\ type = "attempt_loaded" => n = 2
           /\ type = "policy_evaluated" => n = 3
           /\ type = "runtime_selected" => n = 4
           /\ type = "harness_invoked" => n = 5
  OBVIOUS
<1>1. n =< 5 /\ type = GateEvents[n] BY DEF InPlace, Gates
<1>2. n \in {1, 2, 3, 4, 5} BY <1>1
<1>. QED BY <1>1, <1>2, GateFacts

-------------------------------------------------------------------------------
\* The entries of a call.

\* An entry in its place, new to its call, and later than the main events before it keeps the
\* entries numbered.
LEMMA NumberedGrows ==
  ASSUME NEW E, NEW n \in Nat, NEW e,
         \A f \in E \cup {e} : f.number \in Nat,
         Numbered(E, n), e.number =< n,
         e.number > 0 => (\A f \in E : f.number # e.number) /\ InPlace(e.number, e.type),
         e.type \in MainEvents =>
           \A f \in E : f.type \in Later => f.number < e.number,
         e.type \in Later => ~Has(E, "run_failed"),
         e.type = "harness_transcript_event" => ~Has(E, "draft_captured")
  PROVE  Numbered(E \cup {e}, n)
<1>1. \A f \in E \cup {e} : f.number =< n BY DEF Numbered
<1>2. \A f, g \in E \cup {e} : f.number = g.number /\ f.number > 0 => f = g BY DEF Numbered
<1>3. \A f \in E \cup {e} : f.number > 0 => InPlace(f.number, f.type) BY DEF Numbered
<1>4. \A f, g \in E \cup {e} :
        f.type = "draft_captured" /\ g.type = "harness_transcript_event" => g.number < f.number
  BY MainEventSet DEF Numbered, Has, Later
<1>5. \A f, g \in E \cup {e} : f.type = "run_failed" /\ g.type \in Later => g.number =< f.number
  BY MainEventSet DEF Numbered, Has, Later
<1>. QED BY <1>1, <1>2, <1>3, <1>4, <1>5 DEF Numbered

LEMMA NumberedLonger ==
  ASSUME NEW E, NEW n \in Nat, NEW k \in Nat, n =< k, \A f \in E : f.number \in Nat, Numbered(E, n)
  PROVE  Numbered(E, k)
<1>. QED BY DEF Numbered

-------------------------------------------------------------------------------
\* The moves of a call from m to k. stored says that the entry it waited for is in the audit.
CallMove(m, k, stored) ==
  /\ m.step \notin Ended /\ k.step # "idle" /\ MainOk(k)
  /\ stored => m.step \in MainEvents
  /\ m.step # "idle" => k.setup = m.setup /\ k.run = m.run
  /\ m.holdsTools => k.holdsTools
  /\ \/ k.step \in MainEvents /\ k.number = m.events + 1 /\ k.events = m.events + 1
     \/ k.step \notin MainEvents /\ k.events = m.events
  /\ m.step = "draft_captured" /\ stored => k.step \in {"replace_captured", "run_failed", "rejected"}
  /\ m.step = "replace_captured" => k.step \in {"captured", "run_failed", "rejected"}
  /\ m.step = "run_failed" => k.step \in {"replace_failed", "rejected"}
  /\ m.step = "replace_failed" => k.step \in {"failed", "rejected"}
  /\ k.step = "replace_captured" => m.step = "draft_captured" /\ stored
  /\ k.step = "captured" => m.step = "replace_captured"
  /\ k.step = "replace_failed" => m.step = "run_failed" /\ stored
  /\ k.step = "failed" => m.step = "replace_failed"
  /\ m.step \in {"draft_captured", "replace_captured", "run_failed", "replace_failed"} =>
       k.draft = m.draft

Entry(c, m) == [call |-> c, number |-> m.number, type |-> m.step, tool |-> NoTool]
Stored(E, c, m, stored) == IF stored THEN E \cup {Entry(c, m)} ELSE E

\* A call that moves keeps its entries numbered, and its outcome in the audit.
LEMMA MoveKeepsCall ==
  ASSUME NEW m \in Main, NEW k \in Main, NEW stored \in BOOLEAN, NEW c \in Calls,
         NEW E \in SUBSET AgentRunEvent,
         MainOk(m), Numbered(E, m.events), Pending(E, m), Outcome(E, m), CallMove(m, k, stored)
  PROVE  LET E2 == Stored(E, c, m, stored)
         IN  Numbered(E2, k.events) /\ Pending(E2, k) /\ Outcome(E2, k)
<1>. DEFINE e == Entry(c, m)
            E2 == Stored(E, c, m, stored)
<1>1. /\ m.number \in Nat /\ m.events \in Nat /\ k.number \in Nat /\ k.events \in Nat
      /\ \A f \in E : f.number \in Nat
  BY DEF Main, AgentRunEvent
<1>2. e.number = m.number /\ e.type = m.step BY DEF Entry
<1>3. k.events >= m.events BY <1>1 DEF CallMove
<1>. HIDE DEF e
<1>4. Numbered(E2, m.events)
  <2>1. CASE ~stored BY <2>1 DEF Stored
  <2>2. CASE stored
    <3>1. E2 = E \cup {e} BY <2>2 DEF Stored, e
    <3>2. m.step \in MainEvents BY <2>2 DEF CallMove
    <3>3. m.number \in 1 .. m.events /\ InPlace(m.number, m.step) BY <3>2 DEF MainOk
    <3>4. \A f \in E : f.number # m.number /\ (f.type \in MainEvents => f.number < m.number)
      BY <3>2 DEF Pending
    <3>5. m.step \in Later => ~Has(E, "run_failed")
      BY DEF Outcome, Later
    <3>6. m.step = "harness_transcript_event" => ~Has(E, "draft_captured")
      BY DEF Outcome
    <3>7. \A f \in E \cup {e} : f.number \in Nat BY <1>1, <1>2
    <3>8. \A f \in E : f.type \in Later => f.number < e.number BY <3>4, <1>2, MainEventSet
    <3>. QED BY <3>1, <3>3, <3>4, <3>5, <3>6, <3>7, <3>8, <1>1, <1>2, NumberedGrows
  <2>. QED BY <2>1, <2>2
<1>5. \A f \in E2 : f.number \in Nat BY <1>1, <1>2 DEF Stored, e
<1>6. Numbered(E2, k.events) BY <1>1, <1>3, <1>4, <1>5, NumberedLonger
<1>7. Pending(E2, k)
  <2>1. \A f \in E2 : f.number =< m.events BY <1>4 DEF Numbered
  <2>2. k.step \in MainEvents => k.number = m.events + 1 BY DEF CallMove
  <2>. QED BY <2>1, <2>2, <1>1, <1>5 DEF Pending
<1>8. Outcome(E2, k)
  <2>1. \A type : Has(E2, type) <=> Has(E, type) \/ (stored /\ m.step = type)
    BY <1>2 DEF Has, Stored, e
  <2>2. m.step # "captured" /\ m.step # "failed" /\ m.step # "rejected" BY DEF CallMove, Ended
  <2>3. Has(E2, "draft_captured") =>
          k.step \in {"replace_captured", "captured", "run_failed", "replace_failed", "failed",
                      "rejected"}
    BY <2>1, <2>2 DEF Outcome, CallMove
  <2>4. Has(E2, "run_failed") => k.step \in {"replace_failed", "failed", "rejected"}
    BY <2>1, <2>2 DEF Outcome, CallMove
  <2>5. k.step \in {"replace_captured", "captured"} => Has(E2, "draft_captured")
    BY <2>1 DEF Outcome, CallMove
  <2>6. k.step \in {"replace_failed", "failed"} => Has(E2, "run_failed")
    BY <2>1 DEF Outcome, CallMove
  <2>. QED BY <2>3, <2>4, <2>5, <2>6 DEF Outcome
<1>. QED BY <1>6, <1>7, <1>8

\* What a tool call knows of its call survives the moves of the call and the entries of others.
LEMMA ToolKept ==
  ASSUME NEW t \in Tool, NEW m \in Main, NEW k \in Main, NEW E, NEW F, ToolOk(t, m, E),
         E \subseteq F,
         m.holdsTools => k.holdsTools /\ k.setup = m.setup,
         k.events >= m.events,
         m.holdsTools /\ k.step \in MainEvents =>
           k.number > m.events \/ (m.step \in MainEvents /\ k.number = m.number),
         t.step \in ToolEvents => \A f \in F \ E : f.number # t.number
  PROVE  ToolOk(t, k, F)
<1>. SUFFICES ASSUME t.step # "closed" PROVE ToolOk(t, k, F) BY DEF ToolOk
<1>1. m.number \in Nat /\ m.events \in Nat /\ k.number \in Nat /\ k.events \in Nat
  BY DEF Main
<1>2. m.holdsTools /\ k.holdsTools /\ k.setup = m.setup BY DEF ToolOk
<1>3. ASSUME t.step \in ToolEvents
      PROVE  /\ t.number \in 6 .. k.events
             /\ \A e \in F : e.number # t.number
             /\ k.step \in MainEvents => k.number # t.number
  <2>1. t.number \in 6 .. m.events /\ (\A e \in E : e.number # t.number)
        /\ (m.step \in MainEvents => m.number # t.number)
    BY <1>3 DEF ToolOk, ToolPending
  <2>. QED BY <1>1, <1>2, <1>3, <2>1
<1>4. \A type, name : HasTool(E, type, name) => HasTool(F, type, name) BY DEF HasTool
<1>. QED BY <1>2, <1>3, <1>4 DEF ToolOk, ToolPending, ToolGuarded

LEMMA MoveKeepsTool ==
  ASSUME NEW m \in Main, NEW k \in Main, NEW stored \in BOOLEAN, NEW c \in Calls,
         NEW E, NEW t \in Tool,
         MainOk(m), ToolOk(t, m, E), CallMove(m, k, stored)
  PROVE  ToolOk(t, k, Stored(E, c, m, stored))
<1>1. m.number \in Nat /\ m.events \in Nat /\ k.number \in Nat /\ k.events \in Nat
  BY DEF Main
<1>2. m.holdsTools => k.holdsTools /\ k.setup = m.setup BY DEF CallMove, MainOk
<1>3. k.events >= m.events BY <1>1 DEF CallMove
<1>4. k.step \in MainEvents => k.number > m.events BY <1>1 DEF CallMove
<1>5. E \subseteq Stored(E, c, m, stored) BY DEF Stored
<1>6. ASSUME t.step \in ToolEvents, NEW f \in Stored(E, c, m, stored) \ E
      PROVE  f.number # t.number
  <2>1. stored /\ f = Entry(c, m) BY DEF Stored
  <2>2. f.number = m.number BY <2>1 DEF Entry
  <2>3. m.step \in MainEvents BY <2>1 DEF CallMove
  <2>4. t.step # "closed" BY <1>6 DEF ToolEvents
  <2>. QED BY <2>2, <2>3, <2>4, <1>6 DEF ToolOk, ToolPending
<1>. QED BY <1>2, <1>3, <1>4, <1>5, <1>6, ToolKept

-------------------------------------------------------------------------------
\* A step of the call c: its move, and what becomes of the row of its run.
RowStays(m, k) ==
  /\ k.step \notin {"captured", "failed"}
  /\ m.step = "idle" => k.step = "append_run"
  /\ m.step = "append_run" => k.step = "rejected"

RowChanges(m, k, row) ==
  /\ m.step # "idle" /\ row.status # "none"
  /\ row.status = "started" => k.step \notin {"captured", "failed"}
  /\ row.status = "draft_captured" => m.step = "replace_captured" /\ row.draft = m.draft
  /\ row.status = "failed" => m.step = "replace_failed"
  /\ k.step = "captured" => row.status = "draft_captured"
  /\ k.step = "failed" => row.status = "failed"

CallSteps(c, k, stored) ==
  /\ CallMove(main[c], k, stored)
  /\ main' = [main EXCEPT ![c] = k]
  /\ log' = Stored(log, c, main[c], stored)
  /\ tool' = tool /\ review' = review
  /\ \/ runs' = runs /\ RowStays(main[c], k)
     \/ \E row \in Row : /\ runs' = [runs EXCEPT ![main[c].run] = row]
                         /\ RowChanges(main[c], k, row)
  /\ failures' \in 0 .. MaxFailures

LEMMA Typed ==
  ASSUME TypeOK
  PROVE  /\ main \in [Calls -> Main] /\ tool \in [Slots -> Tool] /\ review \in [Calls -> Review]
         /\ runs \in [Runs -> Row] /\ log \in SUBSET AgentRunEvent
         /\ failures \in 0 .. MaxFailures
<1>. QED BY DEF TypeOK, Main, Tool, Review

LEMMA TypedNext ==
  ASSUME main' \in [Calls -> Main], tool' \in [Slots -> Tool], review' \in [Calls -> Review],
         runs' \in [Runs -> Row], log' \in SUBSET AgentRunEvent, failures' \in 0 .. MaxFailures
  PROVE  TypeOK'
<1>. QED BY DEF TypeOK, Main, Tool, Review

LEMMA EntryTyped ==
  ASSUME NEW c \in Calls, NEW m \in Main, m.step \in MainEvents
  PROVE  Entry(c, m) \in AgentRunEvent
<1>1. m.number \in Nat BY DEF Main
<1>. QED BY <1>1 DEF Entry, AgentRunEvent, NoTool

\* What a step of the call c leaves of the calls, their entries and the rows they have.
LEMMA StepFrame ==
  ASSUME TypeOK, NEW c \in Calls, NEW k \in Main, NEW stored \in BOOLEAN, CallSteps(c, k, stored)
  PROVE  /\ main'[c] = k /\ \A d \in Calls \ {c} : main'[d] = main[d]
         /\ Own(c, log') = Stored(Own(c, log), c, main[c], stored)
         /\ \A d \in Calls \ {c} : Own(d, log') = Own(d, log)
         /\ \A r \in Runs : r # main[c].run => runs'[r] = runs[r]
         /\ TypeOK' /\ (IsFiniteSet(log) => IsFiniteSet(log'))
<1>1. main'[c] = k /\ \A d \in Calls \ {c} : main'[d] = main[d] BY Typed DEF CallSteps
<1>2. Own(c, log') = Stored(Own(c, log), c, main[c], stored)
  BY DEF CallSteps, Stored, Own, Entry
<1>3. ASSUME NEW d \in Calls \ {c} PROVE Own(d, log') = Own(d, log)
  BY DEF CallSteps, Stored, Own, Entry
<1>4. \A r \in Runs : r # main[c].run => runs'[r] = runs[r] BY Typed DEF CallSteps
<1>5. main' \in [Calls -> Main] /\ tool' \in [Slots -> Tool] /\ review' \in [Calls -> Review]
  BY Typed DEF CallSteps
<1>6. runs' \in [Runs -> Row] BY Typed DEF CallSteps
<1>7. log' \in SUBSET AgentRunEvent
  <2>1. main[c] \in Main BY Typed
  <2>2. stored => Entry(c, main[c]) \in AgentRunEvent BY <2>1, EntryTyped DEF CallSteps, CallMove
  <2>. QED BY <2>2, Typed DEF CallSteps, Stored
<1>8. IsFiniteSet(log) => IsFiniteSet(log')
  BY FS_AddElement DEF CallSteps, Stored
<1>9. failures' \in 0 .. MaxFailures BY DEF CallSteps
<1>. QED BY <1>1, <1>2, <1>3, <1>4, <1>5, <1>6, <1>7, <1>8, <1>9, TypedNext

LEMMA OwnTyped ==
  ASSUME TypeOK, NEW d PROVE Own(d, log) \in SUBSET AgentRunEvent
<1>. QED BY Typed DEF Own

LEMMA StepKeepsCalls ==
  ASSUME AgentInv, NEW c \in Calls, NEW k \in Main, NEW stored \in BOOLEAN,
         CallSteps(c, k, stored), NEW d \in Calls
  PROVE  CallOk(d)'
<1>1. TypeOK /\ CallOk(d) BY DEF AgentInv
<1>2. CASE d # c
  <2>1. main'[d] = main[d] /\ Own(d, log') = Own(d, log) BY <1>1, <1>2, StepFrame
  <2>. QED BY <2>1, <1>1 DEF CallOk
<1>3. CASE d = c
  <2>1. main'[c] = k /\ Own(c, log') = Stored(Own(c, log), c, main[c], stored)
    BY <1>1, StepFrame
  <2>2. main[c] \in Main /\ Own(c, log) \in SUBSET AgentRunEvent BY <1>1, Typed, OwnTyped
  <2>3. CallMove(main[c], k, stored) BY DEF CallSteps
  <2>4. /\ Numbered(Stored(Own(c, log), c, main[c], stored), k.events)
        /\ Pending(Stored(Own(c, log), c, main[c], stored), k)
        /\ Outcome(Stored(Own(c, log), c, main[c], stored), k)
    BY <1>1, <1>3, <2>2, <2>3, MoveKeepsCall DEF CallOk
  <2>5. MainOk(k) BY <2>3 DEF CallMove
  <2>. QED BY <1>3, <2>1, <2>4, <2>5 DEF CallOk
<1>. QED BY <1>2, <1>3

LEMMA StepKeepsSlots ==
  ASSUME AgentInv, NEW c \in Calls, NEW k \in Main, NEW stored \in BOOLEAN,
         CallSteps(c, k, stored), NEW s \in Slots, tool'[s].step # "closed"
  PROVE  SlotOk(s)'
<1>1. TypeOK BY DEF AgentInv
<1>2. tool' = tool BY DEF CallSteps
<1>3. SlotOk(s) BY <1>2 DEF AgentInv
<1>4. tool[s] \in Tool BY <1>1, Typed
<1>5. tool[s].of \in Calls BY <1>2, <1>3 DEF SlotOk, ToolOk
<1>6. CASE tool[s].of # c
  <2>1. main'[tool[s].of] = main[tool[s].of] /\ Own(tool[s].of, log') = Own(tool[s].of, log)
    BY <1>1, <1>5, <1>6, StepFrame
  <2>. QED BY <2>1, <1>2, <1>3 DEF SlotOk
<1>7. CASE tool[s].of = c
  <2>1. main'[c] = k /\ Own(c, log') = Stored(Own(c, log), c, main[c], stored)
    BY <1>1, StepFrame
  <2>2. main[c] \in Main /\ MainOk(main[c]) BY <1>1, Typed DEF AgentInv, CallOk
  <2>3. CallMove(main[c], k, stored) BY DEF CallSteps
  <2>4. ToolOk(tool[s], main[c], Own(c, log)) BY <1>3, <1>7 DEF SlotOk
  <2>5. ToolOk(tool[s], k, Stored(Own(c, log), c, main[c], stored))
    BY <1>4, <2>2, <2>3, <2>4, MoveKeepsTool
  <2>. QED BY <1>2, <1>7, <2>1, <2>5 DEF SlotOk
<1>. QED BY <1>6, <1>7

LEMMA StepKeepsReviews ==
  ASSUME AgentInv, NEW c \in Calls, NEW k \in Main, NEW stored \in BOOLEAN,
         CallSteps(c, k, stored), NEW d \in Calls
  PROVE  ReviewOk(d)'
<1>1. TypeOK /\ ReviewOk(d) BY DEF AgentInv
<1>2. review' = review BY DEF CallSteps
<1>3. CASE d # c
  <2>1. main'[d] = main[d] /\ Own(d, log') = Own(d, log) BY <1>1, <1>3, StepFrame
  <2>. QED BY <2>1, <1>1, <1>2 DEF ReviewOk
<1>4. CASE d = c
  <2>1. main[c].step # "captured" BY DEF CallSteps, CallMove, Ended
  <2>2. review[d].step = "none" BY <1>1, <1>4, <2>1 DEF ReviewOk
  <2>. QED BY <1>2, <2>2 DEF ReviewOk
<1>. QED BY <1>3, <1>4

\* The rows: what a row says stays said, by a call that moved on or by one that did not.
LEMMA StepKeepsRows ==
  ASSUME AgentInv, NEW c \in Calls, NEW k \in Main, NEW stored \in BOOLEAN,
         CallSteps(c, k, stored), NEW r \in Runs
  PROVE  RowOk(r)'
<1>. DEFINE m == main[c]
            old == runs[r].status
            new == runs'[r].status
            E(d) == Own(d, log)
            F(d) == Own(d, log')
<1>1. TypeOK /\ RowOk(r) BY DEF AgentInv
<1>2. m \in Main /\ main \in [Calls -> Main] /\ m.run \in Runs BY <1>1, Typed DEF Main
<1>3. CallMove(m, k, stored) BY DEF CallSteps
<1>4. main'[c] = k /\ \A d \in Calls \ {c} : main'[d] = main[d] BY <1>1, StepFrame
<1>5. /\ F(c) = Stored(E(c), c, m, stored)
      /\ \A d \in Calls \ {c} : F(d) = E(d)
      /\ \A q \in Runs : q # m.run => runs'[q] = runs[q]
  BY <1>1, StepFrame
<1>6. \A d \in Calls : \A type : Has(E(d), type) => Has(F(d), type) BY <1>5 DEF Has, Stored
<1>7. k.step # "idle" /\ (m.step # "idle" => k.run = m.run) BY <1>3 DEF CallMove
<1>8. \A d \in CallsOf(r) : d # c => d \in CallsOf(r)' BY <1>4 DEF CallsOf
<1>9. \A d \in CallsOf(r)' : d # c => d \in CallsOf(r) BY <1>4 DEF CallsOf
<1>10. c \in CallsOf(r) => c \in CallsOf(r)' /\ m.run = r BY <1>4, <1>7 DEF CallsOf
<1>11. m.step \notin {"captured", "failed", "rejected"} BY <1>3 DEF CallMove, Ended
<1>. HIDE DEF m, E, F
<1>12. CASE runs'[r] = runs[r] /\ (m.run = r \/ m.step = "idle" => RowStays(m, k))
  <2>1. ASSUME new = "none", NEW d \in CallsOf(r)'
        PROVE  main'[d].step \in {"append_run", "rejected"}
    <3>1. CASE d # c
      BY <1>1, <1>4, <1>9, <1>12, <2>1, <3>1 DEF RowOk, CallsOf
    <3>2. CASE d = c
      <4>1. m.step = "idle" \/ m.step = "append_run"
        BY <1>1, <1>4, <1>7, <1>11, <1>12, <2>1, <3>2 DEF RowOk, CallsOf, m
      <4>2. RowStays(m, k)
        BY <1>4, <1>7, <1>12, <2>1, <3>2, <4>1 DEF CallsOf
      <4>. QED BY <1>4, <3>2, <4>1, <4>2 DEF RowStays
    <3>. QED BY <3>1, <3>2
  <2>2. ASSUME new = "started"
        PROVE  \E d \in CallsOf(r)' : main'[d].step \notin {"captured", "failed"}
    <3>1. PICK d \in CallsOf(r) : main[d].step \notin {"captured", "failed"}
      BY <1>1, <1>12, <2>2 DEF RowOk
    <3>2. d \in CallsOf(r)' BY <1>8, <1>10, <3>1
    <3>3. main'[d].step \notin {"captured", "failed"}
      BY <1>4, <1>10, <1>12, <3>1 DEF RowStays, CallsOf
    <3>. QED BY <3>2, <3>3
  <2>3. ASSUME new = "draft_captured"
        PROVE  \E d \in CallsOf(r)' :
                 /\ Has(F(d), "draft_captured") /\ main'[d].draft = runs'[r].draft
                 /\ main'[d].step \in {"captured", "run_failed", "replace_failed", "rejected"}
    <3>1. PICK d \in CallsOf(r) :
                 /\ Has(E(d), "draft_captured") /\ main[d].draft = runs[r].draft
                 /\ main[d].step \in {"captured", "run_failed", "replace_failed", "rejected"}
      BY <1>1, <1>12, <2>3 DEF RowOk, E
    <3>2. d \in CallsOf(r)' /\ d \in Calls BY <1>8, <1>10, <3>1 DEF CallsOf
    <3>3. Has(F(d), "draft_captured") BY <1>6, <3>1, <3>2
    <3>4. CASE d # c BY <1>4, <1>12, <3>1, <3>2, <3>3, <3>4
    <3>5. CASE d = c
      <4>1. m.step \in {"run_failed", "replace_failed"} BY <1>11, <3>1, <3>5 DEF m
      <4>2. k.draft = m.draft /\ k.step \in {"failed", "replace_failed", "rejected"}
        BY <1>3, <4>1 DEF CallMove
      <4>3. k.step # "failed" BY <1>10, <1>12, <3>1, <3>5 DEF RowStays
      <4>. QED BY <1>4, <1>12, <3>1, <3>2, <3>3, <3>5, <4>2, <4>3 DEF m
    <3>. QED BY <3>4, <3>5
  <2>4. ASSUME new = "failed"
        PROVE  \E d \in CallsOf(r)' :
                 Has(F(d), "run_failed") /\ main'[d].step \in {"failed", "rejected"}
    <3>1. PICK d \in CallsOf(r) : Has(E(d), "run_failed") /\ main[d].step \in {"failed", "rejected"}
      BY <1>1, <1>12, <2>4 DEF RowOk, E
    <3>2. d # c BY <1>11, <3>1 DEF m
    <3>3. d \in Calls /\ d \in CallsOf(r)' BY <1>8, <3>1, <3>2 DEF CallsOf
    <3>. QED BY <1>4, <1>6, <3>1, <3>2, <3>3
  <2>. QED BY <2>1, <2>2, <2>3, <2>4 DEF RowOk, F
<1>13. ASSUME NEW row \in Row, runs' = [runs EXCEPT ![m.run] = row], RowChanges(m, k, row),
              r = m.run
       PROVE  RowOk(r)'
  <2>1. runs'[r] = row BY <1>1, <1>13, Typed
  <2>2. c \in CallsOf(r)' BY <1>4, <1>7, <1>13 DEF CallsOf, RowChanges
  <2>3. row.status # "none" BY <1>13 DEF RowChanges
  <2>4. row.status = "started" => main'[c].step \notin {"captured", "failed"}
    BY <1>4, <1>13 DEF RowChanges
  <2>5. ASSUME row.status = "draft_captured"
        PROVE  /\ Has(F(c), "draft_captured") /\ main'[c].draft = row.draft
               /\ main'[c].step \in {"captured", "run_failed", "replace_failed", "rejected"}
    <3>1. m.step = "replace_captured" /\ row.draft = m.draft BY <1>13, <2>5 DEF RowChanges
    <3>2. Has(E(c), "draft_captured") BY <3>1 DEF AgentInv, CallOk, Outcome, E, m
    <3>3. k.step \in {"captured", "run_failed", "rejected"} /\ k.draft = m.draft
      BY <1>3, <3>1 DEF CallMove
    <3>. QED BY <1>4, <1>6, <3>1, <3>2, <3>3
  <2>6. ASSUME row.status = "failed"
        PROVE  Has(F(c), "run_failed") /\ main'[c].step \in {"failed", "rejected"}
    <3>1. m.step = "replace_failed" BY <1>13, <2>6 DEF RowChanges
    <3>2. Has(E(c), "run_failed") BY <3>1 DEF AgentInv, CallOk, Outcome, E, m
    <3>3. k.step \in {"failed", "rejected"} BY <1>3, <3>1 DEF CallMove
    <3>. QED BY <1>4, <1>6, <3>2, <3>3
  <2>. QED BY <2>1, <2>2, <2>3, <2>4, <2>5, <2>6 DEF RowOk, F
<1>14. CASE runs' = runs /\ RowStays(m, k) BY <1>12, <1>14
<1>15. ASSUME NEW row \in Row, runs' = [runs EXCEPT ![m.run] = row], RowChanges(m, k, row),
              r # m.run
       PROVE  RowOk(r)'
  <2>1. runs'[r] = runs[r] BY <1>5, <1>15
  <2>2. m.step # "idle" BY <1>15 DEF RowChanges
  <2>. QED BY <1>12, <1>15, <2>1, <2>2
<1>16. \/ runs' = runs /\ RowStays(m, k)
       \/ \E row \in Row : runs' = [runs EXCEPT ![m.run] = row] /\ RowChanges(m, k, row)
  BY DEF CallSteps, m
<1>. QED BY <1>13, <1>14, <1>15, <1>16

\* A step of a call keeps the invariant.
LEMMA StepKeepsInv ==
  ASSUME AgentInv, NEW c \in Calls, NEW k \in Main, NEW stored \in BOOLEAN,
         CallSteps(c, k, stored)
  PROVE  AgentInv'
<1>1. TypeOK' /\ IsFiniteSet(log') BY StepFrame DEF AgentInv
<1>2. \A d \in Calls : CallOk(d)' /\ ReviewOk(d)' BY StepKeepsCalls, StepKeepsReviews
<1>3. \A s \in Slots : tool'[s].step # "closed" => SlotOk(s)' BY StepKeepsSlots
<1>4. \A r \in Runs : RowOk(r)' BY StepKeepsRows
<1>5. SlotsApart' BY DEF AgentInv, CallSteps, SlotsApart
<1>. QED BY <1>1, <1>2, <1>3, <1>4, <1>5 DEF AgentInv

-------------------------------------------------------------------------------
\* The two ways a call moves: it appends an event and waits for it, or goes to another step.
Appended(m, n, type) == [m EXCEPT !.step = type, !.number = n, !.events = @ + 1]
Went(m, step) == [m EXCEPT !.step = step]

LEMMA AppendedFields ==
  ASSUME NEW m \in Main, NEW n \in Nat, NEW type \in MainStep
  PROVE  LET k == Appended(m, n, type)
         IN  /\ k \in Main
             /\ k.step = type /\ k.number = n /\ k.events = m.events + 1 /\ k.run = m.run
             /\ k.setup = m.setup /\ k.draft = m.draft /\ k.holdsTools = m.holdsTools
<1>1. m.events + 1 \in Nat BY DEF Main
<1>2. DOMAIN m = {"step", "run", "setup", "number", "events", "draft", "transcript", "holdsTools"}
  BY DEF Main
<1>3. /\ Appended(m, n, type).step = type /\ Appended(m, n, type).number = n
      /\ Appended(m, n, type).events = m.events + 1
  BY <1>2 DEF Appended
<1>4. /\ Appended(m, n, type).run = m.run /\ Appended(m, n, type).setup = m.setup
      /\ Appended(m, n, type).draft = m.draft
      /\ Appended(m, n, type).transcript = m.transcript
      /\ Appended(m, n, type).holdsTools = m.holdsTools
  BY <1>2 DEF Appended
<1>5. Appended(m, n, type) \in Main BY <1>1 DEF Appended, Main
<1>. QED BY <1>3, <1>4, <1>5

LEMMA WentFields ==
  ASSUME NEW m \in Main, NEW step \in MainStep
  PROVE  LET k == Went(m, step)
         IN  /\ k \in Main
             /\ k.step = step /\ k.number = m.number /\ k.events = m.events /\ k.run = m.run
             /\ k.setup = m.setup /\ k.draft = m.draft /\ k.holdsTools = m.holdsTools
<1>. QED BY DEF Went, Main

LEMMA StepNames == MainStep = {"idle", "append_run", "turn", "replace_captured", "replace_failed"}
                                \cup Gates \cup Later \cup Ended
<1>. QED BY MainEventSet DEF MainStep

LEMMA AppendEventIs ==
  ASSUME NEW c \in Calls, NEW m, NEW type, AppendEvent(c, m, type)
  PROVE  main' = [main EXCEPT ![c] = Appended(m, NextNumber(c), type)]
<1>. QED BY DEF AppendEvent, Appended

LEMMA GotoIs ==
  ASSUME TypeOK, NEW c \in Calls, NEW step, Goto(c, step)
  PROVE  main' = [main EXCEPT ![c] = Went(main[c], step)]
<1>. QED BY Typed DEF Goto, Went

LEMMA StoreEventIs ==
  ASSUME NEW c \in Calls, NEW done, StoreEvent(c, done)
  PROVE  log' = Stored(log, c, main[c], done)
<1>. QED BY DEF StoreEvent, Stored, Entry

\* The catch block: the failure of a call is its next event, whatever it had come to.
LEMMA CatchMoves ==
  ASSUME NEW m \in Main, MainOk(m), NEW stored \in BOOLEAN,
         stored => m.step \in MainEvents,
         m.step \notin Ended \cup {"idle", "run_failed", "replace_failed"}
  PROVE  CallMove(m, Appended(m, m.events + 1, "run_failed"), stored)
<1>. DEFINE k == Appended(m, m.events + 1, "run_failed")
<1>1. m.events \in Nat /\ m.events + 1 \in Nat /\ "run_failed" \in MainStep
  BY StepNames DEF Main, Later
<1>2. /\ k.step = "run_failed" /\ k.number = m.events + 1 /\ k.events = m.events + 1
      /\ k.run = m.run /\ k.setup = m.setup /\ k.draft = m.draft /\ k.holdsTools = m.holdsTools
  BY <1>1, AppendedFields
<1>. HIDE DEF k
<1>3. InPlace(k.number, "run_failed") BY DEF InPlace, Gates
<1>4. "run_failed" \in MainEvents /\ "run_failed" \notin Gates BY MainEventSet DEF Later, Gates
<1>5. MainOk(k) BY <1>1, <1>2, <1>3, <1>4 DEF MainOk, Prepared, Permitted
<1>. QED BY <1>2, <1>4, <1>5 DEF CallMove, k

LEMMA RejectMoves ==
  ASSUME NEW m \in Main, MainOk(m), NEW stored \in BOOLEAN,
         stored => m.step \in MainEvents, m.step \notin Ended \cup {"idle"}
  PROVE  CallMove(m, Went(m, "rejected"), stored)
<1>. DEFINE k == Went(m, "rejected")
<1>1. /\ k.step = "rejected" /\ k.number = m.number /\ k.events = m.events
      /\ k.run = m.run /\ k.setup = m.setup /\ k.draft = m.draft /\ k.holdsTools = m.holdsTools
  BY WentFields, StepNames DEF Ended
<1>. HIDE DEF k
<1>2. "rejected" \notin MainEvents /\ "rejected" \notin Gates
  BY MainEventSet DEF Later, Gates
<1>3. MainOk(k) BY <1>1, <1>2 DEF MainOk, Prepared, Permitted
<1>. QED BY <1>1, <1>2, <1>3 DEF CallMove, k

\* The gate events, each in its place, and each after the check it stands for.
LEMMA GateMoves ==
  ASSUME TypeOK, NEW c \in Calls, MainOk(main[c]), NEW stored \in BOOLEAN, NEW i \in 0 .. 4,
         main[c].step = IF i = 0 THEN "append_run" ELSE GateEvents[i],
         stored => main[c].step \in MainEvents,
         Passes(c, GateEvents[i + 1])
  PROVE  CallMove(main[c], Appended(main[c], main[c].events + 1, GateEvents[i + 1]), stored)
<1>. DEFINE m == main[c]
            type == GateEvents[i + 1]
            k == Appended(m, m.events + 1, type)
<1>1. m \in Main /\ m.events \in Nat /\ m.number \in Nat /\ m.events + 1 \in Nat
  BY Typed DEF Main
<1>2. i \in {0, 1, 2, 3, 4} /\ i + 1 \in 1 .. 5 OBVIOUS
<1>3. type \in Gates BY <1>2, GateFacts DEF Gates
<1>4. type \in MainEvents /\ type \in MainStep BY <1>3, MainEventSet DEF MainStep
<1>5. /\ k.step = type /\ k.number = m.events + 1 /\ k.events = m.events + 1
      /\ k.run = m.run /\ k.setup = m.setup /\ k.draft = m.draft /\ k.holdsTools = m.holdsTools
  <2>. HIDE DEF type, m
  <2>. QED BY <1>1, <1>4, AppendedFields
<1>6. m.step # "idle" /\ m.step \notin Ended /\ m.step \in {"append_run"} \cup Gates
  BY <1>2, GateFacts DEF Gates, Ended
<1>7. m.events = i
  <2>1. CASE i = 0 BY <2>1 DEF MainOk
  <2>2. CASE i # 0
    <3>1. m.step \in Gates /\ m.step \in MainEvents BY <1>2, <2>2, GateFacts, MainEventSet DEF Gates
    <3>2. m.number >= 1 /\ InPlace(m.number, m.step) /\ m.events = m.number
      BY <1>1, <3>1 DEF MainOk
    <3>. QED BY <1>1, <1>2, <2>2, <3>1, <3>2, GateNumber, GateFacts
  <2>. QED BY <2>1, <2>2
<1>8. InPlace(k.number, type) BY <1>2, <1>5, <1>7 DEF InPlace
<1>9. ~m.holdsTools BY <1>6 DEF MainOk
<1>10. type = "attempt_loaded" => Prepared(m)
  BY DEF Passes, Prepared, Attempt
<1>11. type \in {"policy_evaluated", "runtime_selected", "harness_invoked"} =>
         Prepared(m) /\ Permitted(m)
  <2>1. CASE type = "policy_evaluated"
    <3>1. m.step = "attempt_loaded" BY <1>2, <2>1, GateFacts
    <3>. QED BY <2>1, <3>1 DEF Passes, MainOk, Permitted, Attempt, Allowed
  <2>2. CASE type \in {"runtime_selected", "harness_invoked"}
    <3>1. m.step \in {"policy_evaluated", "runtime_selected"} BY <1>2, <2>2, GateFacts
    <3>. QED BY <3>1 DEF MainOk
  <2>. QED BY <2>1, <2>2
<1>12. m.setup \in DOMAIN Setups BY <1>6 DEF MainOk
<1>. HIDE DEF k, m
<1>13. k.events = k.number /\ k.number \in 1 .. k.events BY <1>1, <1>5
<1>14. MainOk(k)
  BY <1>3, <1>5, <1>8, <1>9, <1>10, <1>11, <1>12, <1>13 DEF MainOk, Prepared, Permitted, Gates
<1>15. m.step \notin {"draft_captured", "replace_captured", "run_failed", "replace_failed"}
  BY <1>6 DEF Gates
<1>16. type \notin {"idle", "replace_captured", "captured", "replace_failed", "failed"}
  BY <1>3 DEF Gates
<1>. QED BY <1>4, <1>5, <1>6, <1>9, <1>14, <1>15, <1>16 DEF CallMove, m, k

\* What follows the turn of the harness: transcript, draft or failure.
LEMMA LaterMoves ==
  ASSUME NEW m \in Main, MainOk(m), NEW stored \in BOOLEAN, stored => m.step \in MainEvents,
         m.step \in {"turn", "harness_transcript_event"},
         NEW m2 \in Main, m2.step = m.step, m2.run = m.run, m2.setup = m.setup,
         m2.number = m.number, m2.events = m.events, m2.holdsTools = m.holdsTools,
         NEW type \in Later, type = "draft_captured" => m2.draft # NoDraft
  PROVE  CallMove(m, Appended(m2, m.events + 1, type), stored)
<1>. DEFINE k == Appended(m2, m.events + 1, type)
<1>1. m.events \in Nat /\ m.events + 1 \in Nat /\ type \in MainStep /\ type \in MainEvents
  BY StepNames, MainEventSet DEF Main
<1>2. /\ k.step = type /\ k.number = m.events + 1 /\ k.events = m.events + 1
      /\ k.run = m.run /\ k.setup = m.setup /\ k.draft = m2.draft /\ k.holdsTools = m.holdsTools
  BY <1>1, AppendedFields
<1>. HIDE DEF k
<1>3. m.holdsTools /\ m.events >= 5 /\ m.setup \in DOMAIN Setups BY DEF MainOk
<1>4. type \notin Gates BY DEF Gates, Later
<1>5. InPlace(k.number, type) BY <1>1, <1>2, <1>3, <1>4 DEF InPlace
<1>6. MainOk(k)
  BY <1>1, <1>2, <1>3, <1>4, <1>5 DEF MainOk, Prepared, Permitted, Later
<1>. QED BY <1>1, <1>2, <1>3, <1>6 DEF CallMove, Later, Ended, k

-------------------------------------------------------------------------------
\* Each action of a call as a step of CallSteps.

LEMMA CatchIs ==
  ASSUME TypeOK, NEW c \in Calls, MainOk(main[c]), NEW stored \in BOOLEAN,
         stored => main[c].step \in MainEvents,
         main[c].step \notin Ended \cup {"idle", "run_failed", "replace_failed"}, Catch(c)
  PROVE  \E k \in Main : /\ main' = [main EXCEPT ![c] = k] /\ CallMove(main[c], k, stored)
                         /\ k.step = "run_failed"
<1>. DEFINE k == Appended(main[c], main[c].events + 1, "run_failed")
<1>1. main[c] \in Main /\ main[c].events + 1 \in Nat /\ "run_failed" \in MainStep
  BY Typed, StepNames DEF Main, Later
<1>2. k \in Main /\ k.step = "run_failed" BY <1>1, AppendedFields
<1>3. CallMove(main[c], k, stored) BY <1>1, CatchMoves
<1>4. main' = [main EXCEPT ![c] = k] BY AppendEventIs DEF Catch, NextNumber
<1>. QED BY <1>2, <1>3, <1>4

LEMMA RejectIs ==
  ASSUME TypeOK, NEW c \in Calls, MainOk(main[c]), NEW stored \in BOOLEAN,
         stored => main[c].step \in MainEvents,
         main[c].step \notin Ended \cup {"idle"}, Goto(c, "rejected")
  PROVE  \E k \in Main : /\ main' = [main EXCEPT ![c] = k] /\ CallMove(main[c], k, stored)
                         /\ k.step = "rejected"
<1>. DEFINE k == Went(main[c], "rejected")
<1>1. main[c] \in Main /\ "rejected" \in MainStep BY Typed, StepNames DEF Ended
<1>2. k \in Main /\ k.step = "rejected" BY <1>1, WentFields
<1>3. CallMove(main[c], k, stored) BY <1>1, RejectMoves
<1>4. main' = [main EXCEPT ![c] = k] BY GotoIs
<1>. QED BY <1>2, <1>3, <1>4

LEMMA CatchForeignIs ==
  ASSUME TypeOK, NEW c \in Calls, MainOk(main[c]), NEW stored \in BOOLEAN,
         stored => main[c].step \in MainEvents,
         main[c].step \notin Ended \cup {"idle", "run_failed", "replace_failed"}, CatchForeign(c)
  PROVE  \E k \in Main : /\ main' = [main EXCEPT ![c] = k] /\ CallMove(main[c], k, stored)
                         /\ k.step \in {"run_failed", "rejected"}
<1>. QED BY CatchIs, RejectIs DEF CatchForeign

LEMMA ProceedIs ==
  ASSUME TypeOK, NEW c \in Calls, MainOk(main[c]), NEW stored \in BOOLEAN, NEW i \in 0 .. 4,
         main[c].step = IF i = 0 THEN "append_run" ELSE GateEvents[i],
         stored => main[c].step \in MainEvents, Proceed(c, GateEvents[i + 1])
  PROVE  \E k \in Main : /\ main' = [main EXCEPT ![c] = k] /\ CallMove(main[c], k, stored)
                         /\ k.step \in MainEvents
<1>1. main[c].step \in {"append_run"} \cup Gates
  <2>1. i \in {0, 1, 2, 3, 4} OBVIOUS
  <2>. QED BY <2>1, GateFacts DEF Gates
<1>2. CASE Passes(c, GateEvents[i + 1])
  <2>. DEFINE k == Appended(main[c], main[c].events + 1, GateEvents[i + 1])
  <2>1. i + 1 \in 1 .. 5 /\ i + 1 \in {1, 2, 3, 4, 5} OBVIOUS
  <2>2. GateEvents[i + 1] \in Gates BY <2>1, GateFacts DEF Gates
  <2>3. main[c] \in Main /\ main[c].events + 1 \in Nat BY Typed DEF Main
  <2>4. GateEvents[i + 1] \in MainStep /\ GateEvents[i + 1] \in MainEvents
    BY <2>2, StepNames, MainEventSet
  <2>5. k \in Main /\ k.step = GateEvents[i + 1] BY <2>3, <2>4, AppendedFields
  <2>6. CallMove(main[c], k, stored) BY <1>2, GateMoves
  <2>7. main' = [main EXCEPT ![c] = k] BY <1>2, AppendEventIs DEF Proceed, NextNumber
  <2>. QED BY <2>4, <2>5, <2>6, <2>7
<1>3. CASE ~Passes(c, GateEvents[i + 1])
  <2>1. Catch(c) BY <1>3 DEF Proceed
  <2>2. main[c].step \notin Ended \cup {"idle", "run_failed", "replace_failed"}
    BY <1>1 DEF Gates, Ended
  <2>. QED BY <2>1, <2>2, CatchIs, MainEventSet DEF Later
<1>. QED BY <1>2, <1>3

LEMMA BeginSteps ==
  ASSUME AgentInv, NEW c \in Calls, failures' \in 0 .. MaxFailures, Begin(c)
  PROVE  \E k \in Main : CallSteps(c, k, FALSE)
<1>1. PICK r \in Runs, n \in DOMAIN Setups :
        main' = [main EXCEPT ![c] = [Idle EXCEPT !.step = "append_run", !.run = r, !.setup = n]]
  BY DEF Begin
<1>. DEFINE k == [Idle EXCEPT !.step = "append_run", !.run = r, !.setup = n]
<1>2. /\ k.step = "append_run" /\ k.setup = n /\ k.events = 0 /\ k.number = 0
      /\ k.holdsTools = FALSE
  BY DEF Idle
<1>3. k \in Main
  <2>1. NoDraft \in Drafts \cup {NoDraft} /\ 0 \in 0 .. MaxTranscript BY AgentAssumption
  <2>2. "append_run" \in MainStep BY StepNames
  <2>. QED BY <2>1, <2>2 DEF Idle, Main
<1>. HIDE DEF k
<1>4. main[c].step = "idle" /\ MainOk(main[c]) BY DEF Begin, AgentInv, CallOk
<1>5. main[c].events = 0 /\ ~main[c].holdsTools BY <1>4 DEF MainOk
<1>6. "append_run" \notin MainEvents BY MainEventSet DEF Gates, Later
<1>7. MainOk(k) BY <1>2, <1>6 DEF MainOk, Gates
<1>8. CallMove(main[c], k, FALSE) BY <1>2, <1>4, <1>5, <1>6, <1>7 DEF CallMove, Ended
<1>9. RowStays(main[c], k) BY <1>2, <1>4 DEF RowStays
<1>10. main' = [main EXCEPT ![c] = k] BY <1>1 DEF k
<1>. QED BY <1>3, <1>8, <1>9, <1>10 DEF Begin, CallSteps, Stored

\* The first of the two ways a row moves: it stays.
LEMMA StepsAndRowStays ==
  ASSUME NEW c \in Calls, NEW stored \in BOOLEAN, NEW k \in Main,
         failures' \in 0 .. MaxFailures,
         main' = [main EXCEPT ![c] = k], CallMove(main[c], k, stored),
         log' = Stored(log, c, main[c], stored),
         runs' = runs, tool' = tool, review' = review,
         k.step \notin {"captured", "failed"}, main[c].step \notin {"idle", "append_run"}
  PROVE  CallSteps(c, k, stored)
<1>. QED BY DEF CallSteps, RowStays

LEMMA RunAppendedSteps ==
  ASSUME AgentInv, NEW c \in Calls, failures' \in 0 .. MaxFailures, RunAppended(c)
  PROVE  \E k \in Main : CallSteps(c, k, FALSE)
<1>1. TypeOK /\ MainOk(main[c]) BY DEF AgentInv, CallOk
<1>2. PICK k \in Main : /\ main' = [main EXCEPT ![c] = k] /\ CallMove(main[c], k, FALSE)
                        /\ k.step \in MainEvents
  <2>1. Proceed(c, GateEvents[0 + 1]) /\ main[c].step = "append_run"
    BY GateFacts DEF RunAppended
  <2>2. 0 \in 0 .. 4 /\ FALSE \in BOOLEAN OBVIOUS
  <2>3. PICK i \in 0 .. 4 : i = 0 BY <2>2
  <2>4. Proceed(c, GateEvents[i + 1]) BY <2>1, <2>3
  <2>5. main[c].step = IF i = 0 THEN "append_run" ELSE GateEvents[i] BY <2>1, <2>3
  <2>. QED BY <1>1, <2>2, <2>4, <2>5, ProceedIs
<1>. DEFINE row == [status |-> "started", draft |-> NoDraft]
<1>3. row \in Row BY DEF Row
<1>4. runs' = [runs EXCEPT ![main[c].run] = row] BY DEF RunAppended, StartRow
<1>5. RowChanges(main[c], k, row)
  BY <1>2, MainEventSet DEF RowChanges, RunAppended, Gates, Later
<1>. QED BY <1>2, <1>3, <1>4, <1>5 DEF RunAppended, CallSteps, Stored

LEMMA AppendRunFailsSteps ==
  ASSUME AgentInv, NEW c \in Calls, failures' \in 0 .. MaxFailures, AppendRunFails(c)
  PROVE  \E k \in Main : CallSteps(c, k, FALSE)
<1>1. TypeOK /\ MainOk(main[c]) BY DEF AgentInv, CallOk
<1>2. main[c].step = "append_run" BY DEF AppendRunFails
<1>3. PICK k \in Main : /\ main' = [main EXCEPT ![c] = k] /\ CallMove(main[c], k, FALSE)
                        /\ k.step = "rejected"
  BY <1>1, <1>2, RejectIs DEF AppendRunFails, Ended
<1>. DEFINE row == [status |-> "started", draft |-> NoDraft]
<1>4. row \in Row BY DEF Row
<1>5. RowChanges(main[c], k, row) BY <1>2, <1>3 DEF RowChanges
<1>6. RowStays(main[c], k) BY <1>2, <1>3 DEF RowStays
<1>7. runs' = runs \/ runs' = [runs EXCEPT ![main[c].run] = row]
  BY DEF AppendRunFails, StartRow
<1>. QED BY <1>3, <1>4, <1>5, <1>6, <1>7 DEF AppendRunFails, CallSteps, Stored

LEMMA GateEventAppendedSteps ==
  ASSUME AgentInv, NEW c \in Calls, failures' \in 0 .. MaxFailures, GateEventAppended(c)
  PROVE  \E k \in Main : CallSteps(c, k, TRUE)
<1>1. TypeOK /\ MainOk(main[c]) BY DEF AgentInv, CallOk
<1>2. PICK i \in 1 .. Len(GateEvents) - 1 :
        main[c].step = GateEvents[i] /\ Proceed(c, GateEvents[i + 1])
  BY DEF GateEventAppended
<1>3. i \in 1 .. 4 /\ i \in 0 .. 4 /\ i # 0 /\ i \in {1, 2, 3, 4} BY GateFacts
<1>4. main[c].step \in Gates BY <1>2, <1>3, GateFacts DEF Gates
<1>5. main[c].step \in MainEvents BY <1>4, MainEventSet
<1>6. PICK k \in Main : /\ main' = [main EXCEPT ![c] = k] /\ CallMove(main[c], k, TRUE)
                        /\ k.step \in MainEvents
  BY <1>1, <1>2, <1>3, <1>5, ProceedIs
<1>7. log' = Stored(log, c, main[c], TRUE) BY StoreEventIs DEF GateEventAppended
<1>8. k.step \notin {"captured", "failed"} /\ main[c].step \notin {"idle", "append_run"}
  BY <1>4, <1>6, MainEventSet DEF Gates, Later
<1>. QED BY <1>6, <1>7, <1>8, StepsAndRowStays DEF GateEventAppended

LEMMA HarnessInvokedSteps ==
  ASSUME AgentInv, NEW c \in Calls, failures' \in 0 .. MaxFailures, HarnessInvoked(c)
  PROVE  \E k \in Main : CallSteps(c, k, TRUE)
<1>. DEFINE m == main[c]
            k == [m EXCEPT !.step = "turn", !.holdsTools = TRUE]
<1>1. m \in Main /\ MainOk(m) /\ m.step = "harness_invoked" /\ m.number \in Nat
      /\ main \in [Calls -> Main]
  BY Typed DEF AgentInv, CallOk, HarnessInvoked, Main
<1>2. DOMAIN m = {"step", "run", "setup", "number", "events", "draft", "transcript", "holdsTools"}
  BY <1>1 DEF Main
<1>3. /\ k.step = "turn" /\ k.setup = m.setup /\ k.run = m.run /\ k.events = m.events
      /\ k.draft = m.draft
  BY <1>2
<1>4. k.holdsTools = TRUE BY <1>2
<1>5. "turn" \in MainStep BY StepNames
<1>6. k \in Main BY <1>1, <1>5 DEF Main
<1>7. main' = [main EXCEPT ![c] = k] BY <1>1 DEF HarnessInvoked
<1>. HIDE DEF k, m
<1>8. "harness_invoked" \in MainEvents /\ "harness_invoked" \in Gates BY MainEventSet DEF Gates
<1>9. m.events = 5
  <2>1. m.number \in 1 .. m.events /\ InPlace(m.number, m.step) /\ m.events = m.number
    BY <1>1, <1>8 DEF MainOk
  <2>. QED BY <1>1, <1>8, <2>1, GateNumber
<1>10. "turn" \notin MainEvents /\ "turn" \notin Gates BY MainEventSet DEF Gates, Later
<1>11. Prepared(m) /\ Permitted(m) /\ m.setup \in DOMAIN Setups BY <1>1 DEF MainOk
<1>12. MainOk(k) BY <1>3, <1>4, <1>9, <1>10, <1>11 DEF MainOk, Prepared, Permitted
<1>13. CallMove(m, k, TRUE) BY <1>1, <1>3, <1>4, <1>8, <1>10, <1>12 DEF CallMove, Ended
<1>14. log' = Stored(log, c, m, TRUE) BY StoreEventIs DEF HarnessInvoked, m
<1>15. CallSteps(c, k, TRUE)
  BY <1>1, <1>3, <1>6, <1>7, <1>13, <1>14, StepsAndRowStays DEF HarnessInvoked, m
<1>. QED BY <1>6, <1>15

LEMMA AfterTurnIs ==
  ASSUME TypeOK, NEW c \in Calls, MainOk(main[c]), NEW stored \in BOOLEAN,
         stored => main[c].step \in MainEvents,
         main[c].step \in {"turn", "harness_transcript_event"},
         NEW m \in Main, m.step = main[c].step, m.run = main[c].run, m.setup = main[c].setup,
         m.number = main[c].number, m.events = main[c].events, m.holdsTools = main[c].holdsTools,
         AfterTurn(c, m)
  PROVE  \E k \in Main : /\ main' = [main EXCEPT ![c] = k] /\ CallMove(main[c], k, stored)
                         /\ k.step \in Later
<1>1. /\ main[c] \in Main /\ main[c].events + 1 \in Nat
      /\ m.transcript \in 0 .. MaxTranscript /\ m.transcript \in Int
  BY Typed, AgentAssumption DEF Main
<1>2. CASE m.transcript > 0
  <2>. DEFINE m2 == [m EXCEPT !.transcript = @ - 1]
              k == Appended(m2, main[c].events + 1, "harness_transcript_event")
  <2>1. m.transcript - 1 \in 0 .. MaxTranscript BY <1>1, <1>2, AgentAssumption
  <2>2. m2 \in Main BY <2>1 DEF Main
  <2>3. /\ m2.step = m.step /\ m2.run = m.run /\ m2.setup = m.setup /\ m2.number = m.number
        /\ m2.events = m.events /\ m2.draft = m.draft
    BY DEF Main
  <2>4. m2.holdsTools = m.holdsTools BY DEF Main
  <2>5. main' = [main EXCEPT ![c] = k]
    BY <1>2, AppendEventIs DEF AfterTurn, NextNumber
  <2>. HIDE DEF m2
  <2>6. CallMove(main[c], k, stored) BY <1>1, <2>2, <2>3, <2>4, LaterMoves DEF Later
  <2>7. "harness_transcript_event" \in MainStep BY StepNames DEF Later
  <2>8. k \in Main /\ k.step = "harness_transcript_event" BY <1>1, <2>2, <2>7, AppendedFields
  <2>. QED BY <2>5, <2>6, <2>8 DEF Later
<1>3. CASE ~(m.transcript > 0)
  <2>1. PICK type \in Later :
          type = IF m.draft = NoDraft THEN "run_failed" ELSE "draft_captured"
    BY DEF Later
  <2>. DEFINE k == Appended(m, main[c].events + 1, type)
  <2>2. main' = [main EXCEPT ![c] = k] BY <1>3, <2>1, AppendEventIs DEF AfterTurn, NextNumber
  <2>3. CallMove(main[c], k, stored) BY <1>1, <2>1, LaterMoves
  <2>4. type \in MainStep BY StepNames
  <2>5. k \in Main /\ k.step \in Later BY <1>1, <2>4, AppendedFields
  <2>. QED BY <2>2, <2>3, <2>5
<1>. QED BY <1>2, <1>3

LEMMA TurnReturnsSteps ==
  ASSUME AgentInv, NEW c \in Calls, failures' \in 0 .. MaxFailures, TurnReturns(c)
  PROVE  \E k \in Main : CallSteps(c, k, FALSE)
<1>1. TypeOK /\ MainOk(main[c]) /\ main[c] \in Main /\ main[c].step = "turn"
  BY Typed DEF AgentInv, CallOk, TurnReturns
<1>2. PICK draft \in Drafts \cup {NoDraft}, n \in 0 .. MaxTranscript :
        AfterTurn(c, [main[c] EXCEPT !.draft = draft, !.transcript = n])
  BY DEF TurnReturns
<1>3. PICK m : m = [main[c] EXCEPT !.draft = draft, !.transcript = n] OBVIOUS
<1>4. m \in Main BY <1>1, <1>3 DEF Main
<1>5. /\ m.step = main[c].step /\ m.run = main[c].run /\ m.setup = main[c].setup
      /\ m.number = main[c].number /\ m.events = main[c].events
  BY <1>1, <1>3 DEF Main
<1>6. m.holdsTools = main[c].holdsTools BY <1>1, <1>3 DEF Main
<1>7. AfterTurn(c, m) BY <1>2, <1>3
<1>8. PICK k \in Main : /\ main' = [main EXCEPT ![c] = k] /\ CallMove(main[c], k, FALSE)
                        /\ k.step \in Later
  BY <1>1, <1>4, <1>5, <1>6, <1>7, AfterTurnIs
<1>9. log' = Stored(log, c, main[c], FALSE) BY DEF TurnReturns, Stored
<1>. QED BY <1>1, <1>8, <1>9, StepsAndRowStays DEF TurnReturns, Later

LEMMA TurnThrowsSteps ==
  ASSUME AgentInv, NEW c \in Calls, failures' \in 0 .. MaxFailures, TurnThrows(c)
  PROVE  \E k \in Main : CallSteps(c, k, FALSE)
<1>1. TypeOK /\ MainOk(main[c]) /\ main[c].step = "turn" BY DEF AgentInv, CallOk, TurnThrows
<1>2. PICK k \in Main : /\ main' = [main EXCEPT ![c] = k] /\ CallMove(main[c], k, FALSE)
                        /\ k.step \in {"run_failed", "rejected"}
  BY <1>1, CatchForeignIs DEF TurnThrows, Ended
<1>3. log' = Stored(log, c, main[c], FALSE) BY DEF TurnThrows, Stored
<1>. QED BY <1>1, <1>2, <1>3, StepsAndRowStays DEF TurnThrows

LEMMA TranscriptEventAppendedSteps ==
  ASSUME AgentInv, NEW c \in Calls, failures' \in 0 .. MaxFailures, TranscriptEventAppended(c)
  PROVE  \E k \in Main : CallSteps(c, k, TRUE)
<1>1. TypeOK /\ MainOk(main[c]) /\ main[c] \in Main /\ main[c].step = "harness_transcript_event"
  BY Typed DEF AgentInv, CallOk, TranscriptEventAppended
<1>2. main[c].step \in MainEvents BY <1>1, MainEventSet DEF Later
<1>3. PICK k \in Main : /\ main' = [main EXCEPT ![c] = k] /\ CallMove(main[c], k, TRUE)
                        /\ k.step \in Later
  BY <1>1, <1>2, AfterTurnIs DEF TranscriptEventAppended
<1>4. log' = Stored(log, c, main[c], TRUE) BY StoreEventIs DEF TranscriptEventAppended
<1>. QED BY <1>1, <1>3, <1>4, StepsAndRowStays DEF TranscriptEventAppended, Later

\* A call that goes on without an event, with its draft or with its failure.
LEMMA WentMoves ==
  ASSUME TypeOK, NEW c \in Calls, MainOk(main[c]), NEW stored \in BOOLEAN,
         NEW step, Goto(c, step),
         \/ main[c].step = "draft_captured" /\ step = "replace_captured" /\ stored
         \/ main[c].step = "replace_captured" /\ step = "captured" /\ ~stored
         \/ main[c].step = "run_failed" /\ step = "replace_failed" /\ stored
         \/ main[c].step = "replace_failed" /\ step = "failed" /\ ~stored
  PROVE  \E k \in Main : /\ main' = [main EXCEPT ![c] = k] /\ CallMove(main[c], k, stored)
                         /\ k.step = step
<1>. DEFINE m == main[c]
            k == Went(main[c], step)
<1>1. m \in Main /\ step \in MainStep BY Typed, StepNames DEF Ended
<1>2. /\ k \in Main
      /\ k.step = step /\ k.number = m.number /\ k.events = m.events /\ k.run = m.run
      /\ k.setup = m.setup /\ k.draft = m.draft /\ k.holdsTools = m.holdsTools
  BY <1>1, WentFields
<1>3. main' = [main EXCEPT ![c] = k] BY GotoIs
<1>. HIDE DEF k, m
<1>4. step \notin MainEvents /\ step \notin Gates BY MainEventSet DEF Gates, Later
<1>5. m.step \in Later \/ ~stored BY DEF Later, m
<1>6. MainOk(m) BY DEF m
<1>7. MainOk(k) BY <1>2, <1>4, <1>6 DEF MainOk, Prepared, Permitted, m
<1>8. CallMove(m, k, stored)
  BY <1>2, <1>4, <1>5, <1>7, MainEventSet DEF CallMove, Ended, m
<1>. QED BY <1>2, <1>3, <1>8 DEF m

LEMMA DraftCapturedSteps ==
  ASSUME AgentInv, NEW c \in Calls, failures' \in 0 .. MaxFailures, DraftCaptured(c)
  PROVE  \E k \in Main : CallSteps(c, k, TRUE)
<1>1. TypeOK /\ MainOk(main[c]) /\ main[c].step = "draft_captured"
  BY DEF AgentInv, CallOk, DraftCaptured
<1>2. PICK k \in Main : /\ main' = [main EXCEPT ![c] = k] /\ CallMove(main[c], k, TRUE)
                        /\ k.step = "replace_captured"
  BY <1>1, WentMoves DEF DraftCaptured
<1>3. log' = Stored(log, c, main[c], TRUE) BY StoreEventIs DEF DraftCaptured
<1>. QED BY <1>1, <1>2, <1>3, StepsAndRowStays DEF DraftCaptured

LEMMA EventFailsSteps ==
  ASSUME AgentInv, NEW c \in Calls, failures' \in 0 .. MaxFailures, EventFails(c)
  PROVE  \E k \in Main, stored \in BOOLEAN : CallSteps(c, k, stored)
<1>1. TypeOK /\ MainOk(main[c]) /\ main[c].step \in MainEvents \ {"run_failed"}
  BY DEF AgentInv, CallOk, EventFails
<1>2. PICK f \in Failures : StoreEvent(c, f.done) BY DEF EventFails
<1>3. PICK stored \in BOOLEAN : stored = f.done BY DEF Failures
<1>4. log' = Stored(log, c, main[c], stored) BY <1>2, <1>3, StoreEventIs
<1>5. main[c].step \notin Ended \cup {"idle", "append_run", "run_failed", "replace_failed"}
  BY <1>1, MainEventSet DEF Gates, Later, Ended
<1>6. PICK k \in Main : /\ main' = [main EXCEPT ![c] = k] /\ CallMove(main[c], k, stored)
                        /\ k.step \in {"run_failed", "rejected"}
  BY <1>1, <1>5, CatchForeignIs DEF EventFails
<1>. QED BY <1>1, <1>4, <1>5, <1>6, StepsAndRowStays DEF EventFails

LEMMA CapturedReplacedSteps ==
  ASSUME AgentInv, NEW c \in Calls, failures' \in 0 .. MaxFailures, CapturedReplaced(c)
  PROVE  \E k \in Main : CallSteps(c, k, FALSE)
<1>1. /\ TypeOK /\ MainOk(main[c]) /\ main[c] \in Main /\ main[c].step = "replace_captured"
  BY Typed DEF AgentInv, CallOk, CapturedReplaced
<1>2. PICK k \in Main : /\ main' = [main EXCEPT ![c] = k] /\ CallMove(main[c], k, FALSE)
                        /\ k.step = "captured"
  BY <1>1, WentMoves DEF CapturedReplaced
<1>. DEFINE row == [status |-> "draft_captured", draft |-> main[c].draft]
<1>3. row \in Row BY <1>1 DEF Row, Main
<1>4. runs' = [runs EXCEPT ![main[c].run] = row] BY DEF CapturedReplaced, ReplaceRow
<1>5. RowChanges(main[c], k, row) BY <1>1, <1>2 DEF RowChanges
<1>. QED BY <1>2, <1>3, <1>4, <1>5 DEF CapturedReplaced, CallSteps, Stored

LEMMA ReplaceCapturedFailsSteps ==
  ASSUME AgentInv, NEW c \in Calls, failures' \in 0 .. MaxFailures, ReplaceCapturedFails(c)
  PROVE  \E k \in Main : CallSteps(c, k, FALSE)
<1>1. /\ TypeOK /\ MainOk(main[c]) /\ main[c] \in Main /\ main[c].step = "replace_captured"
  BY Typed DEF AgentInv, CallOk, ReplaceCapturedFails
<1>2. PICK k \in Main : /\ main' = [main EXCEPT ![c] = k] /\ CallMove(main[c], k, FALSE)
                        /\ k.step \in {"run_failed", "rejected"}
  BY <1>1, CatchForeignIs DEF ReplaceCapturedFails, Ended
<1>. DEFINE row == [status |-> "draft_captured", draft |-> main[c].draft]
<1>3. row \in Row BY <1>1 DEF Row, Main
<1>4. runs' = runs \/ runs' = [runs EXCEPT ![main[c].run] = row]
  BY DEF ReplaceCapturedFails, ReplaceRow
<1>5. RowChanges(main[c], k, row) BY <1>1, <1>2 DEF RowChanges
<1>6. RowStays(main[c], k) BY <1>1, <1>2 DEF RowStays
<1>. QED BY <1>2, <1>3, <1>4, <1>5, <1>6 DEF ReplaceCapturedFails, CallSteps, Stored

LEMMA RunFailedSteps ==
  ASSUME AgentInv, NEW c \in Calls, failures' \in 0 .. MaxFailures, RunFailed(c)
  PROVE  \E k \in Main : CallSteps(c, k, TRUE)
<1>1. TypeOK /\ MainOk(main[c]) /\ main[c].step = "run_failed" BY DEF AgentInv, CallOk, RunFailed
<1>2. PICK k \in Main : /\ main' = [main EXCEPT ![c] = k] /\ CallMove(main[c], k, TRUE)
                        /\ k.step = "replace_failed"
  BY <1>1, WentMoves DEF RunFailed
<1>3. log' = Stored(log, c, main[c], TRUE) BY StoreEventIs DEF RunFailed
<1>. QED BY <1>1, <1>2, <1>3, StepsAndRowStays DEF RunFailed

LEMMA FailedReplacedSteps ==
  ASSUME AgentInv, NEW c \in Calls, failures' \in 0 .. MaxFailures, FailedReplaced(c)
  PROVE  \E k \in Main : CallSteps(c, k, FALSE)
<1>1. TypeOK /\ MainOk(main[c]) /\ main[c].step = "replace_failed"
  BY DEF AgentInv, CallOk, FailedReplaced
<1>2. PICK k \in Main : /\ main' = [main EXCEPT ![c] = k] /\ CallMove(main[c], k, FALSE)
                        /\ k.step = "failed"
  BY <1>1, WentMoves DEF FailedReplaced
<1>. DEFINE row == [status |-> "failed", draft |-> NoDraft]
<1>3. row \in Row BY DEF Row
<1>4. runs' = [runs EXCEPT ![main[c].run] = row] BY DEF FailedReplaced, ReplaceRow
<1>5. RowChanges(main[c], k, row) BY <1>1, <1>2 DEF RowChanges
<1>. QED BY <1>2, <1>3, <1>4, <1>5 DEF FailedReplaced, CallSteps, Stored

LEMMA CatchFailsSteps ==
  ASSUME AgentInv, NEW c \in Calls, failures' \in 0 .. MaxFailures, CatchFails(c)
  PROVE  \E k \in Main, stored \in BOOLEAN : CallSteps(c, k, stored)
<1>1. TypeOK /\ MainOk(main[c]) BY DEF AgentInv, CallOk
<1>2. PICK f \in Failures :
        \/ main[c].step = "run_failed" /\ StoreEvent(c, f.done) /\ UNCHANGED runs
        \/ /\ main[c].step = "replace_failed" /\ ReplaceRow(c, f.done, "failed", NoDraft)
           /\ UNCHANGED log
  BY DEF CatchFails
<1>3. CASE main[c].step = "run_failed" /\ StoreEvent(c, f.done) /\ UNCHANGED runs
  <2>1. PICK stored \in BOOLEAN : stored = f.done BY DEF Failures
  <2>2. log' = Stored(log, c, main[c], stored) BY <1>3, <2>1, StoreEventIs
  <2>3. PICK k \in Main : /\ main' = [main EXCEPT ![c] = k] /\ CallMove(main[c], k, stored)
                          /\ k.step = "rejected"
    BY <1>1, <1>3, RejectIs, MainEventSet DEF CatchFails, Ended, Later
  <2>. QED BY <1>3, <2>2, <2>3, StepsAndRowStays DEF CatchFails
<1>4. CASE /\ main[c].step = "replace_failed" /\ ReplaceRow(c, f.done, "failed", NoDraft)
           /\ UNCHANGED log
  <2>1. PICK k \in Main : /\ main' = [main EXCEPT ![c] = k] /\ CallMove(main[c], k, FALSE)
                          /\ k.step = "rejected"
    BY <1>1, <1>4, RejectIs DEF CatchFails, Ended
  <2>. DEFINE row == [status |-> "failed", draft |-> NoDraft]
  <2>2. row \in Row BY DEF Row
  <2>3. runs' = runs \/ runs' = [runs EXCEPT ![main[c].run] = row]
    BY <1>4 DEF ReplaceRow
  <2>4. RowChanges(main[c], k, row) BY <1>4, <2>1 DEF RowChanges
  <2>5. RowStays(main[c], k) BY <1>4, <2>1 DEF RowStays
  <2>6. CallSteps(c, k, FALSE)
    BY <1>4, <2>1, <2>2, <2>3, <2>4, <2>5 DEF CatchFails, CallSteps, Stored
  <2>. QED BY <2>6
<1>. QED BY <1>2, <1>3, <1>4

-------------------------------------------------------------------------------
\* A step of the tool call s, which becomes t, and of the events array of its call.
ToolEntry(t) == [call |-> t.of, number |-> t.number, type |-> t.step, tool |-> t.call.name]
ToolStored(E, t, stored) == IF stored THEN E \cup {ToolEntry(t)} ELSE E

SameCall(m, k) ==
  /\ k.step = m.step /\ k.run = m.run /\ k.setup = m.setup /\ k.number = m.number
  /\ k.draft = m.draft /\ k.holdsTools = m.holdsTools

ToolSteps(s, t, k, stored) ==
  /\ t.of \in Calls /\ t.step # "closed" /\ main[t.of].holdsTools
  /\ main' = [main EXCEPT ![t.of] = k] /\ SameCall(main[t.of], k)
  /\ \/ k.events = main[t.of].events + 1 /\ t.number = k.events
     \/ k.events = main[t.of].events /\ t.step \notin ToolEvents
  /\ stored => tool[s].step \in ToolEvents /\ tool[s].of = t.of
  /\ log' = ToolStored(log, tool[s], stored)
  /\ tool' = [tool EXCEPT ![s] = t]
  /\ ToolGuarded(t, main[t.of].setup, Own(t.of, log'))
  /\ runs' = runs /\ review' = review
  /\ failures' \in 0 .. MaxFailures

LEMMA ToolFrame ==
  ASSUME AgentInv, NEW s \in Slots, NEW t \in Tool, NEW k \in Main, NEW stored \in BOOLEAN,
         ToolSteps(s, t, k, stored)
  PROVE  LET c == t.of
             E == Own(c, log)
             F == Own(c, log')
         IN  /\ main'[c] = k /\ \A d \in Calls \ {c} : main'[d] = main[d]
             /\ \A d \in Calls \ {c} : Own(d, log') = Own(d, log)
             /\ \/ F = E
                \/ /\ F = E \cup {ToolEntry(tool[s])}
                   /\ tool[s].step \in ToolEvents /\ tool[s].of = c
                   /\ ToolOk(tool[s], main[c], E)
             /\ tool'[s] = t /\ \A q \in Slots \ {s} : tool'[q] = tool[q]
             /\ TypeOK' /\ IsFiniteSet(log')
             /\ \A d \in Calls : SameCall(main[d], main'[d])
             /\ \A d \in Calls : \A type : Has(Own(d, log), type) => Has(Own(d, log'), type)
<1>. DEFINE c == t.of
            E == Own(c, log)
            F == Own(c, log')
<1>1. TypeOK /\ c \in Calls /\ IsFiniteSet(log) BY DEF AgentInv, ToolSteps
<1>2. main'[c] = k /\ \A d \in Calls \ {c} : main'[d] = main[d] BY <1>1, Typed DEF ToolSteps
<1>3. \A d \in Calls \ {c} : Own(d, log') = Own(d, log)
  BY DEF ToolSteps, ToolStored, ToolEntry, Own
<1>4. \/ F = E
      \/ F = E \cup {ToolEntry(tool[s])} /\ stored
  BY DEF ToolSteps, ToolStored, ToolEntry, Own
<1>5. stored => tool[s].step \in ToolEvents /\ tool[s].of = c BY DEF ToolSteps
<1>6. stored => ToolOk(tool[s], main[c], E)
  <2>1. stored => tool[s].step # "closed" BY <1>5 DEF ToolEvents
  <2>. QED BY <1>5, <2>1 DEF AgentInv, SlotOk
<1>7. tool'[s] = t /\ \A q \in Slots \ {s} : tool'[q] = tool[q] BY <1>1, Typed DEF ToolSteps
<1>8. TypeOK'
  <2>1. main' \in [Calls -> Main] /\ tool' \in [Slots -> Tool]
    BY <1>1, Typed DEF ToolSteps
  <2>2. tool[s] \in Tool BY <1>1, Typed
  <2>3. stored => ToolEntry(tool[s]) \in AgentRunEvent
    BY <1>1, <1>5, <2>2, AgentAssumption DEF ToolEntry, AgentRunEvent, Tool
  <2>4. log' \in SUBSET AgentRunEvent BY <1>1, <2>3, Typed DEF ToolSteps, ToolStored
  <2>. QED BY <1>1, <2>1, <2>4, Typed, TypedNext DEF ToolSteps
<1>9. IsFiniteSet(log') BY <1>1, FS_AddElement DEF ToolSteps, ToolStored
<1>10. \A d \in Calls : SameCall(main[d], main'[d]) BY <1>2 DEF ToolSteps, SameCall
<1>11. \A d \in Calls : \A type : Has(Own(d, log), type) => Has(Own(d, log'), type)
  BY <1>3, <1>4 DEF Has
<1>. QED BY <1>2, <1>3, <1>4, <1>5, <1>6, <1>7, <1>8, <1>9, <1>10, <1>11

LEMMA ToolStepKeepsCalls ==
  ASSUME AgentInv, NEW s \in Slots, NEW t \in Tool, NEW k \in Main, NEW stored \in BOOLEAN,
         ToolSteps(s, t, k, stored), NEW d \in Calls
  PROVE  CallOk(d)'
<1>. DEFINE c == t.of
            m == main[c]
            E == Own(c, log)
            F == Own(c, log')
            e == ToolEntry(tool[s])
<1>1. CallOk(d) /\ TypeOK BY DEF AgentInv
<1>2. main'[c] = k /\ (d # c => main'[d] = main[d] /\ Own(d, log') = Own(d, log))
  BY ToolFrame
<1>3. CASE d # c BY <1>1, <1>2, <1>3 DEF CallOk
<1>4. CASE d = c
  <2>1. /\ MainOk(m) /\ Numbered(E, m.events) /\ Pending(E, m) /\ Outcome(E, m)
        /\ m \in Main /\ tool[s] \in Tool
    BY <1>1, <1>4, Typed DEF CallOk
  <2>2. /\ m.number \in Nat /\ m.events \in Nat /\ k.number \in Nat /\ k.events \in Nat
        /\ tool[s].number \in Nat
    BY <2>1 DEF Main, Tool
  <2>3. \A f \in E : f.number \in Nat
    BY <1>1, OwnTyped DEF AgentRunEvent
  <2>4. \/ F = E
        \/ /\ F = E \cup {e} /\ tool[s].step \in ToolEvents /\ tool[s].of = c
           /\ ToolOk(tool[s], m, E)
    BY ToolFrame
  <2>5. SameCall(m, k) /\ k.events >= m.events /\ m.holdsTools
    BY <2>2 DEF ToolSteps
  <2>6. e.number = tool[s].number /\ e.type = tool[s].step BY DEF ToolEntry
  <2>. HIDE DEF e, E, F, m
  <2>7. MainOk(k)
    <3>1. m.step \notin {"idle", "append_run"} /\ m.step \notin Gates
      BY <2>1, <2>5 DEF MainOk
    <3>. QED BY <2>1, <2>2, <2>5, <3>1 DEF MainOk, SameCall, Prepared, Permitted
  <2>8. CASE F = E
    <3>1. Numbered(F, k.events) BY <2>1, <2>2, <2>3, <2>5, <2>8, NumberedLonger
    <3>2. Pending(F, k) BY <2>1, <2>5, <2>8 DEF Pending, SameCall
    <3>3. Outcome(F, k) BY <2>1, <2>5, <2>8 DEF Outcome, SameCall
    <3>. QED BY <1>2, <1>4, <2>7, <3>1, <3>2, <3>3 DEF CallOk, F
  <2>9. CASE /\ F = E \cup {e} /\ tool[s].step \in ToolEvents /\ tool[s].of = c
             /\ ToolOk(tool[s], m, E)
    <3>1. ToolPending(tool[s], m, E) BY <2>9 DEF ToolOk, ToolEvents
    <3>2. /\ e.number \in 6 .. m.events /\ (\A f \in E : f.number # e.number)
          /\ (m.step \in MainEvents => m.number # e.number)
      BY <2>6, <2>9, <3>1 DEF ToolPending
    <3>3. e.type \notin MainEvents /\ e.type \notin Gates /\ e.type \notin Later
      BY <2>6, <2>9, MainEventSet
    <3>4. InPlace(e.number, e.type) BY <2>2, <2>6, <3>2, <3>3 DEF InPlace
    <3>5. \A f \in E \cup {e} : f.number \in Nat BY <2>2, <2>3, <2>6
    <3>6. e.number =< m.events BY <2>2, <3>2
    <3>7. e.type # "harness_transcript_event" BY <3>3 DEF Later
    <3>8. Numbered(F, m.events)
      BY <2>1, <2>2, <2>9, <3>2, <3>3, <3>4, <3>5, <3>6, <3>7, NumberedGrows
    <3>9. Numbered(F, k.events) BY <2>2, <2>5, <2>9, <3>5, <3>8, NumberedLonger
    <3>10. Pending(F, k) BY <2>1, <2>5, <2>9, <3>2, <3>3 DEF Pending, SameCall
    <3>11. \A type \in Later : Has(F, type) <=> Has(E, type) BY <2>9, <3>3 DEF Has
    <3>12. Outcome(F, k) BY <2>1, <2>5, <3>11 DEF Outcome, SameCall, Later
    <3>. QED BY <1>2, <1>4, <2>7, <3>9, <3>10, <3>12 DEF CallOk, F
  <2>. QED BY <2>4, <2>8, <2>9
<1>. QED BY <1>3, <1>4

LEMMA ToolStepKeepsSlots ==
  ASSUME AgentInv, NEW s \in Slots, NEW t \in Tool, NEW k \in Main, NEW stored \in BOOLEAN,
         ToolSteps(s, t, k, stored), NEW q \in Slots, tool'[q].step # "closed"
  PROVE  SlotOk(q)'
<1>. DEFINE c == t.of
            m == main[c]
            E == Own(c, log)
            F == Own(c, log')
<1>1. TypeOK /\ c \in Calls /\ m \in Main BY Typed DEF AgentInv, ToolSteps
<1>2. /\ m.number \in Nat /\ m.events \in Nat /\ k.number \in Nat /\ k.events \in Nat
      /\ tool \in [Slots -> Tool]
  BY <1>1, Typed DEF Main
<1>3. SameCall(m, k) /\ k.events >= m.events /\ m.holdsTools /\ main'[c] = k
  <2>1. main'[c] = k BY ToolFrame
  <2>2. SameCall(m, k) /\ m.holdsTools BY DEF ToolSteps
  <2>3. k.events = m.events + 1 \/ k.events = m.events BY DEF ToolSteps
  <2>. QED BY <1>2, <2>1, <2>2, <2>3
<1>4. tool'[s] = t /\ \A p \in Slots \ {s} : tool'[p] = tool[p] BY ToolFrame
<1>5. \A f \in F : f.number =< m.events
  <2>1. CallOk(c) BY <1>1 DEF AgentInv
  <2>2. \A f \in E : f.number =< m.events BY <2>1 DEF CallOk, Numbered
  <2>3. \/ F = E
        \/ /\ F = E \cup {ToolEntry(tool[s])} /\ tool[s].step \in ToolEvents
           /\ ToolOk(tool[s], m, E)
    BY ToolFrame
  <2>4. CASE F = E BY <2>2, <2>4
  <2>5. CASE /\ F = E \cup {ToolEntry(tool[s])} /\ tool[s].step \in ToolEvents
             /\ ToolOk(tool[s], m, E)
    <3>1. tool[s].number \in 6 .. m.events BY <2>5 DEF ToolOk, ToolPending, ToolEvents
    <3>2. ToolEntry(tool[s]).number =< m.events BY <1>2, <3>1 DEF ToolEntry
    <3>. QED BY <2>2, <2>5, <3>2
  <2>. QED BY <2>3, <2>4, <2>5
<1>6. CASE q = s
  <2>1. t.step \in ToolEvents => t.number = m.events + 1 /\ k.events = m.events + 1
    BY DEF ToolSteps
  <2>2. m.step \in MainEvents => m.number =< m.events
    BY <1>1, <1>2 DEF AgentInv, CallOk, MainOk
  <2>3. t.step \in ToolEvents => m.events >= 5
    BY <1>1, <1>3 DEF AgentInv, CallOk, MainOk
  <2>4. \A f \in F : f.number \in Nat
    <3>1. log' \subseteq AgentRunEvent BY ToolFrame DEF TypeOK
    <3>. QED BY <3>1 DEF Own, AgentRunEvent
  <2>5. ToolPending(t, k, F)
    <3>. HIDE DEF F, m
    <3>. QED BY <1>2, <1>3, <1>5, <2>1, <2>2, <2>3, <2>4 DEF ToolPending, SameCall
  <2>6. ToolGuarded(t, k.setup, F) BY <1>3 DEF ToolSteps, SameCall
  <2>7. ToolOk(t, k, F) BY <1>1, <1>3, <2>5, <2>6 DEF ToolOk, SameCall
  <2>. QED BY <1>3, <1>4, <1>6, <2>7 DEF SlotOk
<1>7. CASE q # s
  <2>1. tool'[q] = tool[q] /\ tool[q] \in Tool BY <1>2, <1>4, <1>7
  <2>2. SlotOk(q) /\ tool[q].of \in Calls BY <2>1 DEF AgentInv, SlotOk, ToolOk
  <2>3. CASE tool[q].of # c
    <3>1. main'[tool[q].of] = main[tool[q].of] /\ Own(tool[q].of, log') = Own(tool[q].of, log)
      BY <2>2, <2>3, ToolFrame
    <3>. QED BY <2>1, <2>2, <3>1 DEF SlotOk
  <2>4. CASE tool[q].of = c
    <3>1. ToolOk(tool[q], m, E) BY <2>2, <2>4 DEF SlotOk
    <3>2. E \subseteq F BY ToolFrame
    <3>3. ASSUME tool[q].step \in ToolEvents, NEW f \in F \ E
          PROVE  f.number # tool[q].number
      <4>1. f = ToolEntry(tool[s]) /\ tool[s].step \in ToolEvents /\ tool[s].of = c
        BY <3>3, ToolFrame
      <4>2. tool[s].number # tool[q].number
        BY <1>7, <2>4, <3>3, <4>1 DEF AgentInv, SlotsApart
      <4>. QED BY <4>1, <4>2 DEF ToolEntry
    <3>4. m.holdsTools /\ k.step \in MainEvents => m.step \in MainEvents /\ k.number = m.number
      BY <1>3 DEF SameCall
    <3>5. m.holdsTools => k.holdsTools /\ k.setup = m.setup BY <1>3 DEF SameCall
    <3>6. ToolOk(tool[q], k, F)
      <4>. HIDE DEF F, E, m
      <4>. QED BY <1>1, <1>3, <2>1, <3>1, <3>2, <3>3, <3>4, <3>5, ToolKept
    <3>. QED BY <1>3, <2>1, <2>4, <3>6 DEF SlotOk
  <2>. QED BY <2>3, <2>4
<1>. QED BY <1>6, <1>7

\* Steps that leave the calls where they were, and add to the audit only, keep rows and reviews.
LEMMA RowKept ==
  ASSUME NEW r \in Runs, RowOk(r), runs'[r] = runs[r],
         \A d \in Calls : SameCall(main[d], main'[d]),
         \A d \in Calls : \A type : Has(Own(d, log), type) => Has(Own(d, log'), type)
  PROVE  RowOk(r)'
<1>1. CallsOf(r)' = CallsOf(r) BY DEF CallsOf, SameCall
<1>2. \A d \in CallsOf(r) : d \in Calls BY DEF CallsOf
<1>3. \A d \in CallsOf(r) : main'[d].step = main[d].step /\ main'[d].draft = main[d].draft
  BY <1>2 DEF SameCall
<1>4. runs'[r].status = "none" =>
        \A d \in CallsOf(r)' : main'[d].step \in {"append_run", "rejected"}
  BY <1>1, <1>3 DEF RowOk
<1>5. runs'[r].status = "started" =>
        \E d \in CallsOf(r)' : main'[d].step \notin {"captured", "failed"}
  BY <1>1, <1>3 DEF RowOk
<1>6. runs'[r].status = "draft_captured" => \E d \in CallsOf(r)' :
        /\ Has(Own(d, log'), "draft_captured") /\ main'[d].draft = runs'[r].draft
        /\ main'[d].step \in {"captured", "run_failed", "replace_failed", "rejected"}
  BY <1>1, <1>2, <1>3 DEF RowOk
<1>7. runs'[r].status = "failed" => \E d \in CallsOf(r)' :
        Has(Own(d, log'), "run_failed") /\ main'[d].step \in {"failed", "rejected"}
  BY <1>1, <1>2, <1>3 DEF RowOk
<1>. QED BY <1>4, <1>5, <1>6, <1>7 DEF RowOk

LEMMA ReviewKept ==
  ASSUME NEW d \in Calls, ReviewOk(d), review'[d] = review[d], SameCall(main[d], main'[d]),
         \A type : Has(Own(d, log), type) => Has(Own(d, log'), type)
  PROVE  ReviewOk(d)'
<1>. QED BY DEF ReviewOk, SameCall

LEMMA ToolStepKeepsInv ==
  ASSUME AgentInv, NEW s \in Slots, NEW t \in Tool, NEW k \in Main, NEW stored \in BOOLEAN,
         ToolSteps(s, t, k, stored)
  PROVE  AgentInv'
<1>1. TypeOK' /\ IsFiniteSet(log') BY ToolFrame
<1>2. \A d \in Calls : SameCall(main[d], main'[d]) BY ToolFrame
<1>3. \A d \in Calls : \A type : Has(Own(d, log), type) => Has(Own(d, log'), type) BY ToolFrame
<1>4. \A r \in Runs : RowOk(r)'
  <2>. SUFFICES ASSUME NEW r \in Runs PROVE RowOk(r)' OBVIOUS
  <2>1. RowOk(r) /\ runs'[r] = runs[r] BY DEF AgentInv, ToolSteps
  <2>. QED BY <1>2, <1>3, <2>1, RowKept
<1>5. \A d \in Calls : ReviewOk(d)'
  <2>. SUFFICES ASSUME NEW d \in Calls PROVE ReviewOk(d)' OBVIOUS
  <2>1. ReviewOk(d) /\ review'[d] = review[d] BY DEF AgentInv, ToolSteps
  <2>. QED BY <1>2, <1>3, <2>1, ReviewKept
<1>6. \A d \in Calls : CallOk(d)' BY ToolStepKeepsCalls
<1>7. \A q \in Slots : tool'[q].step # "closed" => SlotOk(q)' BY ToolStepKeepsSlots
<1>8. SlotsApart'
  <2>1. tool'[s] = t /\ \A q \in Slots \ {s} : tool'[q] = tool[q] BY ToolFrame
  <2>2. main[t.of].events \in Nat /\ t.of \in Calls BY Typed DEF AgentInv, Main, ToolSteps
  <2>3. t.step \in ToolEvents => t.number = main[t.of].events + 1 BY DEF ToolSteps
  <2>4. ASSUME NEW q \in Slots \ {s}, tool[q].step \in ToolEvents, tool[q].of = t.of
        PROVE  tool[q].number \in 6 .. main[t.of].events
    <3>1. tool[q].step # "closed" BY <2>4 DEF ToolEvents
    <3>2. SlotOk(q) BY <3>1 DEF AgentInv
    <3>. QED BY <2>4, <3>1, <3>2 DEF SlotOk, ToolOk, ToolPending
  <2>5. \A q \in Slots \ {s} :
          t.step \in ToolEvents /\ tool[q].step \in ToolEvents /\ tool[q].of = t.of =>
            tool[q].number # t.number
    BY <2>2, <2>3, <2>4
  <2>. QED BY <2>1, <2>5 DEF AgentInv, SlotsApart
<1>. QED BY <1>1, <1>4, <1>5, <1>6, <1>7, <1>8 DEF AgentInv

-------------------------------------------------------------------------------
\* A step of the review of the draft of c, which becomes v.
ReviewEntry(c, type) == [call |-> c, number |-> 0, type |-> type, tool |-> NoTool]

ReviewSteps(c, v, type, stored) ==
  /\ main[c].step = "captured" /\ type \in ReviewEvents
  /\ log' = IF stored THEN log \cup {ReviewEntry(c, type)} ELSE log
  /\ review' = [review EXCEPT ![c] = v]
  /\ v.step \in {"requesting", "requested"} =>
       /\ Has(Own(c, log'), "draft_validation_evaluated")
       /\ ValidationDecision(main[c].draft, v.context) = "accept"
  /\ v.step = "requested" => Has(Own(c, log'), "merchant_review_requested")
  /\ main' = main /\ tool' = tool /\ runs' = runs
  /\ failures' \in 0 .. MaxFailures

LEMMA ReviewStepKeepsInv ==
  ASSUME AgentInv, NEW c \in Calls, NEW v \in Review, NEW type, NEW stored \in BOOLEAN,
         ReviewSteps(c, v, type, stored)
  PROVE  AgentInv'
<1>. DEFINE e == ReviewEntry(c, type)
<1>1. TypeOK /\ IsFiniteSet(log) BY DEF AgentInv
<1>2. e.number = 0 /\ e.type = type /\ e.call = c BY DEF ReviewEntry
<1>3. type \notin MainEvents /\ type \notin ToolEvents /\ type \notin Later
  BY MainEventSet DEF ReviewSteps
<1>4. e \in AgentRunEvent BY DEF ReviewEntry, AgentRunEvent, ReviewSteps, NoTool
<1>. HIDE DEF e
<1>5. \A d \in Calls : Own(d, log') = Own(d, log) \/ Own(d, log') = Own(d, log) \cup {e}
  <2>1. log' = log \/ log' = log \cup {e} BY DEF ReviewSteps, e
  <2>2. CASE log' = log BY <2>2
  <2>3. CASE log' = log \cup {e} BY <2>3 DEF Own
  <2>. QED BY <2>1, <2>2, <2>3
<1>6. \A d \in Calls : \A t : Has(Own(d, log), t) => Has(Own(d, log'), t) BY <1>5 DEF Has
<1>7. \A d \in Calls : \A t : t # type /\ Has(Own(d, log'), t) => Has(Own(d, log), t)
  BY <1>2, <1>5 DEF Has
<1>8. main' = main /\ tool' = tool /\ runs' = runs BY DEF ReviewSteps
<1>9. TypeOK' /\ IsFiniteSet(log')
  <2>1. log' \in SUBSET AgentRunEvent BY <1>1, <1>4, Typed DEF ReviewSteps, e
  <2>2. review' \in [Calls -> Review] BY <1>1, Typed DEF ReviewSteps
  <2>3. TypeOK' BY <1>1, <1>8, <2>1, <2>2, Typed, TypedNext DEF ReviewSteps
  <2>. QED BY <1>1, <2>3, FS_AddElement DEF ReviewSteps
<1>10. \A d \in Calls : SameCall(main[d], main'[d]) BY <1>8 DEF SameCall
<1>11. ASSUME NEW d \in Calls PROVE CallOk(d)'
  <2>. DEFINE E == Own(d, log)
              F == Own(d, log')
              m == main[d]
  <2>1. MainOk(m) /\ Numbered(E, m.events) /\ Pending(E, m) /\ Outcome(E, m) /\ m \in Main
    BY <1>1, Typed DEF AgentInv, CallOk
  <2>2. m.events \in Nat /\ m.number \in Nat /\ (\A f \in E : f.number \in Nat)
    BY <1>1, <2>1, OwnTyped DEF Main, AgentRunEvent
  <2>3. F = E \/ F = E \cup {e} BY <1>5
  <2>4. \A t \in Later : Has(F, t) <=> Has(E, t) BY <1>3, <1>6, <1>7
  <2>. HIDE DEF E, F, m
  <2>5. Numbered(F, m.events)
    <3>1. CASE F = E BY <2>1, <3>1
    <3>2. CASE F = E \cup {e}
      <4>1. \A f \in E \cup {e} : f.number \in Nat BY <1>2, <2>2
      <4>2. e.number =< m.events /\ ~(e.number > 0) BY <1>2, <2>2
      <4>3. e.type \notin MainEvents /\ e.type \notin Later /\ e.type # "harness_transcript_event"
        BY <1>2, <1>3 DEF Later
      <4>. QED BY <2>1, <2>2, <3>2, <4>1, <4>2, <4>3, NumberedGrows
    <3>. QED BY <2>3, <3>1, <3>2
  <2>6. Pending(F, m)
    <3>1. m.step \in MainEvents => m.number >= 1 BY <2>1, <2>2 DEF MainOk
    <3>. QED BY <1>2, <1>3, <2>1, <2>3, <3>1 DEF Pending
  <2>7. Outcome(F, m) BY <2>1, <2>4 DEF Outcome, Later
  <2>. QED BY <1>8, <2>1, <2>5, <2>6, <2>7 DEF CallOk, F, m
<1>12. ASSUME NEW q \in Slots, tool'[q].step # "closed" PROVE SlotOk(q)'
  <2>. DEFINE E == Own(tool[q].of, log)
              F == Own(tool[q].of, log')
              m == main[tool[q].of]
  <2>1. SlotOk(q) BY <1>8, <1>12 DEF AgentInv
  <2>2. tool[q].of \in Calls /\ tool[q] \in Tool BY <1>1, <1>8, <1>12, <2>1, Typed DEF SlotOk, ToolOk
  <2>3. m \in Main /\ ToolOk(tool[q], m, E) BY <1>1, <2>1, <2>2, Typed DEF SlotOk
  <2>4. F = E \/ F = E \cup {e} BY <1>5, <2>2
  <2>5. ASSUME tool[q].step \in ToolEvents, NEW f \in F \ E PROVE f.number # tool[q].number
    <3>1. tool[q].number \in 6 .. m.events BY <1>8, <1>12, <2>3, <2>5 DEF ToolOk, ToolPending
    <3>2. f = e BY <2>4, <2>5
    <3>. QED BY <1>2, <3>1, <3>2
  <2>6. E \subseteq F /\ m.events \in Nat BY <2>3, <2>4 DEF Main
  <2>7. m.events >= m.events BY <2>6
  <2>. HIDE DEF E, F, m
  <2>8. ToolOk(tool[q], m, F) BY <2>2, <2>3, <2>5, <2>6, <2>7, ToolKept
  <2>. QED BY <1>8, <2>8 DEF SlotOk, F, m
<1>13. ASSUME NEW r \in Runs PROVE RowOk(r)'
  <2>1. RowOk(r) /\ runs'[r] = runs[r] BY <1>8 DEF AgentInv
  <2>. QED BY <1>6, <1>10, <2>1, RowKept
<1>14. ASSUME NEW d \in Calls PROVE ReviewOk(d)'
  <2>1. ReviewOk(d) BY DEF AgentInv
  <2>2. CASE d # c
    <3>1. review'[d] = review[d] BY <1>1, <2>2, Typed DEF ReviewSteps
    <3>. QED BY <1>6, <1>10, <2>1, <3>1, ReviewKept
  <2>3. CASE d = c
    <3>1. review'[d] = v BY <1>1, <2>3, Typed DEF ReviewSteps
    <3>. QED BY <2>3, <3>1 DEF ReviewOk, ReviewSteps
  <2>. QED BY <2>2, <2>3
<1>15. SlotsApart' BY <1>8 DEF AgentInv, SlotsApart
<1>. QED BY <1>9, <1>11, <1>12, <1>13, <1>14, <1>15 DEF AgentInv

-------------------------------------------------------------------------------
\* Each action of a tool call as a step of ToolSteps.

LEMMA AppendToolEventIs ==
  ASSUME TypeOK, NEW s \in Slots, NEW t \in Tool, t.of \in Calls, NEW type \in ToolEvents,
         AppendToolEvent(s, t, type)
  PROVE  \E u \in Tool, k \in Main :
           /\ u.step = type /\ u.of = t.of /\ u.call = t.call /\ u.number = k.events
           /\ k.events = main[t.of].events + 1 /\ SameCall(main[t.of], k)
           /\ main' = [main EXCEPT ![t.of] = k] /\ tool' = [tool EXCEPT ![s] = u]
<1>. DEFINE m == main[t.of]
            n == NextNumber(t.of)
            u == [t EXCEPT !.step = type, !.number = n]
            k == [m EXCEPT !.events = @ + 1]
<1>1. m \in Main /\ main \in [Calls -> Main] BY Typed
<1>2. m.events \in Nat /\ n \in Nat /\ n = m.events + 1 BY <1>1 DEF Main, NextNumber
<1>3. type \in ToolStep BY DEF ToolStep
<1>4. u.step = type /\ u.of = t.of /\ u.call = t.call /\ u.number = n BY DEF Tool
<1>5. u \in Tool BY <1>2, <1>3 DEF Tool
<1>6. DOMAIN m = {"step", "run", "setup", "number", "events", "draft", "transcript", "holdsTools"}
  BY <1>1 DEF Main
<1>7. k \in Main BY <1>1, <1>2 DEF Main
<1>8. /\ k.step = m.step /\ k.run = m.run /\ k.setup = m.setup /\ k.number = m.number
      /\ k.draft = m.draft
  BY <1>6
<1>9. k.holdsTools = m.holdsTools BY <1>6
<1>10. k.events = m.events + 1 BY <1>6
<1>11. main' = [main EXCEPT ![t.of] = k] BY <1>1 DEF AppendToolEvent
<1>12. tool' = [tool EXCEPT ![s] = u] BY DEF AppendToolEvent
<1>. HIDE DEF u, k, n
<1>. QED BY <1>2, <1>4, <1>5, <1>7, <1>8, <1>9, <1>10, <1>11, <1>12 DEF SameCall

LEMMA ToolEndsIs ==
  ASSUME TypeOK, NEW s \in Slots, NEW step \in {"answered", "threw"}, ToolEnds(s, step)
  PROVE  \E u \in Tool :
           /\ u.step = step /\ u.of = tool[s].of /\ u.call = tool[s].call
           /\ tool' = [tool EXCEPT ![s] = u] /\ main' = main
<1>. DEFINE u == [tool[s] EXCEPT !.step = step]
<1>1. tool[s] \in Tool /\ tool \in [Slots -> Tool] BY Typed
<1>2. u.step = step /\ u.of = tool[s].of /\ u.call = tool[s].call BY <1>1 DEF Tool
<1>3. u \in Tool BY <1>1 DEF Tool, ToolStep
<1>4. tool' = [tool EXCEPT ![s] = u] /\ main' = main BY <1>1 DEF ToolEnds
<1>. QED BY <1>2, <1>3, <1>4

LEMMA StoreToolEventIs ==
  ASSUME NEW s \in Slots, NEW done, StoreToolEvent(s, done)
  PROVE  log' = ToolStored(log, tool[s], done)
<1>. QED BY DEF StoreToolEvent, ToolStored, ToolEntry, Caller

LEMMA OpenTool ==
  ASSUME AgentInv, NEW s \in Slots, tool[s].step # "closed"
  PROVE  /\ tool[s] \in Tool /\ tool[s].of \in Calls /\ main[tool[s].of].holdsTools
         /\ main[tool[s].of] \in Main
         /\ ToolGuarded(tool[s], main[tool[s].of].setup, Own(tool[s].of, log))
<1>1. TypeOK /\ SlotOk(s) BY DEF AgentInv
<1>. QED BY <1>1, Typed DEF SlotOk, ToolOk

Opened(c, call) == [Closed EXCEPT !.of = c, !.call = call]

LEMMA OpenedIs ==
  ASSUME NEW c \in Calls, NEW call \in ToolCalls
  PROVE  Opened(c, call) \in Tool /\ Opened(c, call).of = c /\ Opened(c, call).call = call
<1>1. (CHOOSE x \in ToolCalls : TRUE) \in ToolCalls BY AgentAssumption
<1>2. Closed \in [step : ToolStep, of : {"none"}, call : ToolCalls, number : Nat]
  BY <1>1 DEF Closed, ToolStep
<1>3. Opened(c, call).of = c /\ Opened(c, call).call = call BY <1>2 DEF Opened
<1>4. Opened(c, call) \in Tool BY <1>2 DEF Opened, Tool
<1>. QED BY <1>3, <1>4

LEMMA CallToolSteps ==
  ASSUME AgentInv, NEW s \in Slots, NEW c \in Calls, failures' \in 0 .. MaxFailures,
         CallTool(c, s)
  PROVE  \E t \in Tool, k \in Main : ToolSteps(s, t, k, FALSE)
<1>1. TypeOK /\ main[c].holdsTools BY DEF AgentInv, CallTool
<1>2. PICK call \in ToolCalls :
        AppendToolEvent(s, [Closed EXCEPT !.of = c, !.call = call],
          IF call.name \in Allowed(c) THEN "tool_call_attempt" ELSE "tool_call_denied")
  BY DEF CallTool
<1>3. PICK u : u = Opened(c, call) OBVIOUS
<1>4. PICK type \in ToolEvents :
        type = IF call.name \in Allowed(c) THEN "tool_call_attempt" ELSE "tool_call_denied"
  BY DEF ToolEvents
<1>5. u \in Tool /\ u.of = c /\ u.call = call BY <1>3, OpenedIs
<1>6. AppendToolEvent(s, u, type) BY <1>2, <1>3, <1>4 DEF Opened
<1>7. PICK t \in Tool, k \in Main :
        /\ t.step = type /\ t.of = c /\ t.call = call /\ t.number = k.events
        /\ k.events = main[c].events + 1 /\ SameCall(main[c], k)
        /\ main' = [main EXCEPT ![c] = k] /\ tool' = [tool EXCEPT ![s] = t]
  BY <1>1, <1>5, <1>6, AppendToolEventIs
<1>8. ToolGuarded(t, main[c].setup, Own(c, log'))
  BY <1>4, <1>7 DEF ToolGuarded, Allowed
<1>9. ToolSteps(s, t, k, FALSE)
  BY <1>1, <1>4, <1>7, <1>8 DEF ToolSteps, CallTool, ToolStored, ToolEvents
<1>. QED BY <1>9

\* The end of a tool call leaves the events array of its call alone.
LEMMA EndSteps ==
  ASSUME AgentInv, NEW s \in Slots, NEW stored \in BOOLEAN, NEW u \in Tool,
         failures' \in 0 .. MaxFailures,
         tool[s].step \in ToolEvents, u.of = tool[s].of, u.step \in {"answered", "threw"},
         tool' = [tool EXCEPT ![s] = u], main' = main, runs' = runs, review' = review,
         log' = ToolStored(log, tool[s], stored),
         ToolGuarded(u, main[u.of].setup, Own(u.of, log'))
  PROVE  ToolSteps(s, u, main[u.of], stored)
<1>1. tool[s].step # "closed" BY DEF ToolEvents
<1>2. u.of \in Calls /\ main[u.of].holdsTools /\ main[u.of] \in Main BY <1>1, OpenTool
<1>3. main' = [main EXCEPT ![u.of] = main[u.of]] BY <1>2, Typed DEF AgentInv
<1>4. SameCall(main[u.of], main[u.of]) BY DEF SameCall
<1>5. u.step \notin ToolEvents /\ u.step # "closed" BY DEF ToolEvents
<1>. QED BY <1>2, <1>3, <1>4, <1>5 DEF ToolSteps

LEMMA ExecuteToolSteps ==
  ASSUME AgentInv, NEW s \in Slots, failures' \in 0 .. MaxFailures, ExecuteTool(s)
  PROVE  \E t \in Tool, k \in Main : ToolSteps(s, t, k, TRUE)
<1>. DEFINE c == tool[s].of
            name == tool[s].call.name
<1>1. tool[s].step = "tool_call_attempt" /\ tool[s].step \in ToolEvents
  BY DEF ExecuteTool, ToolEvents
<1>2. /\ tool[s] \in Tool /\ c \in Calls /\ main[c].holdsTools /\ TypeOK /\ main[c] \in Main
      /\ name \in Setups[main[c].setup].allowed
  BY <1>1, OpenTool DEF ToolGuarded, AgentInv
<1>3. log' = ToolStored(log, tool[s], TRUE) BY StoreToolEventIs DEF ExecuteTool
<1>4. HasTool(Own(c, log'), "tool_call_attempt", name)
  <2>1. ToolEntry(tool[s]) \in log' BY <1>3 DEF ToolStored
  <2>2. /\ ToolEntry(tool[s]).call = c /\ ToolEntry(tool[s]).type = tool[s].step
        /\ ToolEntry(tool[s]).tool = name
    BY DEF ToolEntry
  <2>. QED BY <1>1, <2>1, <2>2 DEF HasTool, Own
<1>5. CASE Throws(s) \/ Undefined(s)
  <2>1. PICK u \in Tool : /\ u.step = "threw" /\ u.of = c /\ u.call = tool[s].call
                          /\ tool' = [tool EXCEPT ![s] = u] /\ main' = main
    BY <1>2, <1>5, ToolEndsIs DEF ExecuteTool
  <2>2. ToolGuarded(u, main[u.of].setup, Own(u.of, log')) BY <2>1 DEF ToolGuarded
  <2>3. ToolSteps(s, u, main[u.of], TRUE)
    BY <1>1, <1>3, <2>1, <2>2, EndSteps DEF ExecuteTool
  <2>. QED BY <1>2, <2>1, <2>3
<1>6. CASE ~(Throws(s) \/ Undefined(s))
  <2>1. PICK type \in ToolEvents :
          type = IF OverBudget(s) THEN "tool_call_denied" ELSE "tool_result_sanitized"
    BY DEF ToolEvents
  <2>2. AppendToolEvent(s, tool[s], type) BY <1>6, <2>1 DEF ExecuteTool
  <2>3. PICK t \in Tool, k \in Main :
          /\ t.step = type /\ t.of = c /\ t.call = tool[s].call /\ t.number = k.events
          /\ k.events = main[c].events + 1 /\ SameCall(main[c], k)
          /\ main' = [main EXCEPT ![c] = k] /\ tool' = [tool EXCEPT ![s] = t]
    BY <1>2, <2>2, AppendToolEventIs
  <2>4. ~PreparedToolThrows(Attempts[main[c].setup], t.call)
        /\ t.call.name # "read_dead_letter_diagnosis"
    BY <1>6, <2>3 DEF Throws, Undefined, Caller, Attempt
  <2>5. type = "tool_result_sanitized" =>
          ~(AnswerSize(Attempts[main[c].setup], t.call) > Attempts[main[c].setup].maxToolResult)
    BY <2>1, <2>3 DEF OverBudget, Caller, Attempt
  <2>6. type \in {"tool_call_denied", "tool_result_sanitized"} BY <2>1
  <2>7. ToolGuarded(t, main[c].setup, Own(c, log'))
    BY <1>2, <1>4, <2>3, <2>4, <2>5, <2>6 DEF ToolGuarded
  <2>8. t.step # "closed" BY <2>3, <2>6
  <2>9. ToolSteps(s, t, k, TRUE)
    BY <1>1, <1>2, <1>3, <2>3, <2>7, <2>8 DEF ToolSteps, ExecuteTool
  <2>. QED BY <2>9
<1>. QED BY <1>5, <1>6

LEMMA AnswerToolSteps ==
  ASSUME AgentInv, NEW s \in Slots, failures' \in 0 .. MaxFailures, AnswerTool(s)
  PROVE  \E t \in Tool, k \in Main : ToolSteps(s, t, k, TRUE)
<1>. DEFINE c == tool[s].of
            name == tool[s].call.name
<1>1. tool[s].step = "tool_result_sanitized" /\ tool[s].step \in ToolEvents
  BY DEF AnswerTool, ToolEvents
<1>2. /\ c \in Calls /\ TypeOK /\ main[c] \in Main
      /\ ToolGuarded(tool[s], main[c].setup, Own(c, log))
  BY <1>1, OpenTool DEF AgentInv
<1>3. log' = ToolStored(log, tool[s], TRUE) BY StoreToolEventIs DEF AnswerTool
<1>4. HasTool(Own(c, log'), "tool_result_sanitized", name)
  <2>1. ToolEntry(tool[s]) \in log' BY <1>3 DEF ToolStored
  <2>2. /\ ToolEntry(tool[s]).call = c /\ ToolEntry(tool[s]).type = tool[s].step
        /\ ToolEntry(tool[s]).tool = name
    BY DEF ToolEntry
  <2>. QED BY <1>1, <2>1, <2>2 DEF HasTool, Own
<1>5. HasTool(Own(c, log'), "tool_call_attempt", name)
  BY <1>1, <1>2, <1>3 DEF ToolStored, HasTool, Own, ToolGuarded
<1>6. PICK u \in Tool : /\ u.step = "answered" /\ u.of = c /\ u.call = tool[s].call
                        /\ tool' = [tool EXCEPT ![s] = u] /\ main' = main
  BY <1>2, ToolEndsIs DEF AnswerTool
<1>7. ToolGuarded(u, main[u.of].setup, Own(u.of, log'))
  BY <1>1, <1>2, <1>4, <1>5, <1>6 DEF ToolGuarded
<1>8. ToolSteps(s, u, main[u.of], TRUE) BY <1>1, <1>3, <1>6, <1>7, EndSteps DEF AnswerTool
<1>. QED BY <1>2, <1>6, <1>8

LEMMA ThrewSteps ==
  ASSUME AgentInv, NEW s \in Slots, failures' \in 0 .. MaxFailures,
         tool[s].step \in ToolEvents, NEW stored \in BOOLEAN, StoreToolEvent(s, stored),
         ToolEnds(s, "threw"), UNCHANGED <<runs, review>>
  PROVE  \E t \in Tool, k \in Main : ToolSteps(s, t, k, stored)
<1>1. tool[s].step # "closed" BY DEF ToolEvents
<1>2. tool[s].of \in Calls /\ TypeOK /\ main[tool[s].of] \in Main
  BY <1>1, OpenTool DEF AgentInv
<1>3. PICK u \in Tool : /\ u.step = "threw" /\ u.of = tool[s].of
                        /\ tool' = [tool EXCEPT ![s] = u] /\ main' = main
  BY <1>2, ToolEndsIs
<1>4. ToolGuarded(u, main[u.of].setup, Own(u.of, log')) BY <1>3 DEF ToolGuarded
<1>5. log' = ToolStored(log, tool[s], stored) BY StoreToolEventIs
<1>6. ToolSteps(s, u, main[u.of], stored) BY <1>3, <1>4, <1>5, EndSteps
<1>. QED BY <1>2, <1>3, <1>6

LEMMA DenyToolSteps ==
  ASSUME AgentInv, NEW s \in Slots, failures' \in 0 .. MaxFailures, DenyTool(s)
  PROVE  \E t \in Tool, k \in Main : ToolSteps(s, t, k, TRUE)
<1>. QED BY ThrewSteps DEF DenyTool, ToolEvents

LEMMA ToolEventFailsSteps ==
  ASSUME AgentInv, NEW s \in Slots, failures' \in 0 .. MaxFailures, ToolEventFails(s)
  PROVE  \E t \in Tool, k \in Main, stored \in BOOLEAN : ToolSteps(s, t, k, stored)
<1>1. PICK f \in Failures : StoreToolEvent(s, f.done) BY DEF ToolEventFails
<1>2. PICK stored \in BOOLEAN : stored = f.done BY DEF Failures
<1>3. StoreToolEvent(s, stored) BY <1>1, <1>2
<1>. QED BY <1>3, ThrewSteps DEF ToolEventFails

-------------------------------------------------------------------------------
\* Each action of a review as a step of ReviewSteps.

LEMMA StoreReviewEventIs ==
  ASSUME NEW c \in Calls, NEW type, NEW done, StoreReviewEvent(c, type, done)
  PROVE  /\ log' = IF done THEN log \cup {ReviewEntry(c, type)} ELSE log
         /\ done => Has(Own(c, log'), type)
<1>1. log' = IF done THEN log \cup {ReviewEntry(c, type)} ELSE log
  BY DEF StoreReviewEvent, ReviewEntry
<1>2. ReviewEntry(c, type).call = c /\ ReviewEntry(c, type).type = type BY DEF ReviewEntry
<1>. QED BY <1>1, <1>2 DEF Has, Own

LEMMA EvaluateGateSteps ==
  ASSUME AgentInv, NEW c \in Calls, failures' \in 0 .. MaxFailures, EvaluateGate(c)
  PROVE  \E v \in Review : ReviewSteps(c, v, "draft_validation_evaluated", TRUE)
<1>1. PICK context \in Contexts :
        review' = [review EXCEPT ![c] =
          [context |-> context,
           step |-> IF ValidationDecision(main[c].draft, context) = "accept"
                    THEN "requesting" ELSE "refused"]]
  BY DEF EvaluateGate
<1>2. PICK step \in {"requesting", "refused"} :
        step = IF ValidationDecision(main[c].draft, context) = "accept"
               THEN "requesting" ELSE "refused"
  OBVIOUS
<1>. DEFINE v == [context |-> context, step |-> step]
<1>3. v \in Review BY DEF Review, ReviewStep
<1>4. review' = [review EXCEPT ![c] = v] BY <1>1, <1>2
<1>5. v.step = step /\ v.context = context OBVIOUS
<1>. HIDE DEF v
<1>6. /\ log' = IF TRUE THEN log \cup {ReviewEntry(c, "draft_validation_evaluated")} ELSE log
      /\ Has(Own(c, log'), "draft_validation_evaluated")
  BY StoreReviewEventIs DEF EvaluateGate
<1>7. v.step \in {"requesting", "requested"} =>
        ValidationDecision(main[c].draft, v.context) = "accept"
  BY <1>2, <1>5
<1>8. v.step # "requested" BY <1>5
<1>9. ReviewSteps(c, v, "draft_validation_evaluated", TRUE)
  BY <1>4, <1>6, <1>7, <1>8 DEF ReviewSteps, ReviewEvents, EvaluateGate, HoldsCapturedDraft
<1>. QED BY <1>3, <1>9

LEMMA ReviewStepOf ==
  ASSUME TypeOK, NEW c \in Calls, NEW step \in ReviewStep, NEW v,
         v = [review[c] EXCEPT !.step = step]
  PROVE  /\ v \in Review /\ v.step = step /\ v.context = review[c].context
         /\ [review EXCEPT ![c].step = step] = [review EXCEPT ![c] = v]
<1>1. review[c] \in Review BY Typed
<1>2. v \in Review /\ v.step = step /\ v.context = review[c].context BY <1>1 DEF Review
<1>. QED BY <1>1, <1>2

LEMMA RequestReviewSteps ==
  ASSUME AgentInv, NEW c \in Calls, failures' \in 0 .. MaxFailures, RequestReview(c)
  PROVE  \E v \in Review : ReviewSteps(c, v, "merchant_review_requested", TRUE)
<1>1. TypeOK /\ ReviewOk(c) /\ review[c].step = "requesting" BY DEF AgentInv, RequestReview
<1>2. PICK v : v = [review[c] EXCEPT !.step = "requested"] OBVIOUS
<1>3. "requested" \in ReviewStep BY DEF ReviewStep
<1>4. /\ v \in Review /\ v.step = "requested" /\ v.context = review[c].context
      /\ review' = [review EXCEPT ![c] = v]
  BY <1>1, <1>2, <1>3, ReviewStepOf DEF RequestReview
<1>5. /\ log' = IF TRUE THEN log \cup {ReviewEntry(c, "merchant_review_requested")} ELSE log
      /\ Has(Own(c, log'), "merchant_review_requested")
  BY StoreReviewEventIs DEF RequestReview
<1>6. Has(Own(c, log'), "draft_validation_evaluated")
  BY <1>1, <1>5 DEF ReviewOk, Has, Own
<1>7. main[c].step = "captured" /\ ValidationDecision(main[c].draft, v.context) = "accept"
  BY <1>1, <1>4 DEF ReviewOk
<1>8. ReviewSteps(c, v, "merchant_review_requested", TRUE)
  BY <1>4, <1>5, <1>6, <1>7 DEF ReviewSteps, ReviewEvents, RequestReview
<1>. QED BY <1>4, <1>8

LEMMA ReviewFailsSteps ==
  ASSUME AgentInv, NEW c \in Calls, failures' \in 0 .. MaxFailures, ReviewFails(c)
  PROVE  \E v \in Review, type \in ReviewEvents, stored \in BOOLEAN :
           ReviewSteps(c, v, type, stored)
<1>1. TypeOK /\ ReviewOk(c) BY DEF AgentInv
<1>2. PICK f \in Failures :
       \/ HoldsCapturedDraft(c) /\ review[c].step # "requesting"
            /\ StoreReviewEvent(c, "draft_validation_evaluated", f.done)
       \/ review[c].step = "requesting"
            /\ StoreReviewEvent(c, "merchant_review_requested", f.done)
  BY DEF ReviewFails
<1>3. PICK stored \in BOOLEAN : stored = f.done BY DEF Failures
<1>4. PICK type \in ReviewEvents : main[c].step = "captured" /\ StoreReviewEvent(c, type, stored)
  BY <1>1, <1>2, <1>3 DEF ReviewEvents, HoldsCapturedDraft, ReviewOk
<1>5. PICK v : v = [review[c] EXCEPT !.step = "rejected"] OBVIOUS
<1>6. "rejected" \in ReviewStep BY DEF ReviewStep
<1>7. v \in Review /\ v.step = "rejected" /\ review' = [review EXCEPT ![c] = v]
  BY <1>1, <1>5, <1>6, ReviewStepOf DEF ReviewFails
<1>8. log' = IF stored THEN log \cup {ReviewEntry(c, type)} ELSE log
  BY <1>4, StoreReviewEventIs
<1>9. ReviewSteps(c, v, type, stored) BY <1>4, <1>7, <1>8 DEF ReviewSteps, ReviewFails
<1>. QED BY <1>7, <1>9

-------------------------------------------------------------------------------
\* The invariant holds at first, and every action keeps it.

LEMMA AgentInvInit == Init => AgentInv
<1>. SUFFICES ASSUME Init PROVE AgentInv OBVIOUS
<1>1. \A c \in Calls : main[c] = Idle BY DEF Init
<1>2. /\ (CHOOSE r \in Runs : TRUE) \in Runs /\ (CHOOSE x \in ToolCalls : TRUE) \in ToolCalls
      /\ (CHOOSE x \in Contexts : TRUE) \in Contexts
      /\ 0 \in 0 .. MaxTranscript /\ 0 \in 0 .. MaxFailures
  BY AgentAssumption
<1>3. Idle \in Main BY <1>2, StepNames DEF Idle, Main
<1>4. Closed \in Tool BY <1>2 DEF Closed, Tool, ToolStep
<1>5. TypeOK BY <1>2, <1>3, <1>4 DEF Init, TypeOK, Main, Tool, Row, ReviewStep
<1>6. IsFiniteSet(log) BY FS_EmptySet DEF Init
<1>7. /\ Idle.step = "idle" /\ Idle.events = 0 /\ Idle.holdsTools = FALSE
  BY DEF Idle
<1>8. "idle" \notin MainEvents /\ "idle" \notin Gates BY MainEventSet DEF Gates, Later
<1>9. MainOk(Idle) BY <1>7, <1>8 DEF MainOk
<1>10. \A c \in Calls : Own(c, log) = {} BY DEF Init, Own
<1>11. \A c \in Calls : CallOk(c)
  BY <1>1, <1>7, <1>8, <1>9, <1>10 DEF CallOk, Numbered, Pending, Outcome, Has
<1>12. \A c \in Calls : ReviewOk(c) BY DEF Init, ReviewOk
<1>13. \A s \in Slots : tool[s].step = "closed" BY DEF Init, Closed
<1>14. SlotsApart BY <1>13 DEF SlotsApart, ToolEvents
<1>15. \A r \in Runs : RowOk(r)
  <2>1. \A r \in Runs : CallsOf(r) = {} BY <1>1, <1>7 DEF CallsOf
  <2>. QED BY <2>1 DEF Init, RowOk
<1>. QED BY <1>5, <1>6, <1>11, <1>12, <1>13, <1>14, <1>15 DEF AgentInv

LEMMA AgentInvNext == AgentInv /\ [Next]_vars => AgentInv'
<1>. SUFFICES ASSUME AgentInv, [Next]_vars PROVE AgentInv' OBVIOUS
<1>1. failures \in 0 .. MaxFailures /\ MaxFailures \in Nat
  BY AgentAssumption, Typed DEF AgentInv
<1>2. ASSUME NEW c \in Calls, RunAgentAttempt(c) PROVE AgentInv'
  <2>1. failures' \in 0 .. MaxFailures BY <1>1, <1>2 DEF RunAgentAttempt
  <2>2. CASE Begin(c) BY <2>1, <2>2, BeginSteps, StepKeepsInv
  <2>3. CASE RunAppended(c) BY <2>1, <2>3, RunAppendedSteps, StepKeepsInv
  <2>4. CASE GateEventAppended(c) BY <2>1, <2>4, GateEventAppendedSteps, StepKeepsInv
  <2>5. CASE HarnessInvoked(c) BY <2>1, <2>5, HarnessInvokedSteps, StepKeepsInv
  <2>6. CASE TurnReturns(c) BY <2>1, <2>6, TurnReturnsSteps, StepKeepsInv
  <2>7. CASE TurnThrows(c) BY <2>1, <2>7, TurnThrowsSteps, StepKeepsInv
  <2>8. CASE TranscriptEventAppended(c)
    BY <2>1, <2>8, TranscriptEventAppendedSteps, StepKeepsInv
  <2>9. CASE DraftCaptured(c) BY <2>1, <2>9, DraftCapturedSteps, StepKeepsInv
  <2>10. CASE CapturedReplaced(c) BY <2>1, <2>10, CapturedReplacedSteps, StepKeepsInv
  <2>11. CASE RunFailed(c) BY <2>1, <2>11, RunFailedSteps, StepKeepsInv
  <2>12. CASE FailedReplaced(c) BY <2>1, <2>12, FailedReplacedSteps, StepKeepsInv
  <2>. QED BY <1>2, <2>2, <2>3, <2>4, <2>5, <2>6, <2>7, <2>8, <2>9, <2>10, <2>11, <2>12
              DEF RunAgentAttempt
<1>3. ASSUME NEW s \in Slots, GuardedToolCall(s) PROVE AgentInv'
  <2>1. failures' \in 0 .. MaxFailures BY <1>1, <1>3 DEF GuardedToolCall
  <2>2. ASSUME NEW c \in Calls, CallTool(c, s) PROVE AgentInv'
    BY <2>1, <2>2, CallToolSteps, ToolStepKeepsInv
  <2>3. CASE ExecuteTool(s) BY <2>1, <2>3, ExecuteToolSteps, ToolStepKeepsInv
  <2>4. CASE AnswerTool(s) BY <2>1, <2>4, AnswerToolSteps, ToolStepKeepsInv
  <2>5. CASE DenyTool(s) BY <2>1, <2>5, DenyToolSteps, ToolStepKeepsInv
  <2>. QED BY <1>3, <2>2, <2>3, <2>4, <2>5 DEF GuardedToolCall
<1>4. ASSUME NEW c \in Calls, ReviewOfDraft(c) PROVE AgentInv'
  <2>1. failures' \in 0 .. MaxFailures BY <1>1, <1>4 DEF ReviewOfDraft
  <2>2. CASE EvaluateGate(c) BY <2>1, <2>2, EvaluateGateSteps, ReviewStepKeepsInv
  <2>3. CASE RequestReview(c) BY <2>1, <2>3, RequestReviewSteps, ReviewStepKeepsInv
  <2>. QED BY <1>4, <2>2, <2>3 DEF ReviewOfDraft
<1>5. ASSUME GoWrong PROVE AgentInv'
  <2>1. failures' \in 0 .. MaxFailures BY <1>1, <1>5 DEF GoWrong
  <2>2. ASSUME NEW c \in Calls, AppendRunFails(c) PROVE AgentInv'
    BY <2>1, <2>2, AppendRunFailsSteps, StepKeepsInv
  <2>3. ASSUME NEW c \in Calls, EventFails(c) PROVE AgentInv'
    BY <2>1, <2>3, EventFailsSteps, StepKeepsInv
  <2>4. ASSUME NEW c \in Calls, ReplaceCapturedFails(c) PROVE AgentInv'
    BY <2>1, <2>4, ReplaceCapturedFailsSteps, StepKeepsInv
  <2>5. ASSUME NEW c \in Calls, CatchFails(c) PROVE AgentInv'
    BY <2>1, <2>5, CatchFailsSteps, StepKeepsInv
  <2>6. ASSUME NEW c \in Calls, ReviewFails(c) PROVE AgentInv'
    BY <2>1, <2>6, ReviewFailsSteps, ReviewStepKeepsInv
  <2>7. ASSUME NEW s \in Slots, ToolEventFails(s) PROVE AgentInv'
    BY <2>1, <2>7, ToolEventFailsSteps, ToolStepKeepsInv
  <2>. QED BY <1>5, <2>2, <2>3, <2>4, <2>5, <2>6, <2>7 DEF GoWrong, StoreFails
<1>6. CASE UNCHANGED vars
  <2>1. UNCHANGED <<runs, log, main, tool, review, failures>> BY <1>6 DEF vars
  <2>. QED BY <2>1 DEF AgentInv, TypeOK, CallOk, ReviewOk, SlotOk, SlotsApart, RowOk, CallsOf
<1>. QED BY <1>2, <1>3, <1>4, <1>5, <1>6 DEF Next

\* The invariant of AgentRun: what the step of a call says of its audit, its row, the tools it
\* gave away and the review of its draft.
THEOREM AgentInvariant == Spec => []AgentInv
<1>. QED BY AgentInvInit, AgentInvNext, PTL DEF Spec

\* The state keeps its shape, whatever the harness calls and the store loses.
THEOREM AgentRunsTyped == Spec => []TypeOK
<1>1. AgentInv => TypeOK BY DEF AgentInv
<1>. QED BY <1>1, AgentInvariant, PTL

-------------------------------------------------------------------------------
\* What the invariant says of the properties.

LEMMA HasIsLogged == \A c, type : Has(Own(c, log), type) <=> Logged(c, type)
<1>. QED BY DEF Has, Own, Logged

LEMMA OutcomesFollow == AgentInv => OutcomesAreAudited
<1>. SUFFICES ASSUME AgentInv PROVE OutcomesAreAudited OBVIOUS
<1>1. ASSUME NEW c \in Calls
      PROVE  /\ main[c].step = "captured" => Logged(c, "draft_captured") /\ ~Logged(c, "run_failed")
             /\ main[c].step = "failed" => Logged(c, "run_failed")
  BY HasIsLogged DEF AgentInv, CallOk, Outcome
<1>2. ASSUME NEW r \in Runs
      PROVE  /\ runs[r].status = "started" =>
                  \E c \in CallsOf(r) : main[c].step \notin {"captured", "failed"}
             /\ runs[r].status = "draft_captured" => \E c \in CallsOf(r) :
                  Logged(c, "draft_captured") /\ main[c].draft = runs[r].draft
             /\ runs[r].status = "failed" => \E c \in CallsOf(r) : Logged(c, "run_failed")
             /\ (CallsOf(r) # {} /\ \A c \in CallsOf(r) : main[c].step \in {"captured", "failed"}) =>
                  \E c \in CallsOf(r) : runs[r].status =
                    IF main[c].step = "captured" THEN "draft_captured" ELSE "failed"
  <2>1. RowOk(r) BY DEF AgentInv
  <2>2. runs[r].status \in {"none", "started", "draft_captured", "failed"}
    BY Typed DEF AgentInv, Row
  <2>3. ASSUME CallsOf(r) # {}, \A c \in CallsOf(r) : main[c].step \in {"captured", "failed"}
        PROVE  \E c \in CallsOf(r) : runs[r].status =
                 IF main[c].step = "captured" THEN "draft_captured" ELSE "failed"
    <3>1. runs[r].status # "none" BY <2>1, <2>3 DEF RowOk
    <3>2. runs[r].status # "started" BY <2>1, <2>3 DEF RowOk
    <3>3. CASE runs[r].status = "draft_captured" BY <2>1, <2>3, <3>3 DEF RowOk
    <3>4. CASE runs[r].status = "failed" BY <2>1, <2>3, <3>4 DEF RowOk
    <3>. QED BY <2>2, <3>1, <3>2, <3>3, <3>4
  <2>4. runs[r].status = "started" =>
          \E c \in CallsOf(r) : main[c].step \notin {"captured", "failed"}
    BY <2>1 DEF RowOk
  <2>5. runs[r].status = "draft_captured" => \E c \in CallsOf(r) :
          Logged(c, "draft_captured") /\ main[c].draft = runs[r].draft
    BY <2>1, HasIsLogged DEF RowOk
  <2>6. runs[r].status = "failed" => \E c \in CallsOf(r) : Logged(c, "run_failed")
    BY <2>1, HasIsLogged DEF RowOk
  <2>. QED BY <2>3, <2>4, <2>5, <2>6
<1>. QED BY <1>1, <1>2 DEF OutcomesAreAudited

\* What a call returns is in the audit, and a row says what a call of its run did: for any number
\* of calls of a run, of runs and of failures of the store.
THEOREM OutcomesAreInTheAudit == Spec => []OutcomesAreAudited
<1>. QED BY OutcomesFollow, AgentInvariant, PTL

LEMMA AcceptedDraft ==
  ASSUME NEW draft, NEW context, ValidationDecision(draft, context) = "accept"
  PROVE  /\ draft.refs # {} /\ draft.refs \subseteq context.refs
         /\ context.own /\ context.sufficient
<1>. QED BY DEF ValidationDecision

LEMMA ReviewsFollow == AgentInv => ReviewsAreGated
<1>. SUFFICES ASSUME AgentInv, NEW c \in Calls, review[c].step \in {"requesting", "requested"}
              PROVE  LET draft == main[c].draft
                         context == review[c].context
                     IN  /\ Attempt(c).status = "prepared" /\ draft # NoDraft
                         /\ Logged(c, "draft_captured") /\ ~Logged(c, "run_failed")
                         /\ Logged(c, "draft_validation_evaluated")
                         /\ draft.refs # {} /\ draft.refs \subseteq context.refs
                         /\ context.own /\ context.sufficient
                         /\ review[c].step = "requested" => Logged(c, "merchant_review_requested")
  BY DEF ReviewsAreGated
<1>1. ReviewOk(c) /\ CallOk(c) BY DEF AgentInv
<1>2. main[c].step = "captured" BY <1>1 DEF ReviewOk
<1>3. main[c].holdsTools /\ main[c].draft # NoDraft BY <1>1, <1>2 DEF CallOk, MainOk
<1>4. Attempt(c).status = "prepared" BY <1>1, <1>3 DEF CallOk, MainOk, Prepared, Attempt
<1>5. Logged(c, "draft_captured") /\ ~Logged(c, "run_failed")
  BY <1>1, <1>2, HasIsLogged DEF CallOk, Outcome
<1>6. Logged(c, "draft_validation_evaluated") BY <1>1, HasIsLogged DEF ReviewOk
<1>7. review[c].step = "requested" => Logged(c, "merchant_review_requested")
  BY <1>1, HasIsLogged DEF ReviewOk
<1>8. ValidationDecision(main[c].draft, review[c].context) = "accept" BY <1>1 DEF ReviewOk
<1>. QED BY <1>3, <1>4, <1>5, <1>6, <1>7, <1>8, AcceptedDraft

\* A merchant review is requested only through the gate: for a captured draft of a prepared
\* attempt that never failed, validated in the audit and accepted for its evidence.
THEOREM ReviewsPassTheGate == Spec => []ReviewsAreGated
<1>. QED BY ReviewsFollow, AgentInvariant, PTL

\* Elements told apart by a number are as many as their numbers.
LEMMA DistinctNumbers ==
  ASSUME NEW S, IsFiniteSet(S), \A x, y \in S : x.number = y.number => x = y
  PROVE  Cardinality({x.number : x \in S}) = Cardinality(S)
<1>. DEFINE T == {x.number : x \in S}
            f == [x \in S |-> x.number]
<1>1. f \in Bijection(S, T)
  <2>1. f \in [S -> T] OBVIOUS
  <2>2. f \in Injection(S, T) BY <2>1 DEF Injection, IsInjective
  <2>3. f \in Surjection(S, T) BY <2>1 DEF Surjection
  <2>. QED BY <2>2, <2>3 DEF Bijection
<1>2. ExistsBijection(S, T) BY <1>1 DEF ExistsBijection
<1>. QED BY <1>2, FS_Bijection

LEMMA NumbersFollow == AgentInv => AuditIsNumbered
<1>. SUFFICES ASSUME AgentInv, NEW c \in Calls
     PROVE LET numbered == {e \in log : e.call = c /\ e.number > 0} IN
       /\ Cardinality({e.number : e \in numbered}) = Cardinality(numbered)
       /\ \A e \in numbered :
            /\ e.number =< main[c].events
            /\ IF e.number =< Len(GateEvents) THEN e.type \in {GateEvents[e.number], "run_failed"}
               ELSE e.type \notin ToSet(GateEvents)
            /\ e.type = "draft_captured" => \A f \in numbered :
                 f.type = "harness_transcript_event" => f.number < e.number
            /\ e.type = "run_failed" => \A f \in numbered : OfMain(f.type) => f.number =< e.number
  BY DEF AuditIsNumbered
<1>. DEFINE numbered == {e \in log : e.call = c /\ e.number > 0}
<1>1. Numbered(Own(c, log), main[c].events) /\ IsFiniteSet(log) BY DEF AgentInv, CallOk
<1>2. numbered \subseteq Own(c, log) /\ numbered \subseteq log BY DEF Own
<1>3. Cardinality({e.number : e \in numbered}) = Cardinality(numbered)
  <2>1. IsFiniteSet(numbered) BY <1>1, <1>2, FS_Subset
  <2>2. \A x, y \in numbered : x.number = y.number => x = y BY <1>1, <1>2 DEF Numbered
  <2>. QED BY <2>1, <2>2, DistinctNumbers
<1>4. \A e \in numbered : e.number > 0 OBVIOUS
<1>. HIDE DEF numbered
<1>5. ASSUME NEW e \in numbered
      PROVE  /\ e.number =< main[c].events
             /\ IF e.number =< Len(GateEvents) THEN e.type \in {GateEvents[e.number], "run_failed"}
                ELSE e.type \notin ToSet(GateEvents)
             /\ e.type = "draft_captured" => \A f \in numbered :
                  f.type = "harness_transcript_event" => f.number < e.number
             /\ e.type = "run_failed" => \A f \in numbered : OfMain(f.type) => f.number =< e.number
  <2>1. e \in Own(c, log) BY <1>2
  <2>2. e.number =< main[c].events BY <1>1, <2>1 DEF Numbered
  <2>3. InPlace(e.number, e.type) BY <1>1, <1>4, <2>1 DEF Numbered
  <2>4. IF e.number =< Len(GateEvents) THEN e.type \in {GateEvents[e.number], "run_failed"}
        ELSE e.type \notin ToSet(GateEvents)
    BY <2>3, GateFacts, GateSet DEF InPlace
  <2>5. e.type = "draft_captured" => \A f \in numbered :
          f.type = "harness_transcript_event" => f.number < e.number
    BY <1>1, <1>2, <2>1 DEF Numbered
  <2>6. \A type : OfMain(type) => type \in Later BY MainEventSet, GateSet DEF OfMain
  <2>7. e.type = "run_failed" => \A f \in numbered : OfMain(f.type) => f.number =< e.number
    BY <1>1, <1>2, <2>1, <2>6 DEF Numbered
  <2>. QED BY <2>2, <2>4, <2>5, <2>7
<1>. QED BY <1>3, <1>5 DEF numbered

\* The events of a call are numbered in the order of its array, however the run and the tools its
\* harness kept append to it at once, for any number of tool calls.
THEOREM AuditsAreNumbered == Spec => []AuditIsNumbered
<1>. QED BY NumbersFollow, AgentInvariant, PTL

-------------------------------------------------------------------------------
\* What a prepared attempt promises of the records its tools read.

LEMMA MinIsIn ==
  ASSUME NEW S \in SUBSET Nat, S # {}
  PROVE  Min(S) \in S /\ \A y \in S : Min(S) =< y
<1>1. \E x \in S : \A y \in S : ~(<<y, x>> \in OpToRel(<, Nat))
  BY NatLessThanWellFounded, WFMin, Zenon
<1>2. \A x, y \in Nat : ~(<<y, x>> \in OpToRel(<, Nat)) => x =< y BY DEF OpToRel
<1>3. \E x \in S : \A y \in S : x =< y BY <1>1, <1>2
<1>. QED BY <1>3 DEF Min

LEMMA FoundIsOfKind ==
  ASSUME NEW refs, NEW kind, Len(refs) \in Nat, FirstOfKind(refs, kind) # 0
  PROVE  FirstOfKind(refs, kind) \in 1 .. Len(refs) /\ refs[FirstOfKind(refs, kind)].kind = kind
<1>. DEFINE I == {i \in 1 .. Len(refs) : refs[i].kind = kind}
<1>1. FirstOfKind(refs, kind) = IF I # {} THEN Min(I) ELSE 0 BY DEF FirstOfKind, SelectInSeq
<1>2. I # {} /\ FirstOfKind(refs, kind) = Min(I) BY <1>1
<1>3. I \in SUBSET Nat OBVIOUS
<1>4. Min(I) \in I BY <1>2, <1>3, MinIsIn
<1>. QED BY <1>2, <1>4

\* Every required kind of an attempt the policy let through has a fit record.
LEMMA PolicyChecksRequired ==
  ASSUME NEW input, InputParses(input), EvaluatePolicy(input) = "prepared",
         NEW kind \in ToSet(input.required)
  PROVE  RefStatus(input, kind) = "prepared"
<1>. DEFINE required == input.required
            I == {i \in 1 .. Len(required) : RefStatus(input, required[i]) # "prepared"}
            unfit == SelectInSeq(required, LAMBDA k : RefStatus(input, k) # "prepared")
<1>1. required \in Seq(WorkerKind) BY DEF InputParses
<1>2. Len(required) \in Nat /\ DOMAIN required = 1 .. Len(required) BY <1>1
<1>3. unfit = IF I # {} THEN Min(I) ELSE 0 BY DEF SelectInSeq
<1>4. unfit # 0 => RefStatus(input, required[unfit]) = "prepared" BY DEF EvaluatePolicy
<1>5. I = {}
  <2>1. SUFFICES ASSUME I # {} PROVE FALSE OBVIOUS
  <2>2. I \in SUBSET Nat /\ \A i \in I : i >= 1 /\ RefStatus(input, required[i]) # "prepared"
    OBVIOUS
  <2>3. Min(I) \in I /\ unfit = Min(I) BY <1>3, <2>1, <2>2, MinIsIn
  <2>. HIDE DEF unfit, I
  <2>4. unfit \in I /\ unfit # 0 BY <2>2, <2>3
  <2>. QED BY <1>4, <2>2, <2>4
<1>6. PICK i \in 1 .. Len(required) : required[i] = kind BY <1>2 DEF ToSet
<1>. QED BY <1>5, <1>6

\* The record a tool of a prepared attempt reads, if all kinds of records are required of it.
LEMMA PreparedReads ==
  ASSUME NEW n \in DOMAIN Setups, WorkerKind \subseteq ToSet(Setups[n].input.required),
         NEW call, call.name \in ToolNames, call.name # "read_dead_letter_diagnosis",
         Attempts[n].status = "prepared", ~PreparedToolThrows(Attempts[n], call)
  PROVE  LET ref == RefRead(Attempts[n], call)
         IN  /\ ref.store = Attempts[n].store /\ ref.committedAt >= Attempts[n].minimum /\ ~ref.raw
             /\ AnswerSize(Attempts[n], call) \in Nat /\ Attempts[n].maxToolResult \in Nat
<1>. DEFINE input == Setups[n].input
            attempt == Attempts[n]
            kind == IF call.name = "read_worker_freshness" THEN call.arg ELSE SummaryTool[call.name]
            at == FirstOfKind(input.refs, kind)
            ref == input.refs[at]
<1>1. InputParses(input) BY AgentAssumption
<1>2. attempt = Prepare(input) BY DEF Attempts
<1>3. EvaluatePolicy(input) = "prepared" BY <1>2 DEF Prepare
<1>4. /\ attempt.store = input.store /\ attempt.minimum = input.minimum
      /\ attempt.maxToolResult = input.maxToolResult /\ attempt.refs = input.refs
  BY <1>2, <1>3 DEF Prepare
<1>5. call.name = "read_worker_freshness" \/ call.name \in DOMAIN SummaryTool
  BY DEF ToolNames
<1>6. at # 0
  <2>1. "read_worker_freshness" \notin DOMAIN SummaryTool BY DEF SummaryTool
  <2>2. CASE call.name = "read_worker_freshness"
    <3>1. call.name \notin DOMAIN SummaryTool BY <2>1, <2>2
    <3>2. PreparedToolThrows(attempt, call) =
            (attempt.status # "prepared" \/ RequireFreshnessRef(attempt, call.arg) = 0)
      BY <2>2, <3>1 DEF PreparedToolThrows
    <3>3. RequireFreshnessRef(attempt, call.arg) # 0 BY <3>2
    <3>. QED BY <1>4, <2>2, <3>3 DEF RequireFreshnessRef
  <2>3. CASE call.name \in DOMAIN SummaryTool
    <3>1. SummaryReadable(attempt, call.name, call.arg) BY <2>1, <2>3 DEF PreparedToolThrows
    <3>2. call.name # "read_worker_freshness" BY <2>1, <2>3
    <3>. QED BY <1>4, <3>1, <3>2 DEF SummaryReadable, RequireFreshnessRef
  <2>. QED BY <1>5, <2>2, <2>3
<1>7. RefRead(attempt, call) = ref BY <1>4 DEF RefRead, RequireFreshnessRef
<1>8. Len(input.refs) \in Nat /\ DOMAIN input.refs = 1 .. Len(input.refs)
  BY <1>1 DEF InputParses
<1>9. at \in 1 .. Len(input.refs) /\ ref.kind = kind BY <1>6, <1>8, FoundIsOfKind
<1>10. ref \in ToSet(input.refs) BY <1>8, <1>9 DEF ToSet
<1>11. kind \in ToSet(input.required) BY <1>1, <1>9, <1>10 DEF InputParses
<1>12. RefStatus(input, kind) = "prepared" BY <1>1, <1>3, <1>11, PolicyChecksRequired
<1>13. ref.store = input.store /\ ~(ref.committedAt < input.minimum) /\ ~ref.raw
  BY <1>6, <1>12 DEF RefStatus
<1>14. ref.committedAt \in Nat /\ ref.size \in Nat /\ input.minimum \in Nat
       /\ input.maxToolResult \in Nat
  BY <1>1, <1>10 DEF InputParses
<1>. HIDE DEF attempt, ref, input
<1>15. AnswerSize(attempt, call) \in Nat BY <1>7, <1>14 DEF AnswerSize
<1>. QED BY <1>4, <1>7, <1>13, <1>14, <1>15 DEF attempt

\* Every attempt requires a fresh record of every kind: what prepareAgentAttempt requires of the
\* callers that leave requiredWorkerKinds out, as those of the repository do.
AllKindsRequired ==
  \A n \in DOMAIN Setups : WorkerKind \subseteq ToSet(Setups[n].input.required)

LEMMA ToolsFollow == AgentInv /\ AllKindsRequired => ToolAnswersAreSafe
<1>. SUFFICES ASSUME AgentInv, AllKindsRequired, NEW s \in Slots, tool[s].step # "closed"
     PROVE LET attempt == Attempt(Caller(s))
               call == tool[s].call
           IN  /\ Executed(s) =>
                    /\ call.name \in Allowed(Caller(s)) \cap attempt.tools
                    /\ attempt.status = "prepared"
                    /\ ToolLogged(s, "tool_call_attempt")
               /\ tool[s].step = "answered" =>
                    /\ ToolLogged(s, "tool_result_sanitized")
                    /\ AnswerSize(attempt, call) =< attempt.maxToolResult
                    /\ RefRead(attempt, call).store = attempt.store
                    /\ RefRead(attempt, call).committedAt >= attempt.minimum
                    /\ ~RefRead(attempt, call).raw
  BY DEF ToolAnswersAreSafe
<1>. DEFINE c == tool[s].of
            n == main[c].setup
            call == tool[s].call
<1>1. /\ c \in Calls /\ main[c].holdsTools /\ tool[s] \in Tool
      /\ ToolGuarded(tool[s], n, Own(c, log))
  BY OpenTool
<1>2. MainOk(main[c]) BY <1>1 DEF AgentInv, CallOk
<1>3. Prepared(main[c]) /\ Permitted(main[c]) /\ n \in DOMAIN Setups BY <1>1, <1>2 DEF MainOk
<1>4. Attempt(Caller(s)) = Attempts[n] /\ Allowed(Caller(s)) = Setups[n].allowed
  BY DEF Attempt, Allowed, Caller
<1>5. \A type : HasTool(Own(c, log), type, call.name) => ToolLogged(s, type)
  BY DEF HasTool, Own, ToolLogged, Caller
<1>6. ASSUME Executed(s)
      PROVE  /\ call.name \in Allowed(Caller(s)) \cap Attempt(Caller(s)).tools
             /\ Attempt(Caller(s)).status = "prepared"
             /\ ToolLogged(s, "tool_call_attempt")
  BY <1>1, <1>3, <1>4, <1>5, <1>6 DEF Executed, ToolGuarded, Prepared, Permitted
<1>7. ASSUME tool[s].step = "answered"
      PROVE  /\ ToolLogged(s, "tool_result_sanitized")
             /\ AnswerSize(Attempts[n], call) =< Attempts[n].maxToolResult
             /\ RefRead(Attempts[n], call).store = Attempts[n].store
             /\ RefRead(Attempts[n], call).committedAt >= Attempts[n].minimum
             /\ ~RefRead(Attempts[n], call).raw
  <2>1. /\ ~PreparedToolThrows(Attempts[n], call)
        /\ call.name # "read_dead_letter_diagnosis"
        /\ ~(AnswerSize(Attempts[n], call) > Attempts[n].maxToolResult)
        /\ ToolLogged(s, "tool_result_sanitized")
    BY <1>1, <1>5, <1>7 DEF ToolGuarded
  <2>2. call.name \in ToolNames /\ Attempts[n].status = "prepared"
    BY <1>1, <1>3, AgentAssumption DEF Tool, Prepared
  <2>3. WorkerKind \subseteq ToSet(Setups[n].input.required) BY <1>3 DEF AllKindsRequired
  <2>4. /\ RefRead(Attempts[n], call).store = Attempts[n].store
        /\ RefRead(Attempts[n], call).committedAt >= Attempts[n].minimum
        /\ ~RefRead(Attempts[n], call).raw
        /\ AnswerSize(Attempts[n], call) \in Nat /\ Attempts[n].maxToolResult \in Nat
    BY <1>3, <2>1, <2>2, <2>3, PreparedReads
  <2>. QED BY <2>1, <2>4
<1>. QED BY <1>4, <1>6, <1>7

\* If every kind of record is required, a tool runs only within the policy of its run and after
\* its call is in the audit, and answers from a fit record, whatever records the caller passed.
THEOREM ToolAnswersAreFit == AllKindsRequired => (Spec => []ToolAnswersAreSafe)
<1>. SUFFICES ASSUME AllKindsRequired PROVE Spec => []ToolAnswersAreSafe
  OBVIOUS
<1>1. AgentInv => ToolAnswersAreSafe BY ToolsFollow
<1>. QED BY <1>1, AgentInvariant, PTL
===============================================================================
