------------------------------- MODULE AgentRun -------------------------------
(***************************************************************************)
(* Runs of prepared agent attempts (src/agent/agent-sidecar.ts) and the     *)
(* gate from a captured draft to a merchant review request                  *)
(* (src/agent/result-boundary.ts).                                          *)
(*                                                                         *)
(* An action is what happens from one await to the next: an answer of the   *)
(* audit store and its callback, and the code up to the next call. The      *)
(* harness is not trusted: it calls tools in any order, several at a time,  *)
(* leaves them open when its turn ends and may call them afterwards.        *)
(***************************************************************************)
EXTENDS PreparedAttempt, FiniteSets

CONSTANTS
  Runs,       \* agent run ids
  Calls,      \* calls of runAgentAttempt, of one run or of several
  Slots,      \* bounds the tool calls harnesses make, over all calls
  Setups,     \* what calls are given, by name: [input, allowed, defect]
  ToolCalls,  \* the tool calls a harness may try: [name, arg]
  Drafts,     \* drafts a harness may return: [refs, guardrails]
  NoDraft,    \* stands for no draft, or one that does not parse
  Contexts,   \* context bundles of result gates: [own, refs, confident, sufficient]
  MaxTranscript,  \* bounds the transcript of a turn
  Faults,     \* subset of {"reject", "ack"}
  MaxFailures \* bounds the calls to the store that fail

Defects == {"none", "callbacks", "prompt", "policy", "tools", "runtime"}

ASSUME AgentAssumption ==
  /\ \A n \in DOMAIN Setups :
       /\ Setups[n].allowed \subseteq ToolNames /\ Setups[n].defect \in Defects
       /\ InputParses(Setups[n].input)
  /\ Runs # {} /\ Contexts # {} /\ ToolCalls # {}
  /\ \A call \in ToolCalls : call.name \in ToolNames
  /\ NoDraft \notin Drafts
  /\ MaxTranscript \in Nat /\ MaxFailures \in Nat
  /\ Faults \subseteq {"reject", "ack"}

VARIABLES
  runs,    \* the audit store: the row of each run
  log,     \* the audit store: the events, numbered per call
  main,    \* each call: where it waits, the length of its events array, what it was given
  tool,    \* each tool call: the call it belongs to, where it waits
  review,  \* the result gate and review request for the draft of each call
  failures \* how many calls to the store have failed

vars == <<runs, log, main, tool, review, failures>>

-------------------------------------------------------------------------------

GateEvents == <<"run_started", "attempt_loaded", "policy_evaluated", "runtime_selected",
                "harness_invoked">>
MainEvents == ToSet(GateEvents) \cup {"harness_transcript_event", "draft_captured", "run_failed"}
ToolEvents == {"tool_call_attempt", "tool_call_denied", "tool_result_sanitized"}
ReviewEvents == {"draft_validation_evaluated", "merchant_review_requested"}
Ended == {"captured", "failed", "rejected"}

NoTool == "none"

AgentRunEvent == [call : Calls, number : Nat, type : MainEvents \cup ToolEvents \cup ReviewEvents,
                  tool : ToolNames \cup {NoTool}]

Row == [status : {"none", "started", "draft_captured", "failed"}, draft : Drafts \cup {NoDraft}]

\* A call waits for the store at "append_run", at the event it appended, and at the two
\* replacements of its row; at "turn" it waits for the harness.
MainStep == {"idle", "append_run", "turn", "replace_captured", "replace_failed"} \cup MainEvents
              \cup Ended

ToolStep == {"closed", "answered", "threw"} \cup ToolEvents
ReviewStep == {"none", "refused", "requesting", "requested", "rejected"}

Attempts == [n \in DOMAIN Setups |-> Prepare(Setups[n].input)]

Idle == [step |-> "idle", run |-> CHOOSE r \in Runs : TRUE, setup |-> "none",
         number |-> 0, events |-> 0, draft |-> NoDraft, transcript |-> 0, holdsTools |-> FALSE]
Closed == [step |-> "closed", of |-> "none", call |-> CHOOSE t \in ToolCalls : TRUE, number |-> 0]

Init ==
  /\ runs = [r \in Runs |-> [status |-> "none", draft |-> NoDraft]]
  /\ log = {}
  /\ main = [c \in Calls |-> Idle]
  /\ tool = [s \in Slots |-> Closed]
  /\ review = [c \in Calls |-> [step |-> "none", context |-> CHOOSE x \in Contexts : TRUE]]
  /\ failures = 0

-------------------------------------------------------------------------------

\* The attempt a call was given, prepared by its caller, and the tools its policy allows.
Attempt(c) == Attempts[main[c].setup]
Allowed(c) == Setups[main[c].setup].allowed

\* How a call to the store fails: "reject" when it did nothing, "ack" when it did what it was asked
\* but the answer was lost or the audit callback threw.
Failures == {f \in [done : BOOLEAN] : (IF f.done THEN "ack" ELSE "reject") \in Faults}

\* Mutant of NextNumber: by the events the store holds.
NumberInStore(c) == Cardinality({e \in log : e.call = c}) + 1

\* appendEvent numbers an event by the length of the events array of its call.
NextNumber(c) == main[c].events + 1

\* The call m, a new version of main[c], appends an event and waits.
AppendEvent(c, m, type) ==
  main' = [main EXCEPT ![c] = [m EXCEPT !.step = type, !.number = NextNumber(c), !.events = @ + 1]]

Goto(c, step) == main' = [main EXCEPT ![c].step = step]

\* Mutant of Catch: the row is replaced without an event.
CatchUnaudited(c) == Goto(c, "replace_failed")

\* The catch block of runAgentAttempt.
Catch(c) == AppendEvent(c, main[c], "run_failed")

\* The catch block for an error from outside: one without a message makes the failed run not
\* parse, and the call rejects.
CatchForeign(c) == Catch(c) \/ Goto(c, "rejected")

StoreEvent(c, done) ==
  log' = IF done THEN log \cup {[call |-> c, number |-> main[c].number, type |-> main[c].step,
                                 tool |-> NoTool]}
         ELSE log

\* What must hold before the code appends a gate event: parseCallbacks,
\* assertPreparedAttemptConsumable, parsePrompt with parseAndCheckPolicy and assertToolSurface,
\* parseRuntime with assertRuntimeHarness.
Passes(c, type) ==
  CASE type = "run_started" -> Setups[main[c].setup].defect # "callbacks"
    [] type = "attempt_loaded" -> Attempt(c).status = "prepared"
    [] type = "policy_evaluated" ->
         /\ Setups[main[c].setup].defect \notin {"prompt", "policy", "tools"}
         /\ Allowed(c) \subseteq Attempt(c).tools
    [] type = "runtime_selected" -> Setups[main[c].setup].defect # "runtime"
    [] type = "harness_invoked" -> TRUE

Proceed(c, type) == IF Passes(c, type) THEN AppendEvent(c, main[c], type) ELSE Catch(c)

\* After the turn: the transcript events one by one, then the draft.
AfterTurn(c, m) ==
  IF m.transcript > 0
  THEN AppendEvent(c, [m EXCEPT !.transcript = @ - 1], "harness_transcript_event")
  ELSE AppendEvent(c, m, IF m.draft = NoDraft THEN "run_failed" ELSE "draft_captured")

-------------------------------------------------------------------------------
\* runAgentAttempt

Begin(c) ==
  /\ main[c].step = "idle"
  /\ \E r \in Runs, n \in DOMAIN Setups :
       main' = [main EXCEPT ![c] = [Idle EXCEPT !.step = "append_run", !.run = r, !.setup = n]]
  /\ UNCHANGED <<runs, log, tool, review>>

\* appendRun writes the row whether or not the run has one.
StartRow(c, done) ==
  runs' = IF done THEN [runs EXCEPT ![main[c].run] = [status |-> "started", draft |-> NoDraft]]
          ELSE runs

RunAppended(c) ==
  /\ main[c].step = "append_run"
  /\ StartRow(c, TRUE)
  /\ Proceed(c, "run_started")
  /\ UNCHANGED <<log, tool, review>>

\* appendRun is called outside the try block.
AppendRunFails(c) ==
  /\ main[c].step = "append_run"
  /\ \E f \in Failures : StartRow(c, f.done)
  /\ Goto(c, "rejected")
  /\ UNCHANGED <<log, tool, review>>

GateEventAppended(c) ==
  /\ \E i \in 1 .. Len(GateEvents) - 1 :
       main[c].step = GateEvents[i] /\ Proceed(c, GateEvents[i + 1])
  /\ StoreEvent(c, TRUE)
  /\ UNCHANGED <<runs, tool, review>>

\* The harness gets its turn, and tools it keeps when the turn and the call have ended.
HarnessInvoked(c) ==
  /\ main[c].step = "harness_invoked"
  /\ StoreEvent(c, TRUE)
  /\ main' = [main EXCEPT ![c].step = "turn", ![c].holdsTools = TRUE]
  /\ UNCHANGED <<runs, tool, review>>

TurnReturns(c) ==
  /\ main[c].step = "turn"
  /\ \E draft \in Drafts \cup {NoDraft}, n \in 0 .. MaxTranscript :
       AfterTurn(c, [main[c] EXCEPT !.draft = draft, !.transcript = n])
  /\ UNCHANGED <<runs, log, tool, review>>

TurnThrows(c) ==
  /\ main[c].step = "turn"
  /\ CatchForeign(c)
  /\ UNCHANGED <<runs, log, tool, review>>

TranscriptEventAppended(c) ==
  /\ main[c].step = "harness_transcript_event"
  /\ StoreEvent(c, TRUE)
  /\ AfterTurn(c, main[c])
  /\ UNCHANGED <<runs, tool, review>>

DraftCaptured(c) ==
  /\ main[c].step = "draft_captured"
  /\ StoreEvent(c, TRUE)
  /\ Goto(c, "replace_captured")
  /\ UNCHANGED <<runs, tool, review>>

\* An event of the try block is not stored, or stored without the code knowing.
EventFails(c) ==
  /\ main[c].step \in MainEvents \ {"run_failed"}
  /\ \E f \in Failures : StoreEvent(c, f.done)
  /\ CatchForeign(c)
  /\ UNCHANGED <<runs, tool, review>>

\* Mutant of ReplaceRow: the row gets the stage of its call for a status.
ReplaceRowWithStage(c, done, status, draft) ==
  runs' = IF done THEN [runs EXCEPT ![main[c].run] = [status |-> main[c].step, draft |-> draft]]
          ELSE runs

ReplaceRow(c, done, status, draft) ==
  runs' = IF done THEN [runs EXCEPT ![main[c].run] = [status |-> status, draft |-> draft]] ELSE runs

CapturedReplaced(c) ==
  /\ main[c].step = "replace_captured"
  /\ ReplaceRow(c, TRUE, "draft_captured", main[c].draft)
  /\ Goto(c, "captured")
  /\ UNCHANGED <<log, tool, review>>

ReplaceCapturedFails(c) ==
  /\ main[c].step = "replace_captured"
  /\ \E f \in Failures : ReplaceRow(c, f.done, "draft_captured", main[c].draft)
  /\ CatchForeign(c)
  /\ UNCHANGED <<log, tool, review>>

RunFailed(c) ==
  /\ main[c].step = "run_failed"
  /\ StoreEvent(c, TRUE)
  /\ Goto(c, "replace_failed")
  /\ UNCHANGED <<runs, tool, review>>

FailedReplaced(c) ==
  /\ main[c].step = "replace_failed"
  /\ ReplaceRow(c, TRUE, "failed", NoDraft)
  /\ Goto(c, "failed")
  /\ UNCHANGED <<log, tool, review>>

\* What fails inside the catch block rejects the call.
CatchFails(c) ==
  /\ \E f \in Failures :
       \/ main[c].step = "run_failed" /\ StoreEvent(c, f.done) /\ UNCHANGED runs
       \/ main[c].step = "replace_failed" /\ ReplaceRow(c, f.done, "failed", NoDraft)
            /\ UNCHANGED log
  /\ Goto(c, "rejected")
  /\ UNCHANGED <<tool, review>>

-------------------------------------------------------------------------------
\* guardedToolCall

\* The call whose tools a tool call is one of.
Caller(s) == tool[s].of

\* A tool call t, a new version of tool[s], appends an event to the audit of its call and waits.
AppendToolEvent(s, t, type) ==
  /\ tool' = [tool EXCEPT ![s] = [t EXCEPT !.step = type, !.number = NextNumber(t.of)]]
  /\ main' = [main EXCEPT ![t.of].events = @ + 1]

StoreToolEvent(s, done) ==
  log' = IF done THEN log \cup {[call |-> Caller(s), number |-> tool[s].number,
                                 type |-> tool[s].step, tool |-> tool[s].call.name]}
         ELSE log

ToolEnds(s, step) == tool' = [tool EXCEPT ![s].step = step] /\ UNCHANGED main

CallTool(c, s) ==
  /\ main[c].holdsTools
  /\ tool[s].step = "closed"
  /\ \E call \in ToolCalls :
       AppendToolEvent(s, [Closed EXCEPT !.of = c, !.call = call],
         IF call.name \in Allowed(c) THEN "tool_call_attempt" ELSE "tool_call_denied")
  /\ UNCHANGED <<runs, log, review>>

Throws(s) == PreparedToolThrows(Attempt(Caller(s)), tool[s].call)

\* The size of an answer cannot be taken when the answer is undefined: Buffer.byteLength throws.
Undefined(s) == tool[s].call.name = "read_dead_letter_diagnosis"

OverBudget(s) ==
  AnswerSize(Attempt(Caller(s)), tool[s].call) > Attempt(Caller(s)).maxToolResult

\* The prepared tool runs once its attempt is in the audit.
ExecuteTool(s) ==
  /\ tool[s].step = "tool_call_attempt"
  /\ StoreToolEvent(s, TRUE)
  /\ IF Throws(s) \/ Undefined(s) THEN ToolEnds(s, "threw")
     ELSE AppendToolEvent(s, tool[s],
            IF OverBudget(s) THEN "tool_call_denied" ELSE "tool_result_sanitized")
  /\ UNCHANGED <<runs, review>>

AnswerTool(s) ==
  /\ tool[s].step = "tool_result_sanitized"
  /\ StoreToolEvent(s, TRUE)
  /\ ToolEnds(s, "answered")
  /\ UNCHANGED <<runs, review>>

DenyTool(s) ==
  /\ tool[s].step = "tool_call_denied"
  /\ StoreToolEvent(s, TRUE)
  /\ ToolEnds(s, "threw")
  /\ UNCHANGED <<runs, review>>

ToolEventFails(s) ==
  /\ tool[s].step \in ToolEvents
  /\ \E f \in Failures : StoreToolEvent(s, f.done)
  /\ ToolEnds(s, "threw")
  /\ UNCHANGED <<runs, review>>

-------------------------------------------------------------------------------
\* requestMerchantReviewForAgentDraft

\* Mutant of ValidationDecision: any evidence will do.
AnyEvidenceWillDo(draft, context) ==
  IF ~context.own \/ draft.refs = {} \/ ~context.confident \/ ~draft.guardrails THEN "block"
  ELSE IF ~context.sufficient THEN "needs_more_data" ELSE "accept"

\* buildAgentDraftArtifacts and validateExperimentPlan: what does not parse, is of another run,
\* cites no evidence or evidence the context lacks, or lacks confidence or guardrails is blocked.
ValidationDecision(draft, context) ==
  IF \/ ~context.own
     \/ draft.refs = {} \/ ~(draft.refs \subseteq context.refs)
     \/ ~context.confident
     \/ ~draft.guardrails
  THEN "block"
  ELSE IF ~context.sufficient THEN "needs_more_data" ELSE "accept"

\* The events of the result boundary are not numbered: their ids hold their type and time.
StoreReviewEvent(c, type, done) ==
  log' = IF done THEN log \cup {[call |-> c, number |-> 0, type |-> type, tool |-> NoTool]} ELSE log

\* assertCapturedDraft: the caller holds a run that returned with its draft. It may request its
\* review again, whatever became of the last request.
HoldsCapturedDraft(c) == main[c].step = "captured"

EvaluateGate(c) ==
  /\ HoldsCapturedDraft(c)
  /\ review[c].step # "requesting"
  /\ \E context \in Contexts :
       review' = [review EXCEPT ![c] =
         [context |-> context,
          step |-> IF ValidationDecision(main[c].draft, context) = "accept"
                   THEN "requesting" ELSE "refused"]]
  /\ StoreReviewEvent(c, "draft_validation_evaluated", TRUE)
  /\ UNCHANGED <<runs, main, tool>>

RequestReview(c) ==
  /\ review[c].step = "requesting"
  /\ StoreReviewEvent(c, "merchant_review_requested", TRUE)
  /\ review' = [review EXCEPT ![c].step = "requested"]
  /\ UNCHANGED <<runs, main, tool>>

ReviewFails(c) ==
  /\ \E f \in Failures :
       \/ HoldsCapturedDraft(c) /\ review[c].step # "requesting"
            /\ StoreReviewEvent(c, "draft_validation_evaluated", f.done)
       \/ review[c].step = "requesting"
            /\ StoreReviewEvent(c, "merchant_review_requested", f.done)
  /\ review' = [review EXCEPT ![c].step = "rejected"]
  /\ UNCHANGED <<runs, main, tool>>

-------------------------------------------------------------------------------

RunAgentAttempt(c) ==
  /\ UNCHANGED failures
  /\ \/ Begin(c) \/ RunAppended(c) \/ GateEventAppended(c) \/ HarnessInvoked(c)
     \/ TurnReturns(c) \/ TurnThrows(c) \/ TranscriptEventAppended(c)
     \/ DraftCaptured(c) \/ CapturedReplaced(c) \/ RunFailed(c) \/ FailedReplaced(c)

GuardedToolCall(s) ==
  /\ UNCHANGED failures
  /\ (\E c \in Calls : CallTool(c, s)) \/ ExecuteTool(s) \/ AnswerTool(s) \/ DenyTool(s)

ReviewOfDraft(c) == UNCHANGED failures /\ (EvaluateGate(c) \/ RequestReview(c))

StoreFails ==
  \/ \E c \in Calls : \/ AppendRunFails(c) \/ EventFails(c) \/ ReplaceCapturedFails(c)
                      \/ CatchFails(c) \/ ReviewFails(c)
  \/ \E s \in Slots : ToolEventFails(s)

GoWrong == failures < MaxFailures /\ failures' = failures + 1 /\ StoreFails

Next ==
  \/ \E c \in Calls : RunAgentAttempt(c) \/ ReviewOfDraft(c)
  \/ \E s \in Slots : GuardedToolCall(s)
  \/ GoWrong

Spec == Init /\ [][Next]_vars

-------------------------------------------------------------------------------

TypeOK ==
  /\ runs \in [Runs -> Row]
  /\ log \subseteq AgentRunEvent
  /\ main \in [Calls -> [step : MainStep, run : Runs, setup : DOMAIN Setups \cup {"none"},
                         number : Nat, events : Nat, draft : Drafts \cup {NoDraft},
                         transcript : 0 .. MaxTranscript, holdsTools : BOOLEAN]]
  /\ tool \in [Slots -> [step : ToolStep, of : Calls \cup {"none"}, call : ToolCalls, number : Nat]]
  /\ review \in [Calls -> [step : ReviewStep, context : Contexts]]
  /\ failures \in 0 .. MaxFailures

Logged(c, type) == \E e \in log : e.call = c /\ e.type = type

OfMain(type) == type \in MainEvents \ ToSet(GateEvents)

\* The events of one call carry different numbers of its events array, however the appends of the
\* run and of the tools the harness left open interleave: the gate events their places in the
\* sequence, what the harness, its tools and the rest of the run did later ones, and the end of a
\* run one after all its transcript; a run that captured a draft can only fail afterwards.
AuditIsNumbered ==
  \A c \in Calls : LET numbered == {e \in log : e.call = c /\ e.number > 0} IN
    /\ Cardinality({e.number : e \in numbered}) = Cardinality(numbered)
    /\ \A e \in numbered :
         /\ e.number =< main[c].events
         /\ IF e.number =< Len(GateEvents) THEN e.type \in {GateEvents[e.number], "run_failed"}
            ELSE e.type \notin ToSet(GateEvents)
         /\ e.type = "draft_captured" => \A f \in numbered :
              f.type = "harness_transcript_event" => f.number < e.number
         /\ e.type = "run_failed" => \A f \in numbered : OfMain(f.type) => f.number =< e.number

ToolLogged(s, type) ==
  \E e \in log : e.call = Caller(s) /\ e.type = type /\ e.tool = tool[s].call.name

\* The prepared tool of a tool call ran.
Executed(s) ==
  \/ tool[s].step \in {"tool_result_sanitized", "answered"}
  \/ tool[s].step = "tool_call_denied" /\ tool[s].call.name \in Allowed(Caller(s))

\* A tool runs only for a prepared attempt, within the policy of the run and after its call is in
\* the audit; and what the harness gets is in the audit, within the budget, and from a record of
\* the attempt's own store that was fresh enough and free of forbidden data when the attempt was
\* prepared, even when the caller passed several records of a kind.
ToolAnswersAreSafe ==
  \A s \in Slots : tool[s].step # "closed" =>
    LET attempt == Attempt(Caller(s))
        call == tool[s].call
    IN  /\ Executed(s) =>
             /\ call.name \in Allowed(Caller(s)) \cap attempt.tools
             /\ attempt.status = "prepared"
             /\ ToolLogged(s, "tool_call_attempt")
        /\ tool[s].step = "answered" =>
             /\ ToolLogged(s, "tool_result_sanitized")
             /\ AnswerSize(attempt, call) =< attempt.maxToolResult
             /\ RefRead(attempt, call).store = attempt.store
             /\ RefRead(attempt, call).committedAt >= attempt.minimum
             /\ ~RefRead(attempt, call).raw

CallsOf(r) == {c \in Calls : main[c].step # "idle" /\ main[c].run = r}

\* What a call returns is in the audit, and what a row says was done by a call of its run: a draft
\* is that of a call that logged its capture, a row stays "started" only while a call is under way
\* or has been rejected, and once every call of a run has returned, the row is one of their results.
OutcomesAreAudited ==
  /\ \A c \in Calls :
       /\ main[c].step = "captured" => Logged(c, "draft_captured") /\ ~Logged(c, "run_failed")
       /\ main[c].step = "failed" => Logged(c, "run_failed")
  /\ \A r \in Runs :
       /\ runs[r].status = "started" =>
            \E c \in CallsOf(r) : main[c].step \notin {"captured", "failed"}
       /\ runs[r].status = "draft_captured" =>
            \E c \in CallsOf(r) : Logged(c, "draft_captured") /\ main[c].draft = runs[r].draft
       /\ runs[r].status = "failed" => \E c \in CallsOf(r) : Logged(c, "run_failed")
       /\ CallsOf(r) # {} /\ (\A c \in CallsOf(r) : main[c].step \in {"captured", "failed"}) =>
            \E c \in CallsOf(r) :
              runs[r].status = IF main[c].step = "captured" THEN "draft_captured" ELSE "failed"

\* A merchant review is requested only for a draft that a run of a prepared attempt returned
\* without ever logging a failure, after its validation was logged, and only when its evidence is
\* that of the context and the peer sample suffices.
ReviewsAreGated ==
  \A c \in Calls : review[c].step \in {"requesting", "requested"} =>
    LET draft == main[c].draft
        context == review[c].context
    IN  /\ Attempt(c).status = "prepared" /\ draft # NoDraft
        /\ Logged(c, "draft_captured") /\ ~Logged(c, "run_failed")
        /\ Logged(c, "draft_validation_evaluated")
        /\ draft.refs # {} /\ draft.refs \subseteq context.refs
        /\ context.own /\ context.sufficient
        /\ review[c].step = "requested" => Logged(c, "merchant_review_requested")

\* An allowed tool call whose prepared tool returned ends in the audit, as a sanitized result or
\* as a denial (boundary contract, tool policy lifecycle, rule 3). With a store that works, the
\* code breaks it: read_dead_letter_diagnosis of a prepared attempt is undefined, and taking the
\* size of its answer throws.
ExecutedToolsAreAudited ==
  \A s \in Slots :
    tool[s].step = "threw" /\ tool[s].call.name \in Allowed(Caller(s)) /\ ~Throws(s)
    => ToolLogged(s, "tool_call_denied") \/ ToolLogged(s, "tool_result_sanitized")
===============================================================================
