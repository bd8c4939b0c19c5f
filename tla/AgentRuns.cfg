SPECIFICATION Spec
CONSTANTS
  Runs = {r1}
  Calls = {c1, c2}
  Slots = {s1}
  Setups <- MCGates
  ToolCalls <- MCToolCalls
  Drafts <- MCDrafts
  NoDraft = NoDraft
  Contexts <- MCContexts
  MaxTranscript = 1
  Faults = {"reject", "ack"}
  MaxFailures = 1
SYMMETRY Symmetry
INVARIANTS TypeOK AuditIsNumbered ToolAnswersAreSafe OutcomesAreAudited ReviewsAreGated
CHECK_DEADLOCK FALSE
