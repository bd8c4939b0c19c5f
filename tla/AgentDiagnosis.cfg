SPECIFICATION Spec
CONSTANTS
  Runs = {r1}
  Calls = {c1}
  Slots = {s1}
  Setups <- MCDiagnosisSetups
  ToolCalls <- MCDiagnosis
  Drafts <- MCDrafts
  NoDraft = NoDraft
  Contexts <- MCContexts
  MaxTranscript = 1
  Faults = {}
  MaxFailures = 0
INVARIANT ExecutedToolsAreAudited
CHECK_DEADLOCK FALSE
