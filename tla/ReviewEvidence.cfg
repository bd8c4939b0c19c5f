SPECIFICATION Spec
CONSTANTS
  Plans <- MCPlans
  Guardrails <- MCGuardrails
  Reviews = {v1, v2}
  MaxRows = 4
  NoDecision = NoDecision
  MinDenominator = 10
  NoValue = NoValue
  NoSnapshot = NoSnapshot
  Snapshots <- MCSnapshots
  Gaps <- MCGaps
  MaxRuns = 1
INVARIANTS TypeOK FactsFollowDecisions VerdictIsSound
CHECK_DEADLOCK FALSE
SYMMETRY ReviewSymmetry
