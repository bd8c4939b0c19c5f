SPECIFICATION Spec
CONSTANTS
  Jobs = {1, 2}
  Kinds = {"projection"}
  Scopes <- MCOneScope
  KindOf <- MCOneKind
  Derived = {}
  ScopeOf <- MCInOneScope
  MaxAttempts <- MCSecondHasOne
  r1 = r1
  r2 = r2
  Runners = {r1, r2}
  NoRunner = NoRunner
  Lease = 1
  RetryDelay <- MCRetryDelay
  Policies <- MCBothPolicies
  Orders = {"clock_first"}
  Drift = 0
  Faults = {"build", "statement", "ack", "crash"}
  MaxTime = 1
  MaxEvents = 1
SYMMETRY Symmetry
INVARIANTS TypeOK ExclusiveAttempt RunMatchesRow LedgerAgrees AttemptsAccounted WaitingIsClaimable
  ReportedOutcomeIsDurable FreshnessIsHonest BackoffIsHonoured
PROPERTIES TerminalIsFinal ImplementsLifecycle
