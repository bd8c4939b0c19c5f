SPECIFICATION Spec
CONSTANTS
  Jobs = {1, 2}
  Kinds = {"projection"}
  Scopes <- MCOneScope
  KindOf <- MCOneKind
  Derived = {}
  ScopeOf <- MCInOneScope
  MaxAttempts <- MCTwoAttempts
  r1 = r1
  r2 = r2
  Runners = {r1, r2}
  NoRunner = NoRunner
  Lease = 1
  RetryDelay <- MCRetryDelay
  Policies <- MCWithPolicy
  Orders = {"clock_first"}
  Drift = 0
  Faults = {}
  MaxTime = 1
  MaxEvents = 1
INVARIANT CheckpointBackedByStore
