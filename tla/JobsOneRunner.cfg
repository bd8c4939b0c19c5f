SPECIFICATION FairSpec
CONSTANTS
  Jobs = {1, 2}
  Kinds = {"projection"}
  Scopes <- MCOneScope
  KindOf <- MCOneKind
  Derived = {}
  ScopeOf <- MCInOneScope
  MaxAttempts <- MCSecondHasThree
  r1 = r1
  r2 = r2
  Runners = {r1}
  NoRunner = NoRunner
  Lease = 1
  RetryDelay <- MCShortDelay
  Policies <- MCWithPolicy
  Orders = {"clock_first", "input_first"}
  Drift = 1
  Faults = {"build"}
  MaxTime = 2
  MaxEvents = 2
INVARIANT CheckpointBackedByStore
PROPERTIES WatermarkNeverRegresses ClaimedJobSettles
