SPECIFICATION Spec
CONSTANTS
  None = None
  Events <- MCEvents
  Labels <- MCLabels
  Store = "s1"
  Date = 9
  Confirmations <- MCConfirmations
  PeerInputs <- MCPeerInputs
  MaxLog = 4
  NotBuilt = NotBuilt
INVARIANTS TypeOK ReadModelsFollowEvents GapsAreEarned
