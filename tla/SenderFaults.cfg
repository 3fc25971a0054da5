SPECIFICATION Spec
CONSTANTS
  Id = {u1, u2}
  MaxVersion = 1
  MaxNonce = 2
  InitialNonce = 0
  MaxAttempts = 1
  ConfirmationDepth = 1
  Fault = {"submit", "provider", "drop", "reorg", "restart", "revert", "fees"}
  None = None
INVARIANTS PendingTracked NonceNeverAhead TrackerMatchesTx ConfirmedIsMined
 
SYMMETRY IdSymmetry
CHECK_DEADLOCK FALSE
