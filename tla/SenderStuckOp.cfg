SPECIFICATION FairSpec
CONSTANTS
  Id = {u1}
  MaxVersion = 1
  MaxNonce = 1
  InitialNonce = 0
  MaxAttempts = 1
  ConfirmationDepth = 1
  Fault = {}
  None = None
PROPERTY ExecutedLeavesPool
CHECK_DEADLOCK FALSE
