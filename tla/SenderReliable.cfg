SPECIFICATION FairSpec
CONSTANTS
  Id = {u1, u2, u3}
  MaxVersion = 2
  MaxNonce = 3
  InitialNonce = 0
  MaxAttempts = 2
  ConfirmationDepth = 2
  Fault = {}
  None = None
PROPERTIES  BundleEnds
CHECK_DEADLOCK FALSE
