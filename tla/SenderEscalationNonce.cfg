SPECIFICATION Spec
CONSTANTS
  Id = {u1}
  MaxVersion = 1
  MaxNonce = 2
  InitialNonce = 1
  MaxAttempts = 1
  ConfirmationDepth = 1
  Fault = {}
  None = None
INVARIANT EscalationReplaces
CHECK_DEADLOCK FALSE
