SPECIFICATION Spec
CONSTANTS
  Thread = {t1, t2}
  UserOp <- CrowdOps
  BaseFee = {0}
  MaxSize = 1
  MaxOpsPerSender = 1
  ReplacementFeeBumpBps = 1000
  MaxSequence = 0
  FeeModulus = 1000000
  None = None
INVARIANT OneOperationPerId
