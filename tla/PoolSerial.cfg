SPECIFICATION Spec
CONSTANTS
  Thread = {t1}
  UserOp <- SerialOps
  BaseFee = {0, 9}
  MaxSize = 3
  MaxOpsPerSender = 2
  ReplacementFeeBumpBps = 1000
  MaxSequence = 3
  FeeModulus = 1000000
  None = None
INVARIANT IndexAgreement
PROPERTIES ImplementsMempool FailedAddDisplacesNothing
