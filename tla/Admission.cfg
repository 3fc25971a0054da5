SPECIFICATION Spec
CONSTANTS
  Thread = {t1, t2}
  UserOp <- Ops
  MaxSize = 3
  MaxOpsPerSender = 3
  ReplacementFeeBumpBps = 1000
  SequenceModulus = 6
  MaxTransactionSize = 1
  MinPriority = 1
  BaseFee = 0
  ZeroAddress = ZeroAddress
  MinOpsForThrottle = 1
  ThrottleDenominator = 2
  BanDenominator = 4
  MaxSubmissions = 4
  MaxDecays = 1
  None = None
SYMMETRY ThreadSymmetry
INVARIANTS TypeOK NonceRunsBounded SeenWithinOvershoot 
PROPERTY DecayBansNobody
CHECK_DEADLOCK FALSE
