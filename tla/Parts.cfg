SPECIFICATION Spec
CONSTANTS
  Market <- Markets
  MaxBlocks = 4
  MaxReorgs = 1
  HistorySize = 3
  MaxAttempts = 2
  BumpBps = 1250
  PremiumBps = 1500
  Sender = {a1, a2, a3}
  Slot = {s1, s2}
  MaxAdded = 3
  Caller = {c1, c2}
  Strategies = 3
  MaxBid = 2
  Signers = 3
  IndexModulus = 8
  MaxLeases = 6
  Byte = {0, 255}
  AddressLength = 2
  GasLength = 1
  Given <- GivenOps
  OnChain <- ChainOps
  Partial <- PartialOps
  MaxVerificationGas <- Top
  MaxCallGas <- Top
  Context = {x1, x2}
  NoAddress = NoAddress
  NoGas = NoGas
  NoHash = NoHash
  NoContext = NoContext
  Gas = {1, 3}
  Price = {0, 2}
  Reply <- Replies
  LogWindow = 2
  MaxHeight = 4
  MaxEthReorgs = 1
SYMMETRY PartsSymmetry
INVARIANTS
  WindowInOrder FeesNotStale
  DetectorIsExact AddedCommute
  AsksEachOnce  PrimaryHasAccepted
  LeasesBalanced
   PackingKeepsOperation
   SeenSomewhere 
PROPERTY ReplacementOutbids
CHECK_DEADLOCK FALSE
