SPECIFICATION Spec
CONSTANTS
  Entry <- Entries
  BaseFee = {1, 10}
  Reply <- Replies
  MinPriority = 1
  MaxBundleSize = 4
  MaxRetries = 3
  PerOpGas = 5
  IntrinsicGas = 21
  GasModulus = 1024
INVARIANTS TypeOK BundlePartition OkPassedSimulation GasCoversOps
