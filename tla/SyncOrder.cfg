SPECIFICATION SyncSpec
CONSTANTS
  ZeroAddress = zero
  Addresses = {alice}
  MaxCertificates = 1
  Users = {user}
  Jobs = {job1}
  Synchronizers <- Lanes
  Volumes = {1}
  MaxAttempts = 2
  MaxBatch = 1
  MaxCommands = 20
  MaxFailures = 1
  BlockSize = 1
  Limit = 4
  MaxRounds = 2
  MaxSubmitted = 3
INVARIANTS
  ChainOrder
  IdWhenSelected
  ExecutionsBounded
  FailuresAccepted
SYMMETRY SyncSymmetry
CHECK_DEADLOCK FALSE
