SPECIFICATION TriggeredSync
CONSTANTS
  ZeroAddress = zero
  Addresses = {alice}
  MaxCertificates = 2
  Users = {user}
  Jobs = {job1}
  Synchronizers <- Lanes
  Volumes = {1}
  MaxAttempts = 2
  MaxBatch = 2
  MaxCommands = 20
  MaxFailures = 1
  BlockSize = 2
  Limit = 2
  MaxRounds = 1
  MaxSubmitted = 2
INVARIANTS
  AnsweredMeansExecuted
  CountsNeverExceedReports
PROPERTIES
  RunsEnd
  EveryEventSettles
CHECK_DEADLOCK FALSE
