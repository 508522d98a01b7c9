SPECIFICATION Spec
CONSTANTS
  ZeroAddress = zero
  Addresses = {alice, bob}
  MaxCertificates = 2
  Users = {p}
  Synchronizers = {p}
  Volumes = {1}
  MaxAttempts = 2
  MaxBatch = 2
  MaxCommands = 5
  MaxFailures = 1
INVARIANTS
  LogsReplay
  RowsCoverLog
  RowsCurrent
  ReportsBounded
SYMMETRY Symmetry
CHECK_DEADLOCK FALSE
