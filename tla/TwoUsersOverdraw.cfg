SPECIFICATION Spec
CONSTANTS
  ZeroAddress = zero
  Addresses = {alice, bob}
  MaxCertificates = 1
  Users = {u1, u2}
  Synchronizers = {}
  Volumes = {1}
  MaxAttempts = 2
  MaxBatch = 1
  MaxCommands = 3
  MaxFailures = 0
INVARIANTS
  LogsReplay
SYMMETRY Symmetry
CHECK_DEADLOCK FALSE
