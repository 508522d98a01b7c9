SPECIFICATION Spec
CONSTANTS
  ZeroAddress = zero
  Addresses = {alice, zero}
  MaxCertificates = 2
  Users = {u1, u2}
  Synchronizers = {}
  Volumes = {1}
  MaxAttempts = 2
  MaxBatch = 2
  MaxCommands = 4
  MaxFailures = 1
INVARIANTS
  TypeOK
  RowsReplay
  IssuanceFirst
SYMMETRY Symmetry
CHECK_DEADLOCK FALSE
