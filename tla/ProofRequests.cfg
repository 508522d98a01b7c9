SPECIFICATION FairSpec
CONSTANTS
  r1 = r1
  r2 = r2
  Requests = {r1, r2}
  DeviceOf <- Devices
  Unstorable = {r2}
  Instances = {a, b}
  Limit = 2
  MaxFaults = 1
INVARIANTS
  NothingLost
  ProofsBounded
  ProcessingIsAttended
PROPERTY
  TakenUp
CHECK_DEADLOCK FALSE
