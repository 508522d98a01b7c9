SPECIFICATION Spec
CONSTANTS
  Ids <- TwoAndTwo
  Volumes = {0, 2, 5}
  Priorities <- AllPriorities
  MaxRounds = 20
  MaxTries = 2
  MaxFaults = 1
INVARIANTS
  VolumesConserved
  PrioritiesRespected
  SpreadEvenly
  RoundsBounded
  LogsFollowClaims
CHECK_DEADLOCK FALSE
