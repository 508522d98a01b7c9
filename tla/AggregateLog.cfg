SPECIFICATION Spec
CONSTANTS
  ZeroAddress = zero
  Addresses = {zero, alice, bob}
  MaxCertificates = 1
  Volumes = {0, 1, 2}
  MaxEvents = 4
  MaxRefused = 3
INVARIANTS
  BalanceSheet
  VolumeConserved
  SyncedWhenAllPersisted
PROPERTY
  RefusedForGood
CHECK_DEADLOCK FALSE
