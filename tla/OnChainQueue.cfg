SPECIFICATION FairSpec
CONSTANTS
  Instances = {app1, app2}
  Deployers = {app1}
  DeployHook = "beforeInit"
  Calls = {c1}
  Requests <- SomeRequests
  MaxWaits = 0
  MaxPolls = 1
  MaxStalled = 1
  MaxRegistries = 2
  MaxFaults = 1
  None = none
INVARIANTS
  TypeOK
  RunsBounded
  DeployersDoNotTimeOut
PROPERTIES
  CallsAnswered
  KeepsPromise
CHECK_DEADLOCK FALSE
