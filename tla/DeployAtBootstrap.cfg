SPECIFICATION Spec
CONSTANTS
  Instances = {app1}
  Deployers = {app1}
  DeployHook = "bootstrap"
  Calls = {c1}
  Requests <- SomeRequests
  MaxWaits = 1
  MaxPolls = 1
  MaxStalled = 1
  MaxRegistries = 2
  MaxFaults = 0
  None = none
INVARIANT
  DeployersDoNotTimeOut
CHECK_DEADLOCK FALSE
