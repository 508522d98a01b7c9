SPECIFICATION FairPipeline
CONSTANTS
  Requests = {r1, r2}
  Validators = {v1}
  Instances = {app}
  BatchSize <- SmallBatches
  MaxFailures = 1
PROPERTIES
  PickedUp
  RequestsSettle
CHECK_DEADLOCK FALSE
