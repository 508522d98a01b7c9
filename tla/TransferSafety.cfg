SPECIFICATION PipelineSpec
CONSTANTS
  Requests = {r1}
  Validators = {v1, v2}
  Instances = {app}
  BatchSize <- SmallBatches
  MaxFailures = 3
INVARIANTS
  ConsentBeforeTransfer
  IssuedOnce
  RowsMatchLedger
  AnswersRegistered
PROPERTY
  RefusalsStick
SYMMETRY PipelineSymmetry
CHECK_DEADLOCK FALSE
