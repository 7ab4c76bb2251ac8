CONSTANTS
  Nodes = {n1, n2}
  NoCallback = NoCallback
  Stages <- MCStages
  AsyncStages <- MCAsyncStages
  NullStages <- MCNullStages
  NumStages = 4
  MaxRepeats = 2
  MaxRuns = 2
SPECIFICATION Spec
\* A compilation stops for good once its last run is done, failed or cancelled.
CHECK_DEADLOCK FALSE
INVARIANTS
  TypeOK
  NoEnsureFailure
