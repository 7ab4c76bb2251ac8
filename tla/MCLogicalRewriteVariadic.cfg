CONSTANTS
  BoolArgs <- MCBoolArgs
  OptArgs <- MCOptArgs
  NULL = NULL
  MaxCoalesceArgs = 3
SPECIFICATION Spec
INVARIANTS
  MeaningPreserved
