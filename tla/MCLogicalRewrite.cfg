CONSTANTS
  BoolArgs <- MCBoolArgs
  OptArgs <- MCOptArgs
  NULL = NULL
  MaxCoalesceArgs = 2
SPECIFICATION Spec
INVARIANTS
  TypePreserved
  MeaningPreserved
PROPERTIES
  ReachesFixpoint
