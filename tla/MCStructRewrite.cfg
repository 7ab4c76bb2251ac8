CONSTANTS
  DataVals = {0, 1}
  NullItems = FALSE
SPECIFICATION Spec
INVARIANTS
  TypePreserved
  MeaningPreserved
PROPERTIES
  ReachesFixpoint
