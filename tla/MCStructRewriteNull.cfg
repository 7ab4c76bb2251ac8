CONSTANTS
  DataVals = {0, 1}
  NullItems = TRUE
SPECIFICATION Spec
INVARIANTS
  TypePreserved
