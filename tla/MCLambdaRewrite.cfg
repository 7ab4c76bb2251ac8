CONSTANTS
  DataVals = {0, 1}
  WordBits = 8
  MaxLen = 3
  SkipInclusivePreds = {}
  ArgCountOverLiteral = FALSE
SPECIFICATION Spec
INVARIANTS
  TypePreserved
  MeaningPreserved
PROPERTIES
  ReachesFixpoint
