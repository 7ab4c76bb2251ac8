CONSTANTS
  DataVals = {0, 1}
  WordBits = 8
  MaxLen = 2
  SkipInclusivePreds = {TRUE}
  ArgCountOverLiteral = FALSE
SPECIFICATION Spec
INVARIANTS
  MeaningPreserved
