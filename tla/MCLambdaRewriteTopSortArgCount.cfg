CONSTANTS
  DataVals = {0, 1}
  WordBits = 8
  MaxLen = 2
  SkipInclusivePreds = {}
  ArgCountOverLiteral = TRUE
SPECIFICATION Spec
INVARIANT
  TypeOK
