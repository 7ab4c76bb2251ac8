CONSTANTS
  Elems = {0, 1}
  Counts = {0, 1, 2}
  MaxStream = 2
  UintMod <- MCUintMod
  FlowOfOptional = FALSE
SPECIFICATION Spec
INVARIANTS
  TypePreserved
  MeaningRefined
PROPERTIES
  ReachesFixpoint
