CONSTANTS
  Elems = {0, 1}
  Counts = {0, 1, 2}
  MaxStream = 2
  UintMod <- MCUintMod
  FlowOfOptional = TRUE
SPECIFICATION Spec
INVARIANTS
  TypePreserved
