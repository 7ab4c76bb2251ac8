\* Every pushed row is a complete part at once: the queue holds no tail.
CONSTANTS
  Keys <- MCKeys
  Writers <- MCWriters
  MaxRows = 3
  MaxBatch = 2
  QueueHoldsTail = FALSE

SPECIFICATION Spec


PROPERTIES
  OutputFinishes
