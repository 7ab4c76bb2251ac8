\* The queue keeps its last, incomplete part until it is sealed.
CONSTANTS
  Keys <- MCKeys
  Writers <- MCWriters
  MaxRows = 3
  MaxBatch = 2
  QueueHoldsTail = TRUE

SPECIFICATION Spec

INVARIANTS
  TypeOK
  NoUnexpectedEvent
  NothingLostOnCompletion
  FinishedOnceAfterAllUploads

PROPERTIES
  OutputFinishes
