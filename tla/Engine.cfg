\* Batches of two, up to five chunks: empty, partial and full last batches.
CONSTANTS
  BatchSize = 2
  MaxChunks = 5
SPECIFICATION Spec
INVARIANT AtMostOneLateBatch
PROPERTIES ImplementsContract EveryStepCounts
