SPECIFICATION Spec
CONSTANTS
  Batches <- MCBatches
  MaxConns = 2
  MaxListed = 2
INVARIANTS RunsWholeBatchesInOrder AnswersFitTheirBatch
PROPERTIES ImplementsAtLeastOnce BatchesAreAnswered
