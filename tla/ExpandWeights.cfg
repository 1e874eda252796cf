SPECIFICATION Spec
CONSTANTS
  Weights <- MCWeights
  MaxRecords = 3
  Divisors <- MCDivisors
INVARIANT ExpandedByWeight
