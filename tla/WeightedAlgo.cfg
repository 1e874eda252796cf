SPECIFICATION Spec
CONSTANTS
  Weights <- MCWeights
  MaxRecords = 3
  Divisors <- MCDivisors
INVARIANTS IInv GcdIsGreatest ReducedInProportion OnlyZerosCrash
PROPERTY Ends
