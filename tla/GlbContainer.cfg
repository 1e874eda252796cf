SPECIFICATION Spec
CONSTANTS
  Threads = {t1, t2, t3}
  NoThread = NoThread
  Records <- MCRecords
  Requests <- MCRequests
  MaxCalls = 3
INVARIANT IInv
PROPERTY ImplementsAtomicContainer
PROPERTY CallsReturn
