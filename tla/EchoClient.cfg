SPECIFICATION Spec
CONSTANTS
  N = 5
  Addresses = 2
  BLOCKSIZE = 2
  INITRINGSIZE = 3
  Room = 1
INVARIANT NothingIsLostOnTheWay
PROPERTIES EchoComesBack ConnectingEnds
