SPECIFICATION RepliesSpec
CONSTANTS
  IntHalf = 4
  Int64Half = 32
  Strings <- MCStrings
  Garbage <- MCGarbage
  Counts <- MCCounts
  MaxItems = 2
  Arrays = {"a", "b"}
  PoolStrings = {"s"}
  Stack = "stack"
  ElementSize = 4
  StringSizes = {1, 5, 8}
  PushSizes = {4, 8}
  StackCapacity = 4
  ChunkCapacity = 12
  MaxChunks = 4
INVARIANTS WriterAssertionsHold RepliesReadBack PoolKeepsBlocks
CHECK_DEADLOCK FALSE
