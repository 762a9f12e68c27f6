CONSTANTS
  t1 = t1
  t2 = t2
  b1 = b1
  b2 = b2
  b3 = b3
  NULL = NULL
  Threads <- TwoThreads
  Blocks <- ThreeBlocks
  BlockSize = 2
  MarkToLink = TRUE
  MaxHeld = 2
  Links <- OnlyNull
SPECIFICATION FairSpec
INVARIANTS NoItemLost NeverAborts MemoryBounded
PROPERTIES ImplementsPool OperationsComplete
