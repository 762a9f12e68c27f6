CONSTANTS
  t1 = t1
  t2 = t2
  k1 = k1
  k2 = k2
  v1 = v1
  n1 = n1
  n2 = n2
  NULL = NULL
  Threads <- TwoThreads
  Keys <- TwoKeys
  Values <- OneValue
  Hash <- SplitBySecond
  Nodes <- TwoNodes
  FirstNode = n1
  NextNode <- NextOfTwo
  Ops <- Changers
  reserve_entries = 0
  LEAST_HASH_ENTRIES = 1
  COLLISION_COUNT_THRESHOLD = 1
  REHASH_STEPS = 2
  REHASH_RETRY = 1
  MaxLateCalls = 1
  CountMod = 3
SPECIFICATION Spec
PROPERTY SwitchesWhenEmpty
