CONSTANTS
  t1 = t1
  t2 = t2
  t3 = t3
  NoThread = NoThread
  Threads <- AllThreads
  Ops <- OneOfEach
  Faults <- AllFaults
SPECIFICATION Spec
INVARIANT FreedNodesUnlinked
