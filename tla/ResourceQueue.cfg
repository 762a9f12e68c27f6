CONSTANTS
  t1 = t1
  t2 = t2
  t3 = t3
  NoThread = NoThread
  Threads <- AllThreads
  Ops <- Untimed
  Faults <- NoFaults
SPECIFICATION FairSpec
INVARIANTS NoIdleQueue
PROPERTIES ImplementsRWMutex NoOvertaking WaitersGetTheResource
