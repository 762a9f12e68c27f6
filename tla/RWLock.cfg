CONSTANTS
  t1 = t1
  t2 = t2
  t3 = t3
  Threads <- AllThreads
  Ops <- OnePromoter
SPECIFICATION FairSpec
INVARIANTS FieldsMatchHolders IntentHasOwner OnlyDemoteAborts
PROPERTIES ImplementsRWMutex IntentLeadsToWriter
