CONSTANTS
  Values <- TwoValues
  Unset = Unset
  Memory = Memory
  NoSuchIndex = NoSuchIndex
  Ops <- AllOps
  LEAST_HEAP_SIZE = 10
  capacity = 4
  MaxSize = 11
SPECIFICATION Spec
INVARIANT Fits
PROPERTIES ImplementsBag SortedAtEnd
