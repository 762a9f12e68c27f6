CONSTANTS
  v1 = v1
  v2 = v2
  Keys <- NineKeys
  TreeValues <- TwoValues
  Values <- NineKeys
  Pairs <- NinePairs
  Absent = Absent
  NoItem = NoItem
  Done = Done
  NoMemory = NoMemory
  Created = Created
  unit_values_count = 3
  MaxUnits = 3
  Ops <- AllOps
  Probes <- TwoProbes
SPECIFICATION TeardownSpec
INVARIANTS Balanced ItemsInReach AtMostOneLost
PROPERTIES ImplementsDictionary ImplementsSequence
