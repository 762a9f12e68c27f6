CONSTANTS
  v1 = v1
  v2 = v2
  Values <- TwoValues
  NoItem = NoItem
  Done = Done
  NoMemory = NoMemory
  Created = Created
  unit_values_count = 3
  MaxUnits = 3
  Ops <- AsQueue
SPECIFICATION Spec
INVARIANT NotEmptyGivesItem
