CONSTANTS
  t1 = t1
  t2 = t2
  t3 = t3
  a = a
  b = b
  Threads <- ThreeThreads
  Strings = {s1, s2, s3}
  Contents = {a, b}
  Null = Null
  MaxRefs = 2
  Byte = {a, b}
  Zero = Zero
  Junk = Junk
  default_align = 4
  Sizes = {1, 4, 5}
  SourceSizes = {1, 2, 3, 4, 5, 6, 7, 8}
  Chunks <- SomeChunks
  Texts <- SomeTexts
  MaxLength = 6
SPECIFICATION StringsSpec
SYMMETRY Symmetry
INVARIANTS LiveWhileReferenced OnlyRestOfFreeIsLate OnlySmallOrDestroyedFault
PROPERTIES ImplementsOwnValues OnlyCopyLeavesOpen ImplementsText
