CONSTANTS
  Inputs <- SomeBytes
  MaxInput = 8
SPECIFICATION CodingSpec
INVARIANTS ConvertsBytes AcceptsWellFormed
