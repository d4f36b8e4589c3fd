SPECIFICATION Spec
CONSTANTS
  Inputs <- MCInputs
  Max = 3
  MaxUsize = 5
INVARIANTS TypeOK MemoryBounded ReturnsFirstLine
PROPERTIES EveryCallReturns
