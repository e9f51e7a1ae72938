SPECIFICATION Spec
CONSTANTS
  InitialCap = 2
  Limit = 8
  MaxInput = 10
INVARIANTS
  TakesThePrefix
  StaysInside
  NothingLeaks
