SPECIFICATION Spec
CONSTANTS
  NumThreads = 3
  MaxItems = 1
INVARIANTS
  CreateFailureIsReported
