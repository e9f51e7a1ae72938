SPECIFICATION FairSpec
CONSTANTS
  NumThreads = 3
  MaxItems = 3
INVARIANTS
  TypeOK
  ListWellFormed
  ExactlyOnePlace
  NoStrandedWork
  DestroyCompletes
PROPERTIES
  ImplementsQueue
  EveryItemRuns
  CallsReturn
