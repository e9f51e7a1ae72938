SPECIFICATION Spec
CONSTANTS
  NumThreads = 2
  MaxItems = 3
  two = two
  none = none
  locked = locked
  tiny = tiny
  input = input
  Files <- MCFiles
  ArgLists <- MCArgLists
  Matches <- MCMatches
  Unreadable <- MCUnreadable
  Short <- MCShort
  Stdin = input
INVARIANTS
  ListedFilesAreSearched
