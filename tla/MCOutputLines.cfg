SPECIFICATION FairSpec
CONSTANTS
  Thread = {t1, t2}
  Free = Free
  two = two
  one = one
  tiny = tiny
  input = input
  File <- MCFile
  Stdin = input
  WorkLists <- MCWorkLists
  Lines <- MCLines
  Short <- MCShort
  Options <- MCOptions
INVARIANTS
  WholeLines
  OwnOutput
  NamesRepeated
PROPERTIES
  Terminates
