SPECIFICATION FairSpec
CONSTANTS
  top = top
  sub = sub
  nest = nest
  file = file
  deep = deep
  long = long
  dot = dot
  link = link
  Node <- MCNode
  Root = top
  Byte = {0, 1, 2, 3, 4}
  Name <- MCName
  Dot = 0
  Link <- MCLink
  Trees <- MCTrees
  PathMax = 8
  MaxLinks = 2
  MaxOpen = 5
INVARIANTS
  TypeOK
  YieldsFilesOnce
  DirectoriesAreClosed
  RefusedForAReason
PROPERTIES
  Terminates
