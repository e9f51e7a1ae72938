SPECIFICATION Spec
CONSTANTS
  a = a
  h = h
  nl = nl
  Byte <- MCByte
  Newline = nl
  High <- MCHigh
  Lanes = 2
  MaxLen = 5
  MaxNeedle = 3
  Options <- MCOptions
  PathLen = 1
  LineNoRoom = 3
  BufSize = 8
INVARIANTS
  CountsEveryMatch
