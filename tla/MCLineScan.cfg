SPECIFICATION FairSpec
CONSTANTS
  a = a
  b = b
  zero = zero
  nl = nl
  Byte <- MCByte
  Newline = nl
  Nul = zero
  MaxLen = 5
  Matching <- MCMatching
  Needles <- MCNeedles
  StackBuf = 3
  Options <- MCOptions
  Widths <- MCWidths
  NotFound = NotFound
INVARIANTS
  PrintsWantedLines
  SummarisesWantedLines
  LinesStayInStep
  FindsFirstNewline
PROPERTIES
  Terminates
