SPECIFICATION Spec
CONSTANTS
  Terms     <- MCTerms
  Bands     <- MCBands
  Flags     <- MCFlags
  Coding    <- MCCoding
  IsSet     <- MCIsSet
  NumPixels = 4
\* The process may end (pc = "crash").
CHECK_DEADLOCK FALSE
INVARIANT MaskComputed
