SPECIFICATION Spec
CONSTANTS
  Terms     <- MCTerms
  Bands     <- MCBands
  Flags     <- MCFlags
  Coding    <- MCCoding
  IsSet     <- MCIsSet
  NumPixels = 4
INVARIANTS TypeOK MaskCorrect ConjunctionsReport ReadOnce
PROPERTY ReadEnds
\* The process may end (pc = "crash").
CHECK_DEADLOCK FALSE
