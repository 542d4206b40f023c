SPECIFICATION ParserSpec
CONSTANT
  Expressions <- MCExpressions
INVARIANTS
  MeaningKept
  RoundTrip
