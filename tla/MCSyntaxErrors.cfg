SPECIFICATION ParserSpec
CONSTANT
  Expressions <- MCExpressions
INVARIANT
  SyntaxErrorsReturned
