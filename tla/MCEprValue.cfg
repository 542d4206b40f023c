SPECIFICATION Spec
CONSTANTS
  Base = 2
  MaxElems = 2
  TimeWords = {1, 2, 15}
  FileTypes <- MCFileTypes
INVARIANTS
  ValuesOfFile
  CopiesAgree
