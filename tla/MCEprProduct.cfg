SPECIFICATION Spec
CONSTANTS
  Products = {p1, p2}
  NoFile = NoFile
  MphSize = 10
  DsdSize = 3
  Wrap = 64
  Files <- MCFiles
\* The process may end (pc = "crash").
CHECK_DEADLOCK FALSE
INVARIANTS
  TypeOK
  HandleComplete
  NoHalfBuilt
  NullCauses
PROPERTY OpenEnds
