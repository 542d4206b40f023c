SPECIFICATION Spec
CONSTANTS
  pair = pair
  twin = twin
  empty = empty
  unknown = unknown
  Datasets = {pair, twin, empty, unknown}
  Layout <- MCLayout
  Dsd    <- MCDsd
  Records = {r1, r2}
  NoRecord = NoRecord
  NoInfo = NoInfo
  NoCall = NoCall
  Blank = Blank
  Damaged = Damaged
  LittleEndian = TRUE
  BadCount = 9
  Capacity = 1
  Wrap = 64
INVARIANTS TypeOK ErrorIffNull CrashCauses
PROPERTIES LinesKept ReadEnds
\* The process may end (pc = "crash").
CHECK_DEADLOCK FALSE
