SPECIFICATION Spec
CONSTANTS
  Bands    <- MCBands
  Rasters  <- MCRasters
  Offsets  <- MCOffsets
  Sentinel = 4
  NoRaster = NoRaster
  MaxReads = 1
INVARIANTS TypeOK Bracketed KnotsInLine PixelsCorrect CrashCauses
PROPERTY ReadEnds
\* The process may end (pc = "crash").
CHECK_DEADLOCK FALSE
