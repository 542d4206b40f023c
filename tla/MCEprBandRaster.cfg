SPECIFICATION Spec
CONSTANTS
  Width    = 4
  Bands    <- MCBands
  Rasters  <- MCRasters
  Offsets  <- MCOffsets
  Valid    <- MCValid
  MaxReads = 2
  Zero     = Zero
  NoRaster = NoRaster
  NoCall   = NoCall
INVARIANTS TypeOK InBounds ReadCorrect
PROPERTIES ReadEnds
CHECK_DEADLOCK FALSE
