SPECIFICATION Spec
CONSTANTS
  SceneRasterWidth = 1121
  TiePointGridWidth = 71
  MaxFailures = 1
  Files <- MCFiles
INVARIANTS
  TypeOK
  OwnDescriptor
  RecordsFit
  ScalingFromFile
  BandsResolve
  AllBandsOrNone
