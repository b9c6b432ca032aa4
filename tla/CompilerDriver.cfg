SPECIFICATION DriverSpec
CONSTANTS
  Processes = {a, b}
  Tiles <- MCTiles
  KTiles <- MCKTiles
  RowTiles <- MCRowTiles
  Widths <- MCWidths
  PackingModes <- MCPackingModes
  Prefetches <- MCPrefetches
  Unrolls <- MCUnrolls
  TeamSizes <- MCTeamSizes
  VectorRegisters = 16
  WorkingSet = 131072
  Lanes = 8
  WideRows = 6
  MicroRows = 8
  Shapes <- MCShapes
  Epilogues <- MCEpilogues
  Buckets <- MCBuckets
  Options <- MCOptions
  Requested <- MCSchedules
  Times = {1, 2}
  Repetitions = 2
  MaxCalls = 3
SYMMETRY Symmetry
INVARIANTS
  PruningIsLossless
  TunedIsBest
  HitsReplaySchedules
  LiveBuffersAreDisjoint
