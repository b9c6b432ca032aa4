SPECIFICATION MatmulSpec
CONSTANTS
  Problems <- MCProblems
  Schedules <- MCSchedules
  PassTiles <- MCPassTiles
  PassWidths = {2}
  MaxPasses = 4
  Lanes = 2
  WideRows = 1
  MicroRows = 2
  RegisterBudget = 4
  BlockBudget = 5
INVARIANTS
  ReturnsReference
  NoRace
