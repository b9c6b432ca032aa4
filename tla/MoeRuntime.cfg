SPECIFICATION Spec
CONSTANTS
  CompiledTokens = 2
  RuntimeTokens = {0, 2, 3}
  ExpertCount = 3
  TopK = 2
  Schedules <- MCSchedules
  Nothing = Nothing
INVARIANTS
  SegmentsHoldTheirTokens
  TasksPartitionSegments
  SlicesAreExclusive
  ReturnsReference
