CONSTANTS
  Calls <- MCCalls
  Latencies = {1, 2, 3}
SPECIFICATION PlanSpec
INVARIANTS
  LayerKeepsMeaning
  WinnerIsReported
  CanonicalCompilesAgain
  SimulatedTilesAreVisible
CHECK_DEADLOCK FALSE
