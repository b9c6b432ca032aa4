SPECIFICATION Spec
CONSTANTS
  Graphs <- MCLifetimeGraphs
  Alignment = 2
  Rows = 4
INVARIANTS
  BuffersFollowLifetimes
