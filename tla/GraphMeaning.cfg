SPECIFICATION Spec
CONSTANTS
  Graphs <- MCMeaningGraphs
  Alignment = 2
  Rows = 4
INVARIANTS
  CanonicalKeepsMeaning
