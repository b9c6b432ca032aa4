SPECIFICATION Spec
CONSTANTS
  Graphs <- MCGraphs
  Alignment = 2
  Rows = 4
INVARIANTS
  DispatchesAreClosed
  LiveValuesKeepTheirBytes
  CanonicalKeepsMlp
