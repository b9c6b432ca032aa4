SPECIFICATION JitSpec
CONSTANTS
  Extents = {1, 2, 3, 5, 7, 8}
  Grains = {1, 2, 3, 4}
  Requests = {1, 2, 3, 4, 8}
  Others = {o1, o2}
  OtherHeights = {2, 3}
  Dumps = {"dump"}
  ThisDump = "dump"
INVARIANTS
  RowsWrittenOnce
  OneKernelPerLoop
PROPERTIES
  ImplementsOrcRows
