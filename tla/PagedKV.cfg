SPECIFICATION Spec
CONSTANTS
  Values = {a, b}
  Zero = Zero
  PageTokens = 2
  Capacity = 5
  SequenceKV = 4
  MaxQuery = 3
INVARIANTS TypeOK PagesPartitioned TableFitsLength AllocatorSuffices EveryRowHasAKey
PROPERTIES ImplementsKVSequence
