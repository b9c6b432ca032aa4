SPECIFICATION Spec
CONSTANTS
  Configs <- MCConfigs
  Plans <- MCPlans
  Capacities = {0, 6}
  MaxAppend = 3
  Unset = Unset
INVARIANTS
  CacheKeepsLayout
  RowsMatchReference
  StoresAreExclusive
