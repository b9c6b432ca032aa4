SPECIFICATION FairSpec
CONSTANTS
  NoCaller = NoCaller
  Callers = {c1, c2}
  ThreadCount = 3
  MaxGeneration = 2
INVARIANTS TypeOK JoinIsComplete EveryCopyIsAJob NoLostWakeup
PROPERTIES ImplementsForkJoin CallsMakeProgress TeardownEnds
