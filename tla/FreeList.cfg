CONSTANTS
  Threads = {t1, t2}
  MaxSlots = 3
  SchemaVersion = 5
  CountMax = 4
  SpinMax = 2
SPECIFICATION FairSpec
INVARIANTS TypeOK LockExcludes OwnedOnce ListLinked CountExact
PROPERTIES FullMeansUncounted ImplementsPool EveryCallReturns
