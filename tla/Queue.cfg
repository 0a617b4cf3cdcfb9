CONSTANTS
  Threads = {t1, t2}
  Slots = {s1, s2, s3, s4}
  Null = Null
  MaxMsgs = 3
  PoolErrs = {"INDEX_BUSY", "QUEUE_BUSY"}
  MaxFaults = 3
SPECIFICATION Spec
INVARIANTS TypeOK QueueLockExcludes QueueLinked SlotsAccounted NothingLost NeverWaits
PROPERTIES ImplementsFifo EmptyIsTrue
SYMMETRY Symmetry
