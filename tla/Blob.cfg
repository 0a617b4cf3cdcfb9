SPECIFICATION Spec
CONSTANTS
  InlineCap = 1
  ChunkCap = 1
  CountMod = 8
  InitSlots = 2
  Room = 4
  Values = {1}
  MaxLen = 3
  VisitCache = 2
  MaxDepth = 3
  StaleLinks = FALSE
INVARIANTS SlotsReadable PoolExact ChainsOwned BlobKept ChaseAgrees
