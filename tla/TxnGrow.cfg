SPECIFICATION Spec
CONSTANTS
  InlineCap = 1
  ChunkCap = 1
  CountMod = 8
  NumSlots = 2
  Growth = 1
  Keys = {1}
  Pairs <- OneKey
  Values = {1}
  LogSlots = 3
  MaxCalls = 4
  Ops = {"grow", "alloc"}
PROPERTY BeginKeeps
