SPECIFICATION Spec
CONSTANTS
  InlineCap = 1
  ChunkCap = 1
  CountMod = 8
  NumSlots = 3
  Growth = 1
  Keys = {1}
  Pairs <- OneKey
  Values = {1}
  LogSlots = 6
  MaxCalls = 4
  Ops = {"push"}
PROPERTY AbortUndoes
