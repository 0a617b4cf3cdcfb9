CONSTANTS
  s1 = s1
  s2 = s2
  Threads = {t1}
  Keys = {3, 4, 7}
  Slots = {s1}
  Pairs <- EveryPair
  HashMin = 4
  MaxCap = 15
  MapCap = 8
  Backends = {"file"}
  ManualCaps = {}
  MaxReopens = 0
SPECIFICATION Spec
INVARIANT KeysKept
