CONSTANTS
  s1 = s1
  s2 = s2
  Threads = {t1, t2}
  Keys = {2, 3, 4, 6, 7}
  Slots = {s1, s2}
  Pairs <- SomePairs
  HashMin = 2
  MaxCap = 15
  MapCap = 4
  Backends = {"file", "memory"}
  ManualCaps = {1, 3, 4, 8, 16}
  MaxReopens = 1
SPECIFICATION Spec
INVARIANTS EveryEntryFound CountExact
PROPERTY ImplementsMap
SYMMETRY Symmetry
VIEW View
