CONSTANTS
  Writers = {w}
  Readers = {r}
  HandleOf <- OneHandle
  Keys = {3, 4, 7}
  Slots = {1, 2, 3}
  Pairs <- SomePairs
  InitCap = 4
  Caps = {2, 4}
  PerSlot = 2
  MaxWrites = 3
  MaxTries = 2
SPECIFICATION Spec
INVARIANTS LookupTrue GetTrue SectionsWhole IterTrue
