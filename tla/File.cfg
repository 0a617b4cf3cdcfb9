SPECIFICATION Spec
CONSTANTS
  Procs = {p1, p2}
  Serial = TRUE
  Backends = {"file", "memory"}
  InitSlots = 1
  MaxSlots = 3
  Caps = {0, 2}
  LogUnits = 2
  Locks3 = {0}
  Capacity = 7
SYMMETRY ProcSymmetry
INVARIANTS Accepted PayloadsKept MappingCovers TxnExcludes
